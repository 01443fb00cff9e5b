---------------------------- MODULE MCEventCache ----------------------------
(* Instances of EventCache, with a stream long enough to fill it, cull it    *)
(* several times and drain it, and of Configuration, for TLC. A behaviour is *)
(* one of either: which, is chosen at the beginning.                         *)
EXTENDS EventCache, ConfigurationTexts

VARIABLES part, style, environment, fallback, allowDefault, texts, initialized, isConfigured,
          loadedFile, roots, loggers, held, stuck, operations, document, forgotten

configuration == <<style, environment, fallback, allowDefault, texts, initialized,
                   isConfigured, loadedFile, roots, loggers, held, stuck, operations,
                   document, forgotten>>

Loggers == INSTANCE Configuration WITH files <- texts

\* A chunk takes five least events, which leave room for the length of one more, or one
\* that fills it. Two least events and a whole chunk stay below the maximum, and three
\* whole chunks are more than twice as much.
LeastAndWhole == {2, 11}

\* A bound: the progress callback is set, and removed, while the cache is empty or full.
CallbackBound == callback' # callback => currentSize = 0 \/ IsFull(currentSize)

\* A bound: the file of the environment is only made when the environment names one.
FileBound == ~environment => texts["environment"] = NoText("absent")

\* The part that is not chosen stays in one initial state. The first get reads the other
\* settings only if the style is AUTOMATIC; when it is OFF they have one value each.
PartsInit ==
  /\ Init /\ Loggers!Init
  /\ part \in {"cache", "configuration"}
  /\ FileBound
  /\ style = "OFF" => ~environment /\ ~allowDefault /\ fallback = NoText("none")
  /\ part = "cache" => style = "OFF" /\ Range(texts) = {NoText("absent")}

PartsNext ==
  \/ part = "cache" /\ Next /\ CallbackBound /\ UNCHANGED <<part, configuration>>
  \/ part = "configuration" /\ Loggers!Next /\ FileBound' /\ UNCHANGED <<part, vars>>

PartsSpec == PartsInit /\ [][PartsNext]_<<part, vars, configuration>>

\* The properties of Configuration, where they are stated.
ConfigurationReplaces == Loggers!ConfigurationReplaces
OldWritersAreGone == Loggers!OldWritersAreGone
LoggersAreMadeWhole == Loggers!LoggersAreMadeWhole
=============================================================================
