--------------------------- MODULE Configuration ---------------------------
(***************************************************************************)
(* The configuration of the loggers: at the first logger::get, by          *)
(* configuration::set and by configuration::reconfigure, with what the     *)
(* configurators of each format make of a document that has an error in    *)
(* it.  The methods of configuration are not thread safe, so each is one   *)
(* action.                                                                 *)
(*                                                                         *)
(* A document is a sequence of loggers, each with what it sets in order:   *)
(* its name, its level, its writers, and "bad", which is any error.        *)
(* Loggers are children of the root here; LoggerRegistry has the rest.     *)
(***************************************************************************)
EXTENDS ConfigurationConstants, SequencesExt, Functions

VARIABLES style,        \* style_
          environment,  \* does the environment name a file?
          fallback,     \* fallback_
          allowDefault, \* allow_default_config_
          files,        \* the one of the environment, and the one of file_name_
          initialized,  \* is_initialized_
          isConfigured, \* is_configured_
          loadedFile,   \* loaded_file_name_
          roots,        \* every root logger there has been; the last is registered
          loggers,      \* all_loggers_, but for the root
          held,         \* the loggers that the application has
          stuck,        \* does the first get wait for a mutex that it holds?
          operations,   \* how many texts have been read
          document,     \* the last of them
          forgotten     \* the loggers removed since, with what it gave them

settings == <<style, environment, fallback, allowDefault>>
vars == <<settings, files, initialized, isConfigured, loadedFile, roots, loggers, held,
          stuck, operations, document, forgotten>>

\* Is it a text, or what there is instead of one?
IsText(doc) == doc.format \notin {"absent", "too_big", "none", "default"}

Init == /\ style \in {"AUTOMATIC", "OFF"} /\ environment \in BOOLEAN
        /\ fallback \in Fallbacks /\ allowDefault \in BOOLEAN
        /\ files \in [{"environment", "named"} -> Contents]
        /\ initialized = FALSE /\ isConfigured = FALSE /\ loadedFile = "none"
        /\ roots = <<>> /\ loggers = <<>>
        /\ held = {} /\ stuck = FALSE
        /\ operations = 0 /\ document = NoText("none") /\ forgotten = {}

-----------------------------------------------------------------------------
(* Loggers.  s is what a configuration finds and leaves.                   *)

NewLogger(level, root) == [writers |-> <<>>, level |-> level, root |-> root]

NewRoot(s, level) == [s EXCEPT !.roots = Append(@, NewLogger(level, 0))]

\* A logger keeps the root that it was made under.
GetImpl(s, n) ==
  LET t == IF s.roots = <<>> THEN NewRoot(s, "none") ELSE s
  IN  IF n = Root \/ n \in DOMAIN t.loggers THEN t
      ELSE [t EXCEPT !.loggers =
              [m \in DOMAIN @ \cup {n} |->
                 IF m = n THEN NewLogger("none", Len(t.roots)) ELSE @[m]]]

\* Mutant: the writers of a logger that is named again replace those it has.
ConfiguredAnew(lgr, m) ==
  [lgr EXCEPT !.writers = m.writers, !.level = IF m.level = "none" THEN @ ELSE m.level]
\* logger_factory::create_configurable.
Configured(lgr, m) ==
  [lgr EXCEPT !.writers = @ \o m.writers, !.level = IF m.level = "none" THEN @ ELSE m.level]
Create(s, m) ==
  LET t == GetImpl(s, m.name)
  IN  IF m.name = Root THEN [t EXCEPT !.roots[Len(t.roots)] = Configured(@, m)]
      ELSE [t EXCEPT !.loggers[m.name] = Configured(@, m)]

Cleared(lgr) == [lgr EXCEPT !.writers = <<>>, !.level = "none"]
\* Mutant: only loggers that are in use.
ResetHeld(s) ==
  [s EXCEPT !.roots = [i \in DOMAIN @ |-> IF i = Len(@) THEN Cleared(@[i]) ELSE @[i]],
            !.loggers = [n \in DOMAIN @ |-> IF n \in held THEN Cleared(@[n]) ELSE @[n]]]
\* logger::reset of all registered ones.
Reset(s) ==
  [s EXCEPT !.roots = [i \in DOMAIN @ |-> IF i = Len(@) THEN Cleared(@[i]) ELSE @[i]],
            !.loggers = [n \in DOMAIN @ |-> Cleared(@[n])]]

-----------------------------------------------------------------------------
(* Configurators.                                                          *)

\* The entries at the places, in their order.
Selected(entries, places) ==
  LET Sel[k \in 0 .. Len(entries)] ==
        IF k = 0 THEN <<>>
        ELSE IF k \in places THEN Append(Sel[k - 1], entries[k]) ELSE Sel[k - 1]
  IN  Sel[Len(entries)]

\* An error ends the YAML mapping that it is in, but takes just one item of a sequence.
\* With "yaml_items" the loggers are items of a sequence, each a mapping; with "yaml
\* pairs" they are the pairs of one mapping, each a sequence. A place is of an entry.
Handled(format, entries) ==
  {k \in DOMAIN entries :
     \A j \in 1 .. k : entries[j] = "bad" => j # k /\ format # "yaml_items"}

HasAt(entries, places, entry) == \E k \in places : entries[k] = entry
Has(entries, entry) == HasAt(entries, DOMAIN entries, entry)

IsWriter(entry) == entry \notin {"name", "level", "bad"}
WritersAmong(entries, places) == Selected(entries, {k \in places : IsWriter(entries[k])})

Memento(s, element, places) ==
  LET writers == WritersAmong(element.entries, places)
  IN  [name |-> element.name,
       level |-> IF HasAt(element.entries, places, "level") THEN "DEBUG" ELSE "none",
       writers |-> [i \in DOMAIN writers |-> [name |-> writers[i], of |-> s.operation]]]

CreateFrom(s, element) == Create(s, Memento(s, element, DOMAIN element.entries))

\* The name is one of the entries: without it no logger is made, which is an error too.
YamlLogger(format, s, element) ==
  LET handled == Handled(format, element.entries)
  IN  IF s.over THEN s
      ELSE IF HasAt(element.entries, handled, "name")
      THEN Create(s, Memento(s, element, handled))
      ELSE [s EXCEPT !.over = format = "yaml_pairs"]

\* Mutant: what was handled before the error is made.
JsonLoggerAnyway(s, element) ==
  IF s.threw THEN s
  ELSE [CreateFrom(s, element) EXCEPT !.threw = Has(element.entries, "bad")]
\* An error leaves configure.
JsonLogger(s, element) ==
  IF s.threw THEN s
  ELSE IF Has(element.entries, "bad") THEN [s EXCEPT !.threw = TRUE]
  ELSE CreateFrom(s, element)

\* An error is caught for each logger, but of log4cplus not for the root, which is first.
ConfigFileLogger(format, s, element) ==
  IF s.threw THEN s
  ELSE IF Has(element.entries, "bad")
  THEN [s EXCEPT !.threw = format = "log4cplus" /\ element.name = Root]
  ELSE CreateFrom(s, element)

Logger(format, s, element) ==
  CASE format = "json" -> JsonLogger(s, element)
    [] format \in {"config_file", "log4cplus"} -> ConfigFileLogger(format, s, element)
    [] OTHER -> YamlLogger(format, s, element)

\* A malformed text throws, YAML when what precedes it has been configured. A text of no
\* format fails without an exception.
Configure(s, doc) ==
  LET Made[k \in 0 .. Len(doc.elements)] ==
        IF k = 0 THEN s ELSE Logger(doc.format, Made[k - 1], doc.elements[k])
      t == Made[Len(doc.elements)]
  IN  [t EXCEPT !.threw = @ \/ doc.malformed,
                !.good = ~(t.threw \/ doc.malformed \/ doc.format = "unknown")]

-----------------------------------------------------------------------------
(* logger and configuration.                                               *)

Now == [roots |-> roots, loggers |-> loggers, operation |-> operations + 1,
        over |-> FALSE, threw |-> FALSE, good |-> FALSE]

Leave(s) == roots' = s.roots /\ loggers' = s.loggers
Read(doc) == /\ operations < OperationBound
             /\ operations' = operations + 1 /\ document' = doc /\ forgotten' = {}

FileToTry == IF environment THEN "environment" ELSE "named"

\* set_default_config.
DefaultConfig(s) ==
  IF Last(s.roots).writers # <<>> THEN s
  ELSE Create(s, [name |-> Root, level |-> "none",
                  writers |-> <<[name |-> "console", of |-> s.operation]>>])

\* configuration::perform and the first get of n. The file is tried, or without one the
\* fallback. If that fails remove_unused_loggers locks the mutex that get has locked.
Perform(s, n) ==
  LET file == files[FileToTry]
      text == IF IsText(file) THEN file ELSE fallback
      t == Configure(s, text)
  IN  IF IsText(text)
      THEN /\ Read(text) /\ Leave(IF t.good THEN GetImpl(t, n) ELSE t)
           /\ isConfigured' = t.good /\ stuck' = ~t.good
           /\ loadedFile' = IF t.good /\ IsText(file) THEN FileToTry ELSE loadedFile
      ELSE /\ Read(NoText("default")) /\ Leave(GetImpl(IF allowDefault THEN DefaultConfig(s) ELSE s, n))
           /\ isConfigured' = allowDefault
           /\ UNCHANGED <<stuck, loadedFile>>

\* logger::get when it is the first: the root is a new one.
FirstGet(n) ==
  /\ ~initialized /\ initialized' = TRUE
  /\ held' = held \cup {n}
  /\ LET s == NewRoot(Now, "INFO")
     IN  IF style = "AUTOMATIC" THEN Perform(s, n)
         ELSE /\ Leave(GetImpl(s, n))
              /\ UNCHANGED <<isConfigured, stuck, loadedFile, operations, document, forgotten>>
  /\ UNCHANGED <<settings, files>>

Get(n) ==
  /\ initialized /\ n \notin held
  /\ held' = held \cup {n}
  /\ Leave(GetImpl(Now, n))
  /\ UNCHANGED <<settings, files, initialized, isConfigured, loadedFile, stuck, operations,
                 document, forgotten>>

Release(n) ==
  /\ n \in held /\ held' = held \ {n}
  /\ UNCHANGED <<settings, files, initialized, isConfigured, loadedFile, roots, loggers,
                 stuck, operations, document, forgotten>>

RemoveUnused ==
  /\ loggers' = Restrict(loggers, DOMAIN loggers \cap held)
  /\ forgotten' = forgotten \cup (DOMAIN loggers \ held)
  /\ UNCHANGED <<settings, files, initialized, isConfigured, loadedFile, roots, held,
                 stuck, operations, document>>

\* configuration::set. After an exception new loggers are removed; those there were are
\* in use by set itself.
Set(doc) ==
  /\ Read(doc)
  /\ LET t == Configure(Reset(Now), doc)
     IN  Leave(IF t.threw
               THEN [t EXCEPT !.loggers = Restrict(@, DOMAIN loggers \cup (DOMAIN @ \cap held))]
               ELSE t)
  /\ UNCHANGED <<settings, files, initialized, isConfigured, loadedFile, held, stuck>>

\* configuration::reconfigure, which leaves all as it is without a file to read.
Reconfigure ==
  /\ isConfigured /\ style = "AUTOMATIC"
  /\ LET file == IF loadedFile = "none" THEN "named" ELSE loadedFile
         t == Configure(Reset(Now), files[file])
     IN  /\ IsText(files[file])
         /\ Read(files[file]) /\ Leave(t)
         /\ loadedFile' = IF t.good THEN file ELSE loadedFile
  /\ UNCHANGED <<settings, files, initialized, isConfigured, held, stuck>>

ChangeFile(file, content) ==
  /\ files' = [files EXCEPT ![file] = content]
  /\ UNCHANGED <<settings, initialized, isConfigured, loadedFile, roots, loggers, held,
                 stuck, operations, document, forgotten>>

\* A stuck get is the end of every call that needs the registry.
Next == /\ ~stuck
        /\ \/ \E n \in Names : FirstGet(n) \/ Get(n) \/ Release(n)
           \/ \E doc \in Documents : Set(doc)
           \/ RemoveUnused \/ Reconfigure
           \/ \E file \in DOMAIN files, content \in Contents : ChangeFile(file, content)

Spec == Init /\ [][Next]_vars

-----------------------------------------------------------------------------
(* Properties.                                                             *)

\* Was anything configured before the first get? Its loggers keep a root that no
\* configuration reaches any more.
SetEarly == Len(roots) > 1

Registered == [n \in DOMAIN loggers \cup {Root} |-> IF n = Root THEN Last(roots) ELSE loggers[n]]
WriterNames(n) == [i \in DOMAIN Registered[n].writers |-> Registered[n].writers[i].name]

\* The writers that the elements at the places give the logger n, in their order.
WritersIn(entries) == WritersAmong(entries, DOMAIN entries)
Given(elements, n, places) ==
  LET All[k \in 0 .. Len(elements)] ==
        IF k = 0 THEN <<>>
        ELSE IF k \in places /\ elements[k].name = n
        THEN All[k - 1] \o WritersIn(elements[k].entries) ELSE All[k - 1]
  IN  All[Len(elements)]

IsValid(doc) ==
  /\ ~doc.malformed /\ doc.format # "unknown"
  /\ \A element \in ToSet(doc.elements) :
       /\ ~Has(element.entries, "bad")
       /\ doc.format \in {"yaml_items", "yaml_pairs"} => Has(element.entries, "name")

\* "The new configuration will replace the existing one": after a document without an
\* error, whatever its format and whether it came by the first get, set or reconfigure,
\* the registered loggers have the writers it gives them, in its order, and no others;
\* but what remove_unused_loggers removes is forgotten, though no get has asked for it yet.
ConfigurationReplaces ==
  roots # <<>> /\ ~SetEarly /\ IsText(document) /\ IsValid(document) =>
    /\ \A n \in DOMAIN Registered \ forgotten :
         WriterNames(n) = Given(document.elements, n, DOMAIN document.elements)
    /\ held \subseteq DOMAIN loggers

\* A registered logger has no writer of an earlier configuration, not even when the last
\* one failed and left some loggers configured and others not. It says nothing of a logger
\* that remove_unused_loggers has forgotten and a child still keeps, of which there is none
\* here since all are children of the root: such a parent is not reset, and the events of
\* the child go on to its writers.
OldWritersAreGone ==
  roots # <<>> /\ ~SetEarly =>
    \A n \in DOMAIN Registered : \A w \in ToSet(Registered[n].writers) : w.of = operations

\* In JSON and configuration files an error never leaves a logger half made: it has the
\* writers of some of the elements that name it, each with all it has, or none.
LoggersAreMadeWhole ==
  /\ roots # <<>> /\ ~SetEarly /\ IsText(document)
  /\ document.format \in {"json", "config_file", "log4cplus"}
  => \A n \in DOMAIN Registered :
       \E places \in SUBSET DOMAIN document.elements :
         /\ WriterNames(n) = Given(document.elements, n, places)
         /\ \A k \in places : ~Has(document.elements[k].entries, "bad")

\* "The root logger always has a level."
RootHasLevel == initialized => Last(roots).level # "none"
=============================================================================
