----------------------- MODULE ConfigurationConstants -----------------------
(* What there is to configure: the loggers, and the texts that say how.      *)
EXTENDS Integers, Sequences

CONSTANTS Names,          \* of loggers other than the root
          Documents,      \* the texts of configurations
          Contents,       \* what the files may have
          Fallbacks,      \* what set_fallback may be given
          OperationBound  \* no more configurations than this

Root == "<root>"

\* The last four say what there is instead of a text.
Formats == {"json", "config_file", "log4cplus", "yaml_items", "yaml_pairs", "unknown",
            "absent", "too_big", "none", "default"}
Elements == [name : Names \cup {Root}, entries : Seq(STRING)]
\* What is no text: a file that is absent or too big, a fallback that is not set.
NoText(why) == [format |-> why, elements |-> <<>>, malformed |-> FALSE]
IsDocument(doc) == doc \in [format : Formats, elements : Seq(Elements), malformed : BOOLEAN]

ASSUME DocumentAssumption ==
  /\ Root \notin Names
  /\ \A doc \in Documents \cup Contents \cup Fallbacks : IsDocument(doc)
=============================================================================
