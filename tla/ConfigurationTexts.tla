------------------------- MODULE ConfigurationTexts -------------------------
(* Texts for the instances of Configuration: documents of each format, of up *)
(* to three loggers, well formed and with an error in various places.        *)
EXTENDS ConfigurationConstants

Element(name, entries) == [name |-> name, entries |-> entries]
Doc(format, elements) == [format |-> format, elements |-> elements, malformed |-> FALSE]

JsonAgain == Doc("json", <<Element("a", <<"A">>), Element(Root, <<"B">>), Element("a", <<"B">>)>>)
JsonBad == Doc("json", <<Element("b", <<"A">>), Element("a", <<"A", "bad">>), Element(Root, <<"A">>)>>)
Yaml == Doc("yaml_items", <<Element(Root, <<"name", "level", "A">>), Element("b", <<"name", "A", "B">>)>>)
YamlNameless == Doc("yaml_items", <<Element("a", <<"A", "bad", "name">>), Element("b", <<"name", "A", "bad", "B">>)>>)
YamlPairs == Doc("yaml_pairs", <<Element("a", <<"name", "A", "bad", "B">>), Element("b", <<"A">>), Element(Root, <<"name", "A">>)>>)
YamlBroken == [Doc("yaml_pairs", <<Element("a", <<"name", "B">>)>>) EXCEPT !.malformed = TRUE]
Config == Doc("config_file", <<Element("a", <<"A", "bad">>), Element("b", <<"level", "B">>)>>)
Log4cplus == Doc("log4cplus", <<Element(Root, <<"level", "A">>), Element("a", <<"level", "A", "B">>)>>)
Log4cplusBad == Doc("log4cplus", <<Element(Root, <<"level", "bad">>), Element("a", <<"level", "A">>)>>)
Unknown == Doc("unknown", <<>>)

SomeDocuments == {JsonAgain, JsonBad, Yaml, YamlNameless, YamlPairs, YamlBroken, Config, Log4cplus,
                  Log4cplusBad, Unknown}
SomeContents == {JsonBad, Yaml, NoText("absent")}
SomeFallbacks == {NoText("none"), YamlPairs}
=============================================================================
