------------------------------- MODULE MCStartup ------------------------------
(* Small instances of Startup for TLC: configuration files with the instances and
   the prefix they were written for, well-formed ones and wrong ones. *)
EXTENDS Startup, TLC

SomeSizes == ("a" :> 1) @@ (".h" :> 2) @@ ("x." :> 2) @@ ("long" :> 7) @@ ("default.log" :> 1)
             @@ ("one.log" :> 2) @@ ("two.log" :> 2)
SomeNames == DOMAIN SomeSizes
SomeValues == ("0" :> 0) @@ ("3" :> 3) @@ ("4" :> 4) @@ ("5" :> 5) @@ ("9" :> 9) @@ ("-1" :> -1)
SomeLexemes == {"log.prefix", "log.instance", Colon, Hash, Comma, Blank, "%L", "%M", "one", "two",
                ".", "..", "~", Slash} \cup SomeNames \cup DOMAIN SomeValues
SomeLogs == [l \in SomeLexemes |-> IF l = "one" THEN "one.log" ELSE "two.log"]

SomeHomes == {Text(0 :> Slash, 1),
              Text(0 :> Slash @@ 1 :> "a", 2),
              Text(0 :> Slash @@ 1 :> ".h" @@ 3 :> Slash, 4),
              Text(0 :> Slash @@ 1 :> "a" @@ 2 :> Slash @@ 3 :> "x." @@ 5 :> Slash, 6)}
SomeCwds == {Text(0 :> Slash, 1), Text(0 :> Slash @@ 1 :> "a" @@ 2 :> Slash @@ 3 :> "x.", 5)}

(* All spellings of up to four tokens. *)
Parts == {".", "..", "~", "a", "long"}
Spelled(p) == \A i \in 1 .. Len(p) - 1 : p[i] = Slash \/ p[i + 1] = Slash
Spellings == {p \in BoundedSeq(Parts \cup {Slash}, 4) \ {<<>>} : Spelled(p)}
FewSpellings == {<<"a">>, <<".", Slash, "a">>, <<".h">>, <<"x.">>, <<"~", Slash, "x.", Slash>>,
                 <<Slash, "a", Slash, Slash, "..", Slash, "a">>}
SomePrefixes == {<<>>, <<"a">>, <<"a", Slash, "..", Slash>>, <<"~", Slash, "a">>}

Joined(fields) == FoldLeft(LAMBDA text, field : text \o <<Comma>> \o field, Head(fields), Tail(fields))

Instance(n, format, path, size, level) ==
    [name |-> <<n>>, format |-> format, path |-> path,
     fields |-> << <<n>>, format, <<Blank>> \o path \o <<Blank>>, <<size, Blank>>, <<Blank, level>> >>]

Format == <<"%L", Colon, Blank, "%M">>

(* A file: its settings, each on a line of its own with something around it. *)
File(prefix, entries, around(_)) ==
    LET settings ==
          (IF prefix = <<>> THEN <<>> ELSE <<[key |-> PrefixKey, value |-> prefix]>>)
          \o [k \in DOMAIN entries |-> [key |-> InstanceKey, value |-> Joined(entries[k].fields)]]
        line(s) == around(s.key \o <<Colon>> \o s.value)
    IN  [entries |-> entries,
         settings |-> Append(settings, [key |-> <<>>, value |-> <<>>]),
         lines |-> [k \in DOMAIN settings |-> line(settings[k])] \o <<around(<<>>)>>]

Plain(line) == line
Decorated(line) == <<Blank>> \o line \o <<Blank, Hash, "two", Colon, "a">>

OneInstance ==
    {File(prefix, <<Instance("one", Format, path, "5", "3")>>, Plain) :
        prefix \in SomePrefixes, path \in Spellings}
TwoInstances ==
    {File(prefix, <<Instance("one", Format, p1, size, level),
                    Instance("two", <<"%M">>, p2, "4", "0")>>, Decorated) :
        prefix \in {<<>>, <<"~">>}, p1 \in FewSpellings, p2 \in FewSpellings,
        size \in {"0", "5", "9", "-1"}, level \in {"3", "9"}}

(* Empty values, missing fields and files, and the same name twice. *)
Field(e, k) == IF k \in DOMAIN e THEN e[k] ELSE <<>>
OtherEntries ==
    {File(<<>>, <<Instance("one", Format, <<"a">>, "5", "3"),
                  [name |-> Field(fields, 1), format |-> Field(fields, 2), path |-> Field(fields, 3),
                   fields |-> fields]>>, Decorated) :
        fields \in { << <<>> >>, << <<"two">>, <<"%M">> >>,
                     << <<"two">>, <<"%M">>, <<>>, <<"5">>, <<"3">> >>,
                     << <<"one">>, <<"%M">>, <<"a">>, <<"5">>, <<"3">> >>,
                     << <<"two">>, <<"%M">>, <<".h">>, <<>>, <<>>, <<"a">> >> }}

SomeFiles == OneInstance \cup TwoInstances \cup OtherEntries
===============================================================================
