------------------------------- MODULE MCTexts -------------------------------
(***************************************************************************)
(* Small instances of Texts: two transformations, three files, of which one*)
(* has a name that begins with a number, the command lines of up to five   *)
(* words that are made of the words that matter, and two long ones.        *)
(***************************************************************************)
EXTENDS Texts, TLC

Names == {"nop", "bcompress"}
FileNames == {"in", "out", "7up"}
ItoaOf == [n \in 0 .. 131 |-> ToString(n)]
Words == {"proc-file", "status", "-p", "", "missing", "zip", "SP", "NL"} \cup Names \cup FileNames
AtoiOf == [w \in Words \cup Range(ItoaOf) |->
             IF w \in Range(ItoaOf) THEN CHOOSE n \in DOMAIN ItoaOf : ItoaOf[n] = w
             ELSE IF w = "7up" THEN 7 ELSE 0]

SeqsUpTo(S, n) == UNION {[1..m -> S] : m \in 0..n}

SmallConfigs == SeqsUpTo(Names \X {0, 2}, 2)
Rests == [1..3 -> {"NUL", "SP", "NL", "nop"}]

\* As often as ops_totals counts, and once more.
Often(n) == [m \in 1 .. n |-> "nop"]

SmallIntents ==
  [form : {"-p", "bare"}, pri : {0, 1, 5, 6}, src : {"in", "missing"},
   dst : {"out", "missing"}, ops : SeqsUpTo({"nop", "bcompress", "zip"}, 2)]
  \cup
  [form : {"none"}, pri : {0}, src : {"in", "7up", "missing"}, dst : {"out", "missing"},
   ops : SeqsUpTo({"nop", "bcompress", "zip"}, 2) \cup {Often(127), Often(128)}]

\* The text of a configuration.
Text(lines, newline) ==
  FlattenSeq([n \in DOMAIN lines |->
    <<lines[n][1], "SP", Itoa[lines[n][2]]>> \o
      (IF n < Len(lines) \/ newline THEN <<"NL">> ELSE << >>)])

\* Every text of a configuration, with a plain command line; every command line,
\* with a plain configuration: nop 1, bcompress 0.
ConfigInputs ==
  {[file |-> Text(lines, newline), rest |-> r, args |-> <<"status">>] :
     lines \in SmallConfigs, newline \in BOOLEAN, r \in Rests}
ArgsInputs ==
  {[file |-> Text(<< <<"nop", 1>> >>, FALSE), rest |-> <<"NUL", "NUL", "NUL">>, args |-> a] :
     a \in {CommandLine(intent) : intent \in SmallIntents} \cup
           {<<"proc-file">> \o w : w \in SeqsUpTo({"-p", "", "0", "3", "in", "nop"}, 4)} \cup
           {<<c>> \o w : c \in {"status", "zip"}, w \in SeqsUpTo({"-p", "3", "in"}, 3)} \cup
           {<< >>}}
AllInputs == ConfigInputs \cup ArgsInputs
=============================================================================
