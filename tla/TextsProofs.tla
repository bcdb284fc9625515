----------------------------- MODULE TextsProofs -----------------------------
(***************************************************************************)
(* Theorems about Texts, for any configurations and any command lines.     *)
(***************************************************************************)
EXTENDS Texts, FiniteSetTheorems, SequenceTheorems, TLAPS

-----------------------------------------------------------------------------
(* The inputs *)

\* What is read is one of the inputs, and stays so.
Given ==
  \E input \in Inputs : file = input.file /\ rest = input.rest /\ args = input.args

\* So that it is text, with the numbers that it may need.
LEMMA GivenIsText ==
  ASSUME Given
  PROVE  /\ file \in Seq(STRING) /\ rest \in Seq(STRING) /\ args \in Seq(STRING)
         /\ Len(rest) >= 2 /\ \A n \in 0 .. Len(args) : Written(n)
  BY TextsAssumption DEF Given

\* Words that are none: no file and no transformation has such a name.
LEMMA NoNames ==
  /\ NULL \notin Files /\ NULL \notin Transformations /\ NULL # "0"
  /\ "" \notin Files /\ "" \notin Transformations
  /\ Transformations \subseteq STRING /\ Atoi["0"] = 0 /\ Atoi["-p"] = 0
  BY TextsAssumption

\* An argument that is a file is there.
LEMMA ArgThere ==
  ASSUME args \in Seq(STRING), NEW n \in Nat \ {0}
  PROVE  /\ Arg(n) # NULL => n <= Len(args) /\ Arg(n) = args[n] /\ Arg(n) \in STRING
         /\ Arg(n) \in Files => Arg(n) # NULL /\ Arg(n) # ""
<1>1. CASE n <= Len(args)
  <2>1. n \in 1 .. Len(args) /\ Arg(n) = args[n]
    BY <1>1 DEF Arg
  <2>2. args[n] \in STRING
    BY <2>1
  <2> QED
    BY <1>1, <2>1, <2>2, NoNames
<1>2. CASE ~(n <= Len(args))
  BY <1>2, NoNames DEF Arg
<1> QED
  BY <1>1, <1>2

-----------------------------------------------------------------------------
(* The fields of a message *)

\* There are n numbers up to n.
LEMMA Initial ==
  ASSUME NEW n \in Nat
  PROVE  IsFiniteSet(1 .. n) /\ Cardinality(1 .. n) = n
<1>1. 1 \in Int /\ n \in Int
  OBVIOUS
<1>2. Cardinality(1 .. n) = IF 1 > n THEN 0 ELSE n - 1 + 1
  BY <1>1, FS_Interval
<1>3. IsFiniteSet(1 .. n)
  BY <1>1, FS_Interval
<1> QED
  BY <1>2, <1>3

\* A message without empty words is its fields; one with them begins with the same.
LEMMA FieldsOf ==
  ASSUME NEW S, message \in Seq(S)
  PROVE  /\ (\A n \in DOMAIN message : message[n] # "") => Fields = message
         /\ Len(message) >= 1 /\ message[1] # "" => Fields[1] = message[1]
<1> DEFINE kept == {n \in DOMAIN message : message[n] # ""}
           UpTo(n) == {o \in kept : o <= n}
           Nth(m) == CHOOSE n \in kept : Cardinality(UpTo(n)) = m
<1>1. PICK l \in Nat : l = Len(message) /\ DOMAIN message = 1 .. l
  OBVIOUS
<1>2. Fields = [m \in 1 .. Cardinality(kept) |-> message[Nth(m)]]
  BY DEF Fields
<1>3. IsFiniteSet(kept) /\ kept \subseteq 1 .. l /\ Cardinality(1 .. l) = l
  <2>1. IsFiniteSet(1 .. l) /\ Cardinality(1 .. l) = l
    BY Initial
  <2>2. kept \in SUBSET (1 .. l)
    BY <1>1
  <2> HIDE DEF kept
  <2> QED
    BY <2>1, <2>2, FS_Subset
<1>4. ASSUME \A n \in DOMAIN message : message[n] # "" PROVE Fields = message
  <2>1. kept = 1 .. l
    BY <1>1, <1>4
  <2>2. ASSUME NEW n \in 1 .. l PROVE Cardinality(UpTo(n)) = n
    <3>1. UpTo(n) = 1 .. n
      <4>1. \A o : o \in UpTo(n) <=> o \in 1 .. l /\ o <= n
        BY <2>1
      <4>2. \A o : o \in 1 .. n <=> o \in 1 .. l /\ o <= n
        BY <1>1, <2>2
      <4> HIDE DEF UpTo
      <4> QED
        BY <4>1, <4>2
    <3>2. n \in Nat
      BY <2>2
    <3> HIDE DEF UpTo, kept
    <3> QED
      BY <3>1, <3>2, Initial
  <2>3. Cardinality(kept) = l
    BY <1>3, <2>1
  <2>4. ASSUME NEW m \in 1 .. l PROVE Nth(m) = m
    <3> HIDE DEF UpTo
    <3>1. m \in kept /\ Cardinality(UpTo(m)) = m
      BY <2>1, <2>2
    <3>2. Nth(m) \in kept /\ Cardinality(UpTo(Nth(m))) = m
      <4> HIDE DEF kept
      <4> QED
        BY <3>1, Zenon
    <3> HIDE DEF Nth
    <3> QED
      BY <2>1, <2>2, <3>2
  <2> HIDE DEF kept, Nth
  <2>5. Fields = [m \in 1 .. l |-> message[m]]
    BY <1>2, <2>3, <2>4
  <2> QED
    BY <1>1, <2>5
<1>5. ASSUME l >= 1, message[1] # "" PROVE Fields[1] = message[1]
  <2>1. 1 \in kept /\ 1 \in 1 .. l
    <3> HIDE DEF kept
    <3>1. 1 \in 1 .. l
      <4>1. l >= 1 /\ l \in Nat
        BY <1>1, <1>5, Zenon
      <4> QED
        BY <4>1
    <3> USE DEF kept
    <3> QED
      BY <1>1, <1>5, <3>1
  <2>2. UpTo(1) = {1}
    <3> HIDE DEF kept
    <3>1. \A o \in kept : o <= 1 <=> o = 1
      BY <1>3
    <3> QED
      BY <2>1, <3>1
  <2>3. Cardinality(UpTo(1)) = 1
    BY <2>2, FS_Singleton
  <2>4. ASSUME NEW n \in kept, Cardinality(UpTo(n)) = 1 PROVE n = 1
    <3>1. {1, n} \subseteq UpTo(n) /\ IsFiniteSet(UpTo(n))
      <4>1. UpTo(n) \in SUBSET kept
        OBVIOUS
      <4>2. IsFiniteSet(UpTo(n))
        <5> HIDE DEF kept, UpTo
        <5> QED
          BY <1>3, <4>1, FS_Subset
      <4>3. 1 <= n /\ n <= n /\ n \in Nat
        <5> HIDE DEF kept
        <5> QED
          BY <1>3, <2>4
      <4>4. 1 \in UpTo(n) /\ n \in UpTo(n)
        <5> HIDE DEF kept
        <5> QED
          BY <2>1, <2>4, <4>3
      <4> QED
        BY <4>2, <4>4
    <3>2. PICK x : UpTo(n) = {x}
      <4> HIDE DEF UpTo
      <4> QED
        BY <2>4, <3>1, FS_Singleton
    <3> QED
      BY <3>1, <3>2
  <2>5. Nth(1) = 1
    <3> HIDE DEF UpTo, kept
    <3>1. Nth(1) \in kept /\ Cardinality(UpTo(Nth(1))) = 1
      BY <2>1, <2>3, Zenon
    <3> HIDE DEF Nth
    <3> QED
      BY <2>4, <3>1
  <2>6. 1 \in 1 .. Cardinality(kept)
    <3>1. Cardinality(kept) \in Nat /\ Cardinality(UpTo(1)) <= Cardinality(kept)
      <4>1. UpTo(1) \in SUBSET kept
        OBVIOUS
      <4> HIDE DEF kept, UpTo
      <4> QED
        BY <1>3, <4>1, FS_CardinalityType, FS_Subset
    <3> QED
      <4> HIDE DEF kept, UpTo
      <4> QED
        BY <2>3, <3>1
  <2> HIDE DEF kept, Nth
  <2> QED
    BY <1>2, <2>5, <2>6
<1> QED
  BY <1>1, <1>4, <1>5

-----------------------------------------------------------------------------
(* The client *)

\* The command, the priority and where it is, as TakePriority finds them.
Named == Len(args) >= 1 /\ args[1] \in {"proc-file", "status"}
PriorityAt == IF Arg(2) = "-p" THEN 3 ELSE IF LooksLikePriority THEN 2 ELSE 1
PriorityWord ==
  IF Arg(2) = "-p" THEN Arg(3) ELSE IF LooksLikePriority THEN Arg(2) ELSE "0"
InRange == PriorityWord # NULL /\ Atoi[PriorityWord] \in PriorityRange

\* The files and the transformations that come after it.
Src == Arg(PriorityAt + 1)
Dst == Arg(PriorityAt + 2)
Ops == SubSeq(args, PriorityAt + 3, Len(args))
OpsKnown == ToSet(Ops) \subseteq Transformations
Begun ==
  <<args[1], PriorityWord, Src, Dst, Itoa[Len(args) - (PriorityAt + 2)]>>

\* Where the client is, it has read this much and found it right; where it stopped,
\* something was wrong.
ClientInv ==
  /\ client_pc \in {"command", "priority", "checking", "src", "dst", "ops", "sent",
                    "exited", "crashed"}
  /\ client_pc = "command" => message = << >>
  /\ client_pc \notin {"command", "exited"} => Named
  /\ client_pc \notin {"command", "exited", "sent"} => Len(args) > 1
  /\ client_pc \in {"priority", "checking", "src", "dst"} => message = <<args[1]>>
  /\ client_pc \in {"checking", "src", "dst", "ops"} => priority = PriorityWord
  /\ client_pc \in {"checking", "src"} => k = PriorityAt
  /\ client_pc \in {"src", "dst", "ops"} => InRange
  /\ client_pc = "dst" => k = PriorityAt + 1
  /\ client_pc \in {"dst", "ops"} => Src \in Files
  /\ client_pc = "ops" => k = PriorityAt + 2 /\ Dst \in Files /\ message = Begun
  /\ client_pc = "sent" =>
       \/ Len(args) = 1 /\ message = <<args[1]>>
       \/ /\ Len(args) > 1 /\ InRange /\ Src \in Files /\ Dst \in Files /\ OpsKnown
          /\ message = Begun \o Ops /\ priority = PriorityWord
  /\ client_pc = "crashed" => PriorityWord = NULL
  /\ client_pc = "exited" /\ Named =>
       Len(args) > 1 /\ ~(InRange /\ Src \in Files /\ Dst \in Files /\ OpsKnown)

\* It depends on the client only.
LEMMA ClientSame ==
  ASSUME args' = args
  PROVE  /\ Named' = Named /\ PriorityAt' = PriorityAt /\ PriorityWord' = PriorityWord
         /\ InRange' = InRange /\ Src' = Src /\ Dst' = Dst /\ Ops' = Ops
         /\ OpsKnown' = OpsKnown /\ Begun' = Begun
<1>1. \A n : Arg(n)' = Arg(n)
  BY DEF Arg
<1>2. LooksLikePriority' = LooksLikePriority
  BY DEF LooksLikePriority, Arg
<1>3. PriorityAt' = PriorityAt /\ PriorityWord' = PriorityWord
  BY <1>2 DEF PriorityAt, PriorityWord, Arg
<1>4. InRange' = InRange /\ Src' = Src /\ Dst' = Dst /\ Ops' = Ops /\ Named' = Named
  BY <1>3 DEF InRange, Src, Dst, Ops, Named, Arg
<1> QED
  BY <1>3, <1>4 DEF OpsKnown, Begun

\* The client begins with nothing read.
LEMMA InitClient == Init => ClientInv /\ Given
  BY DEF Init, ClientInv, Given

\* One word before four.
LEMMA BeforeFour ==
  ASSUME NEW S, NEW x \in Seq(S), NEW y \in Seq(S), NEW z \in Seq(S),
         Len(x) = 1, Len(y) = 4, Len(z) = 5,
         x[1] = z[1], y[1] = z[2], y[2] = z[3], y[3] = z[4], y[4] = z[5]
  PROVE  x \o y = z
<1>1. /\ x \o y \in Seq(S) /\ Len(x \o y) = 5 /\ (x \o y)[1] = x[1]
      /\ \A n \in 1 .. 4 : (x \o y)[n + 1] = y[n]
  <2>1. /\ x \o y \in Seq(S) /\ Len(x \o y) = Len(x) + Len(y)
        /\ \A n \in 1 .. Len(x) + Len(y) :
             (x \o y)[n] = IF n <= Len(x) THEN x[n] ELSE y[n - Len(x)]
    BY ConcatProperties
  <2>2. ASSUME NEW n \in 1 .. 4 PROVE (x \o y)[n + 1] = y[n]
    <3>1. PICK m \in 1 .. Len(x) + Len(y) : m = n + 1
      OBVIOUS
    <3>2. ~(m <= Len(x)) /\ m - Len(x) = n
      BY <3>1
    <3>3. (x \o y)[m] = y[m - Len(x)]
      BY <2>1, <3>2, Zenon
    <3> QED
      BY <3>1, <3>2, <3>3
  <2>3. 1 \in 1 .. Len(x) + Len(y) /\ 1 <= Len(x)
    OBVIOUS
  <2> QED
    BY <2>1, <2>2, <2>3
<1>2. (x \o y)[2] = y[1] /\ (x \o y)[3] = y[2] /\ (x \o y)[4] = y[3] /\ (x \o y)[5] = y[4]
  <2>1. 1 + 1 = 2 /\ 2 + 1 = 3 /\ 3 + 1 = 4 /\ 4 + 1 = 5 /\ {1, 2, 3, 4} \subseteq 1 .. 4
    OBVIOUS
  <2> QED
    BY <1>1, <2>1
<1>3. ASSUME NEW n \in 1 .. 5 PROVE (x \o y)[n] = z[n]
  <2>1. n = 1 \/ n = 2 \/ n = 3 \/ n = 4 \/ n = 5
    OBVIOUS
  <2> QED
    BY <1>1, <1>2, <2>1
<1> QED
  BY <1>1, <1>3, SeqEqual

\* The words that CheckDst adds.
LEMMA Prefixed ==
  ASSUME NEW a, NEW b, NEW c, NEW d, NEW e
  PROVE  <<a>> \o <<b, c, d, e>> = <<a, b, c, d, e>>
<1> DEFINE S == {a, b, c, d, e}
<1>1. <<a>> \in Seq(S) /\ <<b, c, d, e>> \in Seq(S) /\ <<a, b, c, d, e>> \in Seq(S)
  OBVIOUS
<1> HIDE DEF S
<1> QED
  BY <1>1, BeforeFour

\* Every step keeps where the client is.
LEMMA NextClient ==
  ASSUME ClientInv, Given, [Next]_vars
  PROVE  ClientInv' /\ Given'
<1>1. inputVars' = inputVars
  BY DEF Next, vars, ConfigEnds, ReadName, ReadValue, LeavesBuffer, CheckCommand, TakePriority,
         CheckPriority, CheckSrc, CheckDst, CheckOps, ProcessMessage, inputVars
<1>2. file' = file /\ rest' = rest /\ args' = args
  BY <1>1 DEF inputVars
<1>3. Given'
  BY <1>2 DEF Given
<1>4. /\ Named' = Named /\ PriorityAt' = PriorityAt /\ PriorityWord' = PriorityWord
      /\ InRange' = InRange /\ Src' = Src /\ Dst' = Dst /\ Ops' = Ops
      /\ OpsKnown' = OpsKnown /\ Begun' = Begun
  BY <1>2, ClientSame
<1>5. args \in Seq(STRING) /\ Len(args) \in Nat
  BY GivenIsText
<1>6. CASE UNCHANGED clientVars
  BY <1>2, <1>3, <1>4, <1>6 DEF clientVars, ClientInv
<1>7. CASE CheckCommand
  <2>1. args # << >> <=> Len(args) >= 1
    BY <1>5
  <2> QED
    BY <1>2, <1>3, <1>4, <1>5, <1>7, <2>1 DEF CheckCommand, ClientGoesTo, ClientInv, Named
<1>8. CASE TakePriority
  BY <1>2, <1>3, <1>4, <1>8
     DEF TakePriority, ClientGoesTo, ClientInv, PriorityAt, PriorityWord
<1>9. CASE CheckPriority
  BY <1>2, <1>3, <1>4, <1>9 DEF CheckPriority, ClientGoesTo, ClientInv, InRange
<1>10. CASE CheckSrc
  BY <1>2, <1>3, <1>4, <1>10 DEF CheckSrc, ClientGoesTo, ClientInv, Src
<1>11. CASE CheckDst
  <2>1. /\ client_pc = "dst" /\ k = PriorityAt + 1 /\ priority = PriorityWord
        /\ message = <<args[1]>> /\ PriorityAt \in 1 .. 3 /\ UNCHANGED priority
        /\ Named /\ Len(args) > 1 /\ InRange /\ Src \in Files
    BY <1>11 DEF CheckDst, ClientInv, PriorityAt
  <2>2. k' = PriorityAt + 2 /\ Arg(k) = Src /\ Arg(k + 1) = Dst
    BY <1>11, <2>1 DEF CheckDst, Src, Dst
  <2>3. CASE Dst \in Files
    <3>1. /\ client_pc' = "ops"
          /\ message' = message \o <<priority, Arg(k), Arg(k + 1), Itoa[NumTransformations]>>
      BY <1>11, <2>2, <2>3 DEF CheckDst, ClientGoesTo
    <3>2. NumTransformations = Len(args) - (PriorityAt + 2)
      BY <2>1 DEF NumTransformations
    <3>3. message' = Begun
      BY <2>1, <2>2, <3>1, <3>2, Prefixed DEF Begun
    <3> QED
      BY <1>2, <1>3, <1>4, <2>1, <2>2, <2>3, <3>1, <3>3 DEF ClientInv
  <2>4. CASE Dst \notin Files
    <3>1. client_pc' = "exited"
      BY <1>11, <2>2, <2>4 DEF CheckDst, ClientGoesTo
    <3> QED
      BY <1>2, <1>3, <1>4, <2>1, <2>4, <3>1 DEF ClientInv
  <2> QED
    BY <2>3, <2>4
<1>12. CASE CheckOps
  <2>1. /\ client_pc = "ops" /\ k = PriorityAt + 2 /\ priority = PriorityWord
        /\ message = Begun /\ PriorityAt \in 1 .. 3 /\ UNCHANGED priority
        /\ Named /\ Len(args) > 1 /\ InRange /\ Src \in Files /\ Dst \in Files
    BY <1>12 DEF CheckOps, ClientInv, PriorityAt
  <2>2. SubSeq(args, k + 1, Len(args)) = Ops
    BY <2>1 DEF Ops
  <2>3. IF OpsKnown THEN client_pc' = "sent" /\ message' = message \o Ops
                    ELSE client_pc' = "exited"
    BY <1>12, <2>2 DEF CheckOps, ClientGoesTo, OpsKnown
  <2> QED
    BY <1>2, <1>3, <1>4, <2>1, <2>3 DEF ClientInv
<1> QED
  BY <1>6, <1>7, <1>8, <1>9, <1>10, <1>11, <1>12
     DEF Next, vars, ConfigEnds, ReadName, ReadValue, LeavesBuffer, ProcessMessage

-----------------------------------------------------------------------------
(* The request *)

\* What is put before a sequence.
LEMMA Put ==
  ASSUME NEW S, NEW x \in Seq(S), NEW y \in Seq(S)
  PROVE  /\ x \o y \in Seq(S) /\ Len(x \o y) = Len(x) + Len(y)
         /\ \A n \in 1 .. Len(x) : (x \o y)[n] = x[n]
<1>1. /\ x \o y \in Seq(S) /\ Len(x \o y) = Len(x) + Len(y)
      /\ \A n \in 1 .. Len(x) + Len(y) :
           (x \o y)[n] = IF n <= Len(x) THEN x[n] ELSE y[n - Len(x)]
  BY ConcatProperties
<1>2. Len(x) \in Nat /\ Len(y) \in Nat
  OBVIOUS
<1>3. ASSUME NEW n \in 1 .. Len(x) PROVE (x \o y)[n] = x[n]
  BY <1>1, <1>2
<1> QED
  BY <1>1, <1>3

\* What follows in it.
LEMMA Followed ==
  ASSUME NEW S, NEW x \in Seq(S), NEW y \in Seq(S), NEW n \in 1 .. Len(y)
  PROVE  (x \o y)[Len(x) + n] = y[n]
<1>1. \A m \in 1 .. Len(x) + Len(y) :
         (x \o y)[m] = IF m <= Len(x) THEN x[m] ELSE y[m - Len(x)]
  BY ConcatProperties
<1>2. Len(x) \in Nat /\ Len(y) \in Nat
  OBVIOUS
<1>3. PICK m \in 1 .. Len(x) + Len(y) : m = Len(x) + n
  BY <1>2
<1>4. ~(m <= Len(x)) /\ m - Len(x) = n
  BY <1>2, <1>3
<1>5. (x \o y)[m] = y[m - Len(x)]
  BY <1>1, <1>4, Zenon
<1> QED
  BY <1>3, <1>4, <1>5

\* The rest is what followed.
LEMMA RestIsWhatFollowed ==
  ASSUME NEW S, NEW x \in Seq(S), NEW y \in Seq(S)
  PROVE  SubSeq(x \o y, Len(x) + 1, Len(x \o y)) = y
<1> DEFINE z == x \o y
           l == Len(x)
           s == SubSeq(z, l + 1, Len(z))
<1>1. z \in Seq(S) /\ Len(z) = l + Len(y) /\ l \in Nat /\ Len(y) \in Nat
  BY Put
<1>2. s \in Seq(S) /\ Len(s) = Len(y) /\ \A n \in 1 .. Len(y) : s[n] = z[l + n]
  <2> HIDE DEF z, l
  <2>1. Len(z) - (l + 1) + 1 = Len(y)
    BY <1>1
  <2> QED
    BY <1>1, <2>1
<1>3. \A n \in 1 .. Len(y) : s[n] = y[n]
  BY <1>2, Followed
<1> HIDE DEF s
<1>4. s = y
  BY <1>2, <1>3, SeqEqual
<1> QED
  BY <1>4 DEF s

\* What a request is made of.
Word == STRING \cup {"0", "-p", "proc-file"}

\* Five words are a sequence of words.
LEMMA FiveWords ==
  ASSUME NEW S, NEW a \in S, NEW b \in S, NEW c \in S, NEW d \in S, NEW e \in S
  PROVE  <<a, b, c, d, e>> \in Seq(S) /\ Len(<<a, b, c, d, e>>) = 5
  OBVIOUS

\* What a client has sent that was called with more than a command.
LEMMA SentRequest ==
  ASSUME ClientInv, Given, client_pc = "sent", Len(args) > 1
  PROVE  /\ message \in Seq(Word) /\ Ops \in Seq(Word) /\ Len(message) = 5 + Len(Ops)
         /\ message[1] = args[1] /\ args[1] \in {"proc-file", "status"}
         /\ message[2] = PriorityWord /\ message[3] = Src /\ message[4] = Dst
         /\ Atoi[message[5]] = Len(Ops) /\ SubSeq(message, 6, Len(message)) = Ops
         /\ priority # "" => Fields = message
<1>1. /\ InRange /\ Src \in Files /\ Dst \in Files /\ OpsKnown /\ Named
      /\ message = Begun \o Ops /\ priority = PriorityWord
  <2>1. Named
    BY DEF ClientInv
  <2>2. Len(args) # 1
    OBVIOUS
  <2> QED
    BY <2>1, <2>2, Zenon DEF ClientInv
<1>2. /\ args \in Seq(STRING) /\ Len(args) \in Nat /\ \A n \in 0 .. Len(args) : Written(n)
  BY GivenIsText
<1>3. PriorityAt \in 1 .. 3
  BY DEF PriorityAt
<1>4. PriorityWord \in Word
  <2>1. \A n \in Nat \ {0} : Arg(n) # NULL => Arg(n) \in STRING
    BY <1>2, ArgThere
  <2>2. PriorityWord # NULL /\ PriorityWord \in {Arg(2), Arg(3), "0"}
    BY <1>1 DEF InRange, PriorityWord
  <2>3. \A w : w \in STRING \/ w = "0" => w \in Word
    BY DEF Word
  <2>4. 2 \in Nat \ {0} /\ 3 \in Nat \ {0}
    OBVIOUS
  <2>5. (Arg(2) # NULL => Arg(2) \in STRING) /\ (Arg(3) # NULL => Arg(3) \in STRING)
    BY <2>1, <2>4
  <2>6. CASE PriorityWord = "0"
    BY <2>3, <2>6
  <2>7. CASE PriorityWord = Arg(2)
    BY <2>2, <2>3, <2>5, <2>7
  <2>8. CASE PriorityWord = Arg(3)
    BY <2>2, <2>3, <2>5, <2>8
  <2> QED
    BY <2>2, <2>6, <2>7, <2>8
<1>5. Src \in Word /\ Dst \in Word /\ Src # "" /\ Dst # "" /\ PriorityAt + 2 <= Len(args)
  <2>1. PriorityAt + 1 \in Nat \ {0} /\ PriorityAt + 2 \in Nat \ {0}
    BY <1>3
  <2> QED
    BY <1>1, <1>2, <2>1, ArgThere DEF Src, Dst, Word
<1>6. Ops \in Seq(Word) /\ Len(Ops) = Len(args) - (PriorityAt + 2) /\ Len(Ops) \in 0 .. Len(args)
  <2> DEFINE m == PriorityAt + 3
             n == Len(args)
  <2>1. m \in Int /\ n \in Int /\ m >= 1 /\ n >= m - 1 /\ \A o \in m .. n : args[o] \in Word
    <3>1. m \in Int /\ n \in Int /\ m >= 1 /\ n >= m - 1
      <4>1. PriorityAt + 2 <= Len(args)
        BY <1>5
      <4> QED
        BY <1>2, <1>3, <4>1
    <3>2. ASSUME NEW o \in m .. n PROVE args[o] \in Word
      <4>1. o \in 1 .. Len(args)
        BY <3>1
      <4> QED
        BY <1>2, <4>1 DEF Word
    <3> QED
      BY <3>1, <3>2
  <2>2. Ops = SubSeq(args, m, n)
    BY DEF Ops
  <2>3. n - (PriorityAt + 2) = n - m + 1 /\ n - m + 1 \in 0 .. n
    BY <2>1, <1>2, <1>3
  <2> HIDE DEF m
  <2>4. SubSeq(args, m, n) \in Seq(Word)
    BY <2>1, SubSeqProperties
  <2>5. Len(SubSeq(args, m, n)) = IF m <= n THEN n - m + 1 ELSE 0
    BY <2>1, SubSeqProperties
  <2>6. Len(Ops) = n - m + 1
    BY <2>1, <2>2, <2>5
  <2> QED
    BY <2>2, <2>3, <2>4, <2>6
<1>7. Written(Len(Ops)) /\ Itoa[Len(Ops)] \in Word /\ Itoa[Len(Ops)] # ""
      /\ Atoi[Itoa[Len(Ops)]] = Len(Ops)
  BY <1>2, <1>6 DEF Written, Word
<1>8. /\ Begun = <<args[1], PriorityWord, Src, Dst, Itoa[Len(Ops)]>> /\ Begun \in Seq(Word)
      /\ Len(Begun) = 5
  <2>1. Begun = <<args[1], PriorityWord, Src, Dst, Itoa[Len(Ops)]>>
    BY <1>6 DEF Begun
  <2>2. args[1] \in Word
    <3>1. 1 \in 1 .. Len(args)
      BY <1>2
    <3> QED
      BY <1>2, <3>1 DEF Word
  <2> HIDE DEF Begun
  <2> QED
    BY <1>4, <1>5, <1>7, <2>1, <2>2, FiveWords
<1>9. /\ Begun[1] = args[1] /\ Begun[2] = PriorityWord /\ Begun[3] = Src /\ Begun[4] = Dst
      /\ Begun[5] = Itoa[Len(Ops)] /\ 1 \in 1 .. 5 /\ 2 \in 1 .. 5 /\ 3 \in 1 .. 5 /\ 4 \in 1 .. 5
      /\ 5 \in 1 .. 5
  BY <1>8
<1>10. /\ message \in Seq(Word) /\ Len(message) = 5 + Len(Ops)
       /\ \A n \in 1 .. 5 : message[n] = Begun[n]
       /\ \A n \in 1 .. Len(Ops) : message[5 + n] = Ops[n]
       /\ SubSeq(message, 5 + 1, Len(message)) = Ops
  BY <1>1, <1>6, <1>8, Put, Followed, RestIsWhatFollowed
<1>11. ASSUME priority # "" PROVE Fields = message
  <2>1. \A n \in 1 .. 5 : message[n] # ""
    <3>1. args[1] # ""
      BY <1>1 DEF Named
    <3>2. \A n \in 1 .. 5 : n = 1 \/ n = 2 \/ n = 3 \/ n = 4 \/ n = 5
      OBVIOUS
    <3>3. Begun[1] # "" /\ Begun[2] # "" /\ Begun[3] # "" /\ Begun[4] # "" /\ Begun[5] # ""
      BY <1>1, <1>5, <1>7, <1>9, <1>11, <3>1
    <3>4. ASSUME NEW n \in 1 .. 5 PROVE message[n] # ""
      <4>1. message[n] = Begun[n]
        BY <1>10
      <4> QED
        BY <3>2, <3>3, <4>1
    <3> QED
      BY <3>4
  <2>2. \A n \in 1 .. Len(Ops) : Ops[n] # ""
    <3>1. \A n \in DOMAIN Ops : Ops[n] \in Transformations
      BY <1>1 DEF OpsKnown, ToSet
    <3>2. DOMAIN Ops = 1 .. Len(Ops)
      BY <1>6
    <3> QED
      BY <3>1, <3>2, NoNames
  <2>3. ASSUME NEW n \in DOMAIN message PROVE message[n] # ""
    <3>1. CASE n \in 1 .. 5
      BY <2>1, <3>1
    <3>2. CASE n \notin 1 .. 5
      <4>1. PICK m \in 1 .. Len(Ops) : n = 5 + m
        <5>1. n \in 1 .. 5 + Len(Ops) /\ Len(Ops) \in Nat
          BY <1>6, <1>10
        <5>2. n - 5 \in 1 .. Len(Ops) /\ n = 5 + (n - 5)
          BY <3>2, <5>1
        <5> QED
          BY <5>2
      <4> QED
        BY <1>10, <2>2, <4>1
    <3> QED
      BY <3>1, <3>2
  <2> QED
    BY <1>10, <2>3, FieldsOf
<1> QED
  <2>1. args[1] \in {"proc-file", "status"} /\ 5 + 1 = 6
    BY <1>1 DEF Named
  <2> QED
    BY <1>6, <1>7, <1>9, <1>10, <1>11, <2>1

\* The task that the words of the command line ask for.
Asked == [pri |-> Atoi[PriorityWord], src |-> Src, dst |-> Dst, num_ops |-> Len(Ops), ops |-> Ops]

\* The server answers what was sent, with the task that was asked for, unless the
\* priority is "" or proc-file has no argument.
Usable == priority # "" /\ message # <<"proc-file">>
AnswerInv ==
  /\ server_pc # "answered" => task = NULL
  /\ server_pc \in {"answered", "failed"} =>
       /\ client_pc = "sent"
       /\ Usable =>
            /\ server_pc = "answered"
            /\ message[1] = "status" => task = NULL
            /\ message[1] = "proc-file" =>
                 task = Asked /\ answer = IF Admissible(Ops) THEN "pending" ELSE "impossible"

\* The server begins without a task.
LEMMA InitAnswer == Init => AnswerInv
  BY DEF Init, AnswerInv

\* What the server finds in a request.
LEMMA AnswerFound ==
  ASSUME ClientInv, Given, client_pc = "sent", ProcessMessage, task = NULL, Usable
  PROVE  /\ server_pc' = "answered"
         /\ message[1] = "status" => task' = NULL
         /\ message[1] = "proc-file" =>
              task' = Asked /\ answer' = IF Admissible(Ops) THEN "pending" ELSE "impossible"
<1>1. Len(args) \in Nat
  BY GivenIsText
<1>2. CASE Len(args) > 1
  <2>0. priority # ""
    BY DEF Usable
  <2>1. /\ Fields = message /\ Len(message) = 5 + Len(Ops) /\ Len(Ops) \in Nat
        /\ message[2] = PriorityWord /\ message[3] = Src /\ message[4] = Dst
        /\ Atoi[message[5]] = Len(Ops) /\ SubSeq(message, 6, Len(message)) = Ops
    <3>1. Ops \in Seq(Word)
      BY <1>2, SentRequest
    <3>2. Len(Ops) \in Nat
      BY <3>1
    <3> QED
      BY <1>2, <2>0, <3>2, SentRequest
  <2>2. CASE message[1] = "status"
    BY <2>1, <2>2 DEF ProcessMessage, ServerGoesTo
  <2>3. CASE message[1] # "status"
    <3>1. ~(Len(Fields) < 5) /\ Fields[1] # "status"
      <4>1. ~(Len(message) < 5)
        BY <2>1
      <4> QED
        BY <2>1, <2>3, <4>1, Zenon
    <3>2. /\ task' = [pri |-> Atoi[Fields[2]], src |-> Fields[3], dst |-> Fields[4],
                      num_ops |-> Atoi[Fields[5]], ops |-> SubSeq(Fields, 6, Len(Fields))]
          /\ answer' = IF Admissible(SubSeq(Fields, 6, Len(Fields)))
                         THEN "pending" ELSE "impossible"
          /\ server_pc' = "answered"
      BY <3>1, Zenon DEF ProcessMessage, ServerGoesTo
    <3>3. task' = Asked
      BY <2>1, <3>2, Zenon DEF Asked
    <3>4. answer' = IF Admissible(Ops) THEN "pending" ELSE "impossible"
      BY <2>1, <3>2, Zenon
    <3> QED
      BY <2>3, <3>2, <3>3, <3>4
  <2> QED
    BY <2>2, <2>3
<1>3. CASE ~(Len(args) > 1)
  <2>1. message = <<args[1]>> /\ Named
    BY <1>3 DEF ClientInv
  <2>2. message = <<"status">> /\ message[1] = "status"
    <3>1. args[1] # "proc-file"
      BY <2>1, Zenon DEF Usable
    <3>2. args[1] = "status"
      BY <2>1, <3>1 DEF Named
    <3> QED
      BY <2>1, <3>2
  <2>3. Fields[1] = "status"
    <3>1. message \in Seq({"status"}) /\ Len(message) >= 1 /\ message[1] # ""
      <4>1. \A w : <<w>> \in Seq({w}) /\ Len(<<w>>) >= 1
        OBVIOUS
      <4> QED
        BY <2>2, <4>1
    <3> QED
      BY <2>2, <3>1, FieldsOf
  <2> QED
    BY <2>2, <2>3 DEF ProcessMessage, ServerGoesTo
<1> QED
  BY <1>2, <1>3

\* The answer stays what the request asked for.
LEMMA NextAnswer ==
  ASSUME ClientInv, AnswerInv, Given, [Next]_vars
  PROVE  AnswerInv'
<1>1. args' = args
  BY DEF Next, vars, ConfigEnds, ReadName, ReadValue, LeavesBuffer, CheckCommand, TakePriority,
         CheckPriority, CheckSrc, CheckDst, CheckOps, ProcessMessage, inputVars
<1>2. Asked' = Asked /\ Ops' = Ops
  BY <1>1, ClientSame DEF Asked
<1>3. CASE UNCHANGED <<serverVars, clientVars>>
  <2>1. Admissible(Ops)' = Admissible(Ops)
    BY <1>2, <1>3 DEF Admissible, serverVars, configVars
  <2> QED
    BY <1>2, <1>3, <2>1 DEF AnswerInv, Usable, serverVars, clientVars
<1>4. CASE ConfigEnds \/ ReadName \/ ReadValue \/ LeavesBuffer
  <2>1. /\ server_pc \in {"name", "value"} /\ task' = task
        /\ server_pc' \notin {"answered", "failed"}
    BY <1>4 DEF ConfigEnds, ReadName, ReadValue, LeavesBuffer, ServerGoesTo
  <2> QED
    BY <2>1 DEF AnswerInv
<1>5. CASE CheckCommand \/ TakePriority \/ CheckPriority \/ CheckSrc \/ CheckDst \/ CheckOps
  <2>1. client_pc # "sent" /\ UNCHANGED <<server_pc, task>>
    BY <1>5 DEF CheckCommand, TakePriority, CheckPriority, CheckSrc, CheckDst, CheckOps, serverVars
  <2> QED
    BY <2>1 DEF AnswerInv
<1>6. CASE ProcessMessage
  <2>1. /\ client_pc = "sent" /\ client_pc' = "sent" /\ server_pc = "ready"
        /\ UNCHANGED <<message, priority, limit>>
        /\ server_pc' \in {"answered", "failed"} /\ (server_pc' = "failed" => task' = task)
    BY <1>6 DEF ProcessMessage, ServerGoesTo, clientVars, configVars
  <2>2. task = NULL
    BY <2>1 DEF AnswerInv
  <2>3. Admissible(Ops)' = Admissible(Ops)
    BY <1>2, <2>1 DEF Admissible
  <2>4. ASSUME Usable
        PROVE  /\ server_pc' = "answered"
               /\ message[1] = "status" => task' = NULL
               /\ message[1] = "proc-file" =>
                    task' = Asked /\ answer' = IF Admissible(Ops) THEN "pending" ELSE "impossible"
    BY <1>6, <2>1, <2>2, <2>4, AnswerFound
  <2> QED
    BY <1>2, <2>1, <2>2, <2>3, <2>4 DEF AnswerInv, Usable
<1> QED
  BY <1>3, <1>4, <1>5, <1>6 DEF Next, vars

\* The requests are complete.
LEMMA CompleteRequests ==
  ASSUME ClientInv, AnswerInv, Given
  PROVE  RequestComplete
<1> SUFFICES ASSUME client_pc = "sent", Usable
             PROVE  server_pc # "failed" /\ (task # NULL => task.num_ops = Len(task.ops))
  BY DEF RequestComplete, Usable
<1>1. server_pc # "failed"
  BY DEF AnswerInv
<1>2. CASE server_pc = "answered" /\ message[1] = "proc-file"
  <2>1. task = Asked
    BY <1>2 DEF AnswerInv
  <2>2. Asked.num_ops = Len(Ops) /\ Asked.ops = Ops
    BY DEF Asked
  <2> QED
    BY <1>1, <2>1, <2>2, Zenon
<1>3. CASE server_pc = "answered" /\ message[1] # "proc-file"
  <2>1. message[1] = "status"
    <3>1. CASE Len(args) > 1
      BY <1>3, <3>1, SentRequest
    <3>2. CASE ~(Len(args) > 1)
      <4>1. message = <<args[1]>> /\ Named
        BY <3>2 DEF ClientInv
      <4> QED
        BY <1>3, <4>1 DEF Named
    <3> QED
      BY <3>1, <3>2
  <2> QED
    BY <1>3, <2>1 DEF AnswerInv
<1> QED
  BY <1>1, <1>2, <1>3 DEF AnswerInv

-----------------------------------------------------------------------------
(* What the user meant *)

Words(w, x, y, z) == w \o x \o y \o z

\* The words of a command line, where x are those of the priority.
LEMMA CommandWords ==
  ASSUME NEW S, NEW a \in Seq(S), NEW w \in Seq(S), NEW x \in Seq(S), NEW y \in Seq(S),
         NEW z \in Seq(S), a = Words(w, x, y, z)
  PROVE  /\ Len(a) = Len(w) + Len(x) + Len(y) + Len(z)
         /\ \A n \in 1 .. Len(w) : a[n] = w[n]
         /\ \A n \in 1 .. Len(x) : a[Len(w) + n] = x[n]
         /\ \A n \in 1 .. Len(y) : a[Len(w) + Len(x) + n] = y[n]
         /\ SubSeq(a, Len(w) + Len(x) + Len(y) + 1, Len(a)) = z
<1>1. PICK b \in Seq(S) : b = w \o x
  BY ConcatProperties
<1>2. PICK c \in Seq(S) : c = b \o y
  BY ConcatProperties
<1>3. a = c \o z
  BY <1>1, <1>2 DEF Words
<1>4. /\ Len(b) = Len(w) + Len(x) /\ \A n \in 1 .. Len(w) : b[n] = w[n]
      /\ \A n \in 1 .. Len(x) : b[Len(w) + n] = x[n]
  BY <1>1, Put, Followed
<1>5. /\ Len(c) = Len(b) + Len(y) /\ \A n \in 1 .. Len(b) : c[n] = b[n]
      /\ \A n \in 1 .. Len(y) : c[Len(b) + n] = y[n]
  BY <1>2, Put, Followed
<1>6. /\ Len(a) = Len(c) + Len(z) /\ \A n \in 1 .. Len(c) : a[n] = c[n]
      /\ SubSeq(a, Len(c) + 1, Len(a)) = z
  BY <1>3, Put, RestIsWhatFollowed
<1>7. Len(w) \in Nat /\ Len(x) \in Nat /\ Len(y) \in Nat /\ Len(z) \in Nat
  OBVIOUS
<1>8. ASSUME NEW n \in 1 .. Len(w) PROVE a[n] = w[n]
  <2>1. n \in 1 .. Len(b) /\ n \in 1 .. Len(c)
    BY <1>4, <1>5, <1>7
  <2> QED
    BY <1>4, <1>5, <1>6, <2>1
<1>9. ASSUME NEW n \in 1 .. Len(x) PROVE a[Len(w) + n] = x[n]
  <2>1. Len(w) + n \in 1 .. Len(b) /\ Len(w) + n \in 1 .. Len(c)
    BY <1>4, <1>5, <1>7
  <2> QED
    BY <1>4, <1>5, <1>6, <2>1
<1>10. ASSUME NEW n \in 1 .. Len(y) PROVE a[Len(b) + n] = y[n]
  <2>1. Len(b) + n \in 1 .. Len(c)
    BY <1>4, <1>5, <1>7
  <2> QED
    BY <1>5, <1>6, <2>1
<1> QED
  BY <1>4, <1>5, <1>6, <1>7, <1>8, <1>9, <1>10

\* One word is a sequence of words.
LEMMA OneWord ==
  ASSUME NEW S, NEW a \in S
  PROVE  <<a>> \in Seq(S) /\ Len(<<a>>) = 1 /\ <<a>>[1] = a
  OBVIOUS

\* Two words are.
LEMMA TwoWords ==
  ASSUME NEW S, NEW a \in S, NEW b \in S
  PROVE  <<a, b>> \in Seq(S) /\ Len(<<a, b>>) = 2 /\ <<a, b>>[1] = a /\ <<a, b>>[2] = b
  OBVIOUS

\* The words of a command line by their numbers.
Numbered(a, u, x, v, w, z) ==
  /\ Len(a) = Len(x) + 3 + Len(z) /\ a[1] = u
  /\ Len(x) >= 1 => a[2] = x[1]
  /\ Len(x) >= 2 => a[3] = x[2]
  /\ a[Len(x) + 2] = v /\ a[Len(x) + 3] = w
  /\ SubSeq(a, Len(x) + 4, Len(a)) = z

\* They are numbered so.
LEMMA CommandNumbered ==
  ASSUME NEW S, NEW a \in Seq(S), NEW x \in Seq(S), NEW z \in Seq(S),
         NEW u \in S, NEW v \in S, NEW w \in S, a = Words(<<u>>, x, <<v, w>>, z)
  PROVE  Numbered(a, u, x, v, w, z)
<1>1. PICK f \in Seq(S) : f = <<u>> /\ Len(f) = 1 /\ f[1] = u
  BY OneWord, Zenon
<1>2. PICK g \in Seq(S) : g = <<v, w>> /\ Len(g) = 2 /\ g[1] = v /\ g[2] = w
  <2>1. <<v, w>> \in Seq(S) /\ Len(<<v, w>>) = 2 /\ <<v, w>>[1] = v /\ <<v, w>>[2] = w
    BY TwoWords
  <2> QED
    BY <2>1
<1>3. /\ Len(a) = Len(f) + Len(x) + Len(g) + Len(z)
      /\ \A n \in 1 .. Len(f) : a[n] = f[n]
      /\ \A n \in 1 .. Len(x) : a[Len(f) + n] = x[n]
      /\ \A n \in 1 .. Len(g) : a[Len(f) + Len(x) + n] = g[n]
      /\ SubSeq(a, Len(f) + Len(x) + Len(g) + 1, Len(a)) = z
  <2>1. a = Words(f, x, g, z)
    BY <1>1, <1>2
  <2> QED
    BY <2>1, CommandWords
<1>4. PICK l \in Nat : l = Len(x)
  OBVIOUS
<1>5. Len(z) \in Nat
  OBVIOUS
<1>6. Len(a) = l + 3 + Len(z) /\ SubSeq(a, l + 4, Len(a)) = z
  <2>1. 1 + l + 2 = l + 3 /\ l + 3 + 1 = l + 4
    OBVIOUS
  <2> QED
    BY <1>1, <1>2, <1>3, <1>4, <2>1
<1>7. a[1] = u
  <2>1. 1 \in 1 .. 1
    OBVIOUS
  <2> QED
    BY <1>1, <1>3, <2>1
<1>8. (l >= 1 => a[2] = x[1]) /\ (l >= 2 => a[3] = x[2])
  <2>1. 1 + 1 = 2 /\ 1 + 2 = 3 /\ (l >= 1 => 1 \in 1 .. l) /\ (l >= 2 => 2 \in 1 .. l)
    OBVIOUS
  <2> QED
    BY <1>1, <1>3, <1>4, <2>1
<1>9. a[l + 2] = v /\ a[l + 3] = w
  <2>1. l + 2 = 1 + l + 1 /\ l + 3 = 1 + l + 2 /\ 1 \in 1 .. 2 /\ 2 \in 1 .. 2
    OBVIOUS
  <2> QED
    BY <1>1, <1>2, <1>3, <1>4, <2>1
<1> QED
  BY <1>4, <1>6, <1>7, <1>8, <1>9 DEF Numbered

\* The words are what the user meant, however the priority was given.
Meant(intent) ==
  /\ Named /\ Len(args) > 1 /\ args[1] = "proc-file"
  /\ PriorityWord \notin {NULL, ""} /\ Atoi[PriorityWord] = intent.pri
  /\ Src = intent.src /\ Dst = intent.dst /\ Ops = intent.ops

\* The client takes them so.
LEMMA CommandParsed ==
  ASSUME Given, NEW intent \in Intents, args = CommandLine(intent), ~Ambiguous(intent)
  PROVE  Meant(intent)
<1> DEFINE num == Itoa[intent.pri]
           Prefix == CASE intent.form = "-p"   -> <<"-p", num>>
                       [] intent.form = "bare" -> <<num>>
                       [] intent.form = "none" -> << >>
<1>1. /\ intent.form \in {"-p", "bare", "none"} /\ intent.pri \in Int
      /\ intent.src \in STRING /\ intent.dst \in STRING /\ intent.ops \in Seq(STRING)
  BY TextsAssumption
<1>2. /\ num \in STRING /\ num \notin {NULL, ""} /\ Atoi[num] = intent.pri
      /\ intent.form = "none" => intent.pri = 0
  BY TextsAssumption DEF Written
<1>3. args = Words(<<"proc-file">>, Prefix, <<intent.src, intent.dst>>, intent.ops)
  BY DEF CommandLine, Words
<1> HIDE DEF Prefix
<1>4. /\ intent.form = "-p" => Prefix = <<"-p", num>>
      /\ intent.form = "bare" => Prefix = <<num>>
      /\ intent.form = "none" => Prefix = << >>
  BY DEF Prefix
<1>5. Prefix \in Seq(Word)
  <2>1. "-p" \in Word /\ num \in Word
    BY <1>2 DEF Word
  <2>2. <<"-p", num>> \in Seq(Word)
    BY <2>1, TwoWords
  <2>3. <<num>> \in Seq(Word)
    BY <2>1, OneWord
  <2>4. << >> \in Seq(Word)
    OBVIOUS
  <2> QED
    BY <1>1, <1>4, <2>2, <2>3, <2>4, Zenon
<1>6. /\ Len(args) = Len(Prefix) + 3 + Len(intent.ops) /\ args[1] = "proc-file"
      /\ Len(Prefix) >= 1 => args[2] = Prefix[1]
      /\ Len(Prefix) >= 2 => args[3] = Prefix[2]
      /\ args[Len(Prefix) + 2] = intent.src /\ args[Len(Prefix) + 3] = intent.dst
      /\ SubSeq(args, Len(Prefix) + 4, Len(args)) = intent.ops
  <2>1. args \in Seq(Word) /\ intent.ops \in Seq(Word)
    BY <1>1, GivenIsText DEF Word
  <2>2. "proc-file" \in Word /\ intent.src \in Word /\ intent.dst \in Word
    BY <1>1 DEF Word
  <2> QED
    <3>1. Numbered(args, "proc-file", Prefix, intent.src, intent.dst, intent.ops)
      BY <1>3, <1>5, <2>1, <2>2, CommandNumbered
    <3> QED
      BY <3>1 DEF Numbered
<1>7. PICK l \in Nat : l = Len(Prefix)
  BY <1>5
<1>8. PICK o \in Nat : o = Len(intent.ops)
  BY <1>1
<1>9. PriorityAt = l + 1 /\ PriorityWord \notin {NULL, ""} /\ Atoi[PriorityWord] = intent.pri
  <2>1. CASE intent.form = "-p"
    <3>1. l = 2 /\ Prefix[1] = "-p" /\ Prefix[2] = num
      BY <1>4, <1>7, <2>1
    <3>2. Len(args) >= 3 /\ args[2] = "-p" /\ args[3] = num
      BY <1>6, <1>7, <1>8, <3>1
    <3>3. Arg(2) = "-p" /\ Arg(3) = num
      BY <3>2 DEF Arg
    <3>4. PriorityAt = 3 /\ PriorityWord = num
      BY <3>3 DEF PriorityAt, PriorityWord
    <3>5. PriorityAt = l + 1
      BY <3>1, <3>4
    <3> QED
      BY <1>2, <3>4, <3>5, Zenon
  <2>2. CASE intent.form = "bare"
    <3>1. l = 1 /\ Prefix[1] = num
      BY <1>4, <1>7, <2>2
    <3>2. Len(args) >= 2 /\ args[2] = num
      BY <1>6, <1>7, <1>8, <3>1
    <3>3. Arg(2) = num
      BY <3>2 DEF Arg
    <3>4. intent.pri # 0
      BY <2>2 DEF Ambiguous
    <3>5. num # "-p" /\ LooksLikePriority
      BY <1>2, <3>3, <3>4, NoNames DEF LooksLikePriority
    <3>6. PriorityAt = 2 /\ PriorityWord = num
      BY <3>3, <3>5 DEF PriorityAt, PriorityWord
    <3>7. PriorityAt = l + 1
      BY <3>1, <3>6
    <3> QED
      BY <1>2, <3>6, <3>7, Zenon
  <2>3. CASE intent.form = "none"
    <3>1. l = 0
      BY <1>4, <1>7, <2>3
    <3>2. Len(args) >= 2 /\ args[2] = intent.src
      BY <1>6, <1>7, <1>8, <3>1
    <3>3. Arg(2) = intent.src
      BY <3>2 DEF Arg
    <3>4. intent.src # "-p" /\ ~LooksLikePriority
      BY <2>3, <3>3 DEF Ambiguous, LooksLikePriority
    <3>5. PriorityAt = 1 /\ PriorityWord = "0"
      BY <3>3, <3>4 DEF PriorityAt, PriorityWord
    <3>6. PriorityAt = l + 1
      BY <3>1, <3>5
    <3>7. Atoi["0"] = intent.pri /\ "0" \notin {NULL, ""}
      BY <1>2, <2>3, NoNames
    <3> QED
      BY <3>5, <3>6, <3>7, Zenon
  <2> QED
    BY <1>1, <2>1, <2>2, <2>3
<1>10. Len(args) = l + 3 + o /\ Arg(l + 2) = intent.src /\ Arg(l + 3) = intent.dst
  <2>1. Len(args) = l + 3 + o /\ args[l + 2] = intent.src /\ args[l + 3] = intent.dst
    BY <1>6, <1>7, <1>8
  <2>2. l + 2 <= l + 3 + o /\ l + 3 <= l + 3 + o
    OBVIOUS
  <2> QED
    BY <2>1, <2>2 DEF Arg
<1>11. Src = intent.src /\ Dst = intent.dst /\ Ops = intent.ops
  <2>1. PriorityAt + 1 = l + 2 /\ PriorityAt + 2 = l + 3 /\ PriorityAt + 3 = l + 4
    <3>1. PriorityAt = l + 1
      BY <1>9
    <3>2. l + 1 + 1 = l + 2 /\ l + 1 + 2 = l + 3 /\ l + 1 + 3 = l + 4
      OBVIOUS
    <3> QED
      BY <3>1, <3>2, Zenon
  <2> QED
    BY <1>6, <1>7, <1>10, <2>1 DEF Src, Dst, Ops
<1>12. Named /\ Len(args) > 1
  <2>1. Len(args) > 1 /\ Len(args) >= 1
    BY <1>10
  <2>2. args[1] \in {"proc-file", "status"}
    BY <1>6
  <2> QED
    BY <2>1, <2>2, Zenon DEF Named
<1> QED
  BY <1>6, <1>9, <1>11, <1>12, Zenon DEF Meant

\* A char counts up to 127 instances.
LEMMA CountsAreRight ==
  ASSUME NEW S, NEW ops \in Seq(S), Countable(ops)
  PROVE  Admissible(ops) <=> WithinLimits(ops)
<1>1. ASSUME NEW t \in Transformations
      PROVE  OpsTotals(ops)[t] = Count(t, ops)
  <2>1. IsFiniteSet(DOMAIN ops)
    <3>1. PICK l \in Nat : l = Len(ops) /\ DOMAIN ops = 1 .. l
      OBVIOUS
    <3> QED
      BY <3>1, FS_Interval
  <2>2. Count(t, ops) \in Nat
    BY <2>1, FS_Subset, FS_CardinalityType DEF Count
  <2>3. Count(t, ops) <= 127
    BY DEF Countable
  <2>4. \A n \in Nat : n <= 127 => SChar(n) = n
    BY DEF SChar
  <2> QED
    BY <2>2, <2>3, <2>4 DEF OpsTotals
<1> QED
  BY <1>1, Zenon DEF Admissible, WithinLimits

\* The requests are understood.
LEMMA UnderstoodRequests ==
  ASSUME ClientInv, AnswerInv, Given
  PROVE  RequestUnderstood
<1> SUFFICES ASSUME client_pc \in {"sent", "exited", "crashed"}, NEW intent \in Intents,
                    args = CommandLine(intent), ~Ambiguous(intent)
             PROVE  IF Legal(intent)
                      THEN /\ client_pc = "sent"
                           /\ server_pc = "answered" =>
                                /\ task = [pri |-> intent.pri, src |-> intent.src, dst |-> intent.dst,
                                           num_ops |-> Len(intent.ops), ops |-> intent.ops]
                                /\ Countable(intent.ops) =>
                                     answer = IF WithinLimits(intent.ops)
                                                THEN "pending" ELSE "impossible"
                      ELSE client_pc # "sent"
  BY DEF RequestUnderstood
<1>1. /\ Named /\ Len(args) > 1 /\ args[1] = "proc-file"
      /\ PriorityWord \notin {NULL, ""} /\ Atoi[PriorityWord] = intent.pri
      /\ Src = intent.src /\ Dst = intent.dst /\ Ops = intent.ops
  BY CommandParsed DEF Meant
<1>2. Legal(intent) <=> InRange /\ Src \in Files /\ Dst \in Files /\ OpsKnown
  <2>1. PriorityWord # NULL
    BY <1>1
  <2> QED
    BY <1>1, <2>1, Zenon DEF Legal, InRange, OpsKnown, PriorityRange
<1>3. Len(args) # 1
  <2>1. PICK l \in Nat : l = Len(args)
    BY GivenIsText
  <2>2. l > 1
    BY <1>1, <2>1, Zenon
  <2>3. l # 1
    BY <2>2
  <2> QED
    BY <2>1, <2>3, Zenon
<1>4. CASE Legal(intent)
  <2>1. client_pc = "sent"
    BY <1>1, <1>2, <1>4 DEF ClientInv
  <2>2. Usable
    <3>1. priority = PriorityWord /\ Len(message) = 5 + Len(Ops) /\ Len(Ops) \in Nat
      <4>1. Ops \in Seq(Word) /\ Len(message) = 5 + Len(Ops)
        BY <1>1, <2>1, SentRequest
      <4>2. priority = PriorityWord
        BY <1>3, <2>1, Zenon DEF ClientInv
      <4> QED
        BY <4>1, <4>2
    <3>2. Len(<<"proc-file">>) = 1 /\ 5 + Len(Ops) # 1
      BY <3>1
    <3> QED
      BY <1>1, <3>1, <3>2, Zenon DEF Usable
  <2>3. message[1] = "proc-file"
    BY <1>1, <2>1, SentRequest
  <2>4. server_pc = "answered" =>
          task = Asked /\ answer = IF Admissible(Ops) THEN "pending" ELSE "impossible"
    BY <2>2, <2>3 DEF AnswerInv
  <2>5. Countable(intent.ops) => (Admissible(Ops) <=> WithinLimits(intent.ops))
    <3>1. intent.ops \in Seq(STRING)
      BY TextsAssumption
    <3> QED
      BY <1>1, <3>1, CountsAreRight
  <2> QED
    BY <1>1, <1>4, <2>1, <2>4, <2>5, Zenon DEF Asked
<1>5. CASE ~Legal(intent)
  <2>1. ASSUME client_pc = "sent" PROVE FALSE
    <3>1. InRange /\ Src \in Files /\ Dst \in Files /\ OpsKnown
      BY <1>3, <2>1, Zenon DEF ClientInv
    <3> QED
      BY <1>2, <1>5, <3>1
  <2> QED
    BY <1>5, <2>1
<1> QED
  BY <1>4, <1>5

-----------------------------------------------------------------------------
(* The configuration *)

\* The limit of t after the first m lines.
LimitAfter(lines, m, t) ==
  LET of == {n \in 1 .. m : lines[n][1] = t} IN
  IF of = {} THEN 0 ELSE lines[CHOOSE n \in of : \A o \in of : o <= n][2]

\* Before the first line it is 0.
LEMMA LimitStarts == \A lines, t : LimitAfter(lines, 0, t) = 0
<1> SUFFICES ASSUME NEW lines, NEW t PROVE LimitAfter(lines, 0, t) = 0
  OBVIOUS
<1>1. {n \in 1 .. 0 : lines[n][1] = t} = {}
  OBVIOUS
<1> QED
  BY <1>1 DEF LimitAfter

\* After the last line it is what the lines say.
LEMMA LimitEnds ==
  ASSUME NEW S, NEW lines \in Seq(S), NEW t
  PROVE  LimitAfter(lines, Len(lines), t) = LimitOf(lines, t)
<1>1. DOMAIN lines = 1 .. Len(lines)
  OBVIOUS
<1> QED
  BY <1>1 DEF LimitAfter, LimitOf

\* A line that names t sets it.
LEMMA LimitGrows ==
  ASSUME NEW lines, NEW m \in Nat, NEW t
  PROVE  LimitAfter(lines, m + 1, t) =
           IF lines[m + 1][1] = t THEN lines[m + 1][2] ELSE LimitAfter(lines, m, t)
<1> DEFINE of(l) == {n \in 1 .. l : lines[n][1] = t}
           LastOf(l) == CHOOSE n \in of(l) : \A o \in of(l) : o <= n
<1>1. \A l : LimitAfter(lines, l, t) = IF of(l) = {} THEN 0 ELSE lines[LastOf(l)][2]
  BY DEF LimitAfter
<1>2. \A n : n \in 1 .. m + 1 <=> n \in 1 .. m \/ n = m + 1
  OBVIOUS
<1>3. CASE lines[m + 1][1] = t
  <2>1. m + 1 \in of(m + 1) /\ \A o \in of(m + 1) : o <= m + 1 /\ o \in Nat
    BY <1>2, <1>3
  <2> HIDE DEF of
  <2>2. LastOf(m + 1) \in of(m + 1) /\ \A o \in of(m + 1) : o <= LastOf(m + 1)
    BY <2>1, Zenon
  <2> HIDE DEF LastOf
  <2>3. LastOf(m + 1) = m + 1
    BY <2>1, <2>2
  <2> QED
    BY <1>1, <1>3, <2>1, <2>3
<1>4. CASE lines[m + 1][1] # t
  <2>1. of(m + 1) = of(m)
    BY <1>2, <1>4
  <2> HIDE DEF of
  <2>2. LastOf(m + 1) = LastOf(m)
    BY <2>1
  <2> HIDE DEF LastOf
  <2> QED
    BY <1>1, <1>4, <2>1, <2>2
<1> QED
  BY <1>3, <1>4

\* The first position with one of the symbols.
LEMMA FirstFound ==
  ASSUME NEW symbols, NEW n \in Nat, NEW m \in Nat, Len(buf) \in Nat, n <= m, m <= Len(buf),
         buf[m] \in symbols, \A o \in n .. m - 1 : buf[o] \notin symbols
  PROVE  Find(symbols, n) = m
<1> DEFINE found == {o \in n .. Len(buf) : buf[o] \in symbols}
           First == CHOOSE o \in found : \A q \in found : o <= q
<1>1. m \in found /\ \A o \in found : o \in Nat /\ m <= o
  <2>1. ASSUME NEW o \in found PROVE o \in Nat /\ m <= o
    <3>1. o \in n .. Len(buf) /\ buf[o] \in symbols
      OBVIOUS
    <3>2. o \notin n .. m - 1
      BY <3>1
    <3> QED
      BY <3>1, <3>2
  <2> QED
    BY <2>1
<1>2. Find(symbols, n) = First
  BY <1>1 DEF Find
<1> HIDE DEF found
<1>3. First \in found /\ \A o \in found : First <= o
  BY <1>1, Zenon
<1> HIDE DEF First
<1> QED
  BY <1>1, <1>2, <1>3

\* It is the next position, if this one has none.
LEMMA NextFound ==
  ASSUME NEW symbols, NEW n \in Nat, Len(buf) \in Nat, n + 1 <= Len(buf),
         buf[n] \notin symbols, buf[n + 1] \in symbols
  PROVE  Find(symbols, n) = n + 1
<1>1. n + 1 \in Nat /\ n <= n + 1 /\ \A o \in n .. (n + 1) - 1 : o = n
  OBVIOUS
<1> QED
  BY <1>1, FirstFound

\* A part of one word.
LEMMA OnlyWord ==
  ASSUME NEW b, NEW n \in Nat
  PROVE  SubSeq(b, n, n) = <<b[n]>>
<1> DEFINE S == {b[n]}
           s == SubSeq(b, n, n)
           w == <<b[n]>>
<1>1. n \in Int /\ \A o \in n .. n : b[o] \in S
  OBVIOUS
<1> HIDE DEF S
<1>2. s \in Seq(S) /\ Len(s) = 1 /\ \A o \in 1 .. 1 : s[o] = b[n]
  <2>1. /\ s \in Seq(S) /\ Len(s) = IF n <= n THEN n - n + 1 ELSE 0
        /\ \A o \in 1 .. n - n + 1 : s[o] = b[n + o - 1]
    BY <1>1, SubSeqProperties
  <2>2. n - n + 1 = 1 /\ n <= n /\ n + 1 - 1 = n /\ 1 \in 1 .. 1
    OBVIOUS
  <2>3. s[1] = b[n]
    BY <2>1, <2>2
  <2> HIDE DEF s
  <2> QED
    BY <2>1, <2>2, <2>3
<1>3. w \in Seq(S) /\ Len(w) = 1 /\ \A o \in 1 .. 1 : w[o] = b[n]
  BY <1>1, OneWord DEF S
<1> HIDE DEF s, w
<1>4. s = w
  BY <1>2, <1>3, SeqEqual
<1> QED
  BY <1>4 DEF s, w

\* A word that a byte 0 follows is a string.
LEMMA WordAt ==
  ASSUME NEW S, NEW b \in Seq(S), NEW n \in Nat, n >= 1, n + 1 <= Len(b),
         b[n] # "NUL", b[n + 1] = "NUL"
  PROVE  StringAt(b, n) = <<b[n]>>
<1> DEFINE zeros == {m \in n .. Len(b) : b[m] = "NUL"}
           First == CHOOSE m \in zeros : \A o \in zeros : m <= o
<1>1. Len(b) \in Nat
  OBVIOUS
<1>2. n + 1 \in zeros /\ \A o \in zeros : o \in Nat /\ n + 1 <= o
  <2>1. n + 1 \in n .. Len(b)
    BY <1>1
  <2>2. ASSUME NEW o \in zeros PROVE o \in Nat /\ n + 1 <= o
    <3>1. o \in n .. Len(b) /\ o # n
      OBVIOUS
    <3> QED
      BY <1>1, <3>1
  <2> QED
    BY <2>1, <2>2
<1>3. StringAt(b, n) = SubSeq(b, n, First - 1)
  BY <1>2 DEF StringAt
<1> HIDE DEF zeros
<1>4. First \in zeros /\ \A o \in zeros : First <= o
  BY <1>2, Zenon
<1> HIDE DEF First
<1>5. First = n + 1
  BY <1>2, <1>4
<1>6. StringAt(b, n) = SubSeq(b, n, n)
  BY <1>3, <1>5
<1> QED
  BY <1>6, OnlyWord

\* What the buffer holds before it is parsed, and what it is made of.
Text == file \o rest
Symbol == STRING \cup {"NUL"}

\* The file is the text of a configuration, and byte 0 happens to follow.
Fits(lines, newline) ==
  /\ IsText(file, lines, newline)
  /\ rest[1] = "NUL" /\ (newline \/ lines = << >> \/ rest[2] = "NUL")

\* The lines of a configuration.
LEMMA LinesOf ==
  ASSUME NEW lines \in Configs
  PROVE  /\ lines \in Seq(Transformations \X Nat)
         /\ Len(lines) \in Nat /\ DOMAIN lines = 1 .. Len(lines)
         /\ \A m \in 1 .. Len(lines) :
              /\ lines[m][1] \in Transformations /\ lines[m][2] \in Nat
              /\ Written(lines[m][2])
<1>1. lines \in Seq(Transformations \X Nat) /\ \A n \in DOMAIN lines : Written(lines[n][2])
  BY TextsAssumption, Zenon
<1>2. Len(lines) \in Nat /\ DOMAIN lines = 1 .. Len(lines)
  BY <1>1
<1>3. \A m \in 1 .. Len(lines) : lines[m] \in Transformations \X Nat
  BY <1>1
<1> QED
  BY <1>1, <1>2, <1>3

\* Then these are the symbols of the buffer.
LEMMA SymbolsOfText ==
  ASSUME Given, NEW lines \in Configs, NEW newline \in BOOLEAN, Fits(lines, newline)
  PROVE  /\ Text \in Seq(Symbol) /\ Len(Text) \in Nat /\ 4 * Len(lines) + 1 <= Len(Text)
         /\ Text[4 * Len(lines) + 1] = "NUL"
         /\ \A m \in 1 .. Len(lines) :
              /\ Text[4 * m - 3] = lines[m][1] /\ Text[4 * m - 2] = "SP"
              /\ Text[4 * m - 1] = Itoa[lines[m][2]] /\ Text[4 * m] \in {"NUL", "NL"}
<1>1. file \in Seq(Symbol) /\ rest \in Seq(Symbol) /\ Len(rest) >= 2
  BY GivenIsText DEF Symbol
<1>2. PICK l \in Nat : l = Len(lines) /\ DOMAIN lines = 1 .. l
  BY LinesOf
<1>3. PICK f \in Nat, r \in Nat : f = Len(file) /\ r = Len(rest) /\ r >= 2
  BY <1>1
<1>4. lines = << >> <=> l = 0
  <2>1. lines \in Seq(Transformations \X Nat)
    BY LinesOf
  <2> QED
    BY <1>2, <2>1
<1>5. /\ Text \in Seq(Symbol) /\ Len(Text) = f + r /\ \A n \in 1 .. f : Text[n] = file[n]
      /\ \A n \in 1 .. r : Text[f + n] = rest[n]
  BY <1>1, <1>3, Put, Followed DEF Text
<1>6. /\ f = 4 * l - (IF newline \/ l = 0 THEN 0 ELSE 1)
      /\ rest[1] = "NUL" /\ (newline \/ l = 0 \/ rest[2] = "NUL")
  BY <1>2, <1>3, <1>4 DEF Fits, IsText
<1>7. 4 * l + 1 <= f + r /\ Text[4 * l + 1] = "NUL"
  <2>1. 1 \in 1 .. r /\ 2 \in 1 .. r
    BY <1>3
  <2>2. CASE newline \/ l = 0
    <3>1. f = 4 * l
      BY <1>6, <2>2
    <3> QED
      BY <1>3, <1>5, <1>6, <2>1, <3>1
  <2>3. CASE ~(newline \/ l = 0)
    <3>1. f = 4 * l - 1 /\ f + 2 = 4 * l + 1
      BY <1>6, <2>3
    <3> QED
      BY <1>3, <1>5, <1>6, <2>1, <2>3, <3>1
  <2> QED
    BY <2>2, <2>3
<1>8. ASSUME NEW m \in 1 .. l
      PROVE  /\ Text[4 * m - 3] = lines[m][1] /\ Text[4 * m - 2] = "SP"
             /\ Text[4 * m - 1] = Itoa[lines[m][2]] /\ Text[4 * m] \in {"NUL", "NL"}
  <2>1. /\ file[4 * m - 3] = lines[m][1] /\ file[4 * m - 2] = "SP"
        /\ file[4 * m - 1] = Itoa[lines[m][2]]
        /\ m < l \/ newline => file[4 * m] = "NL"
    BY <1>2 DEF Fits, IsText
  <2>2. 4 * m - 3 \in 1 .. f /\ 4 * m - 2 \in 1 .. f /\ 4 * m - 1 \in 1 .. f
    BY <1>6
  <2>3. Text[4 * m] \in {"NUL", "NL"}
    <3>1. CASE m < l \/ newline
      <4>1. 4 * m \in 1 .. f
        BY <1>6, <3>1
      <4> QED
        BY <1>5, <2>1, <3>1, <4>1
    <3>2. CASE ~(m < l \/ newline)
      <4>1. 4 * m = f + 1 /\ 1 \in 1 .. r
        BY <1>3, <1>6, <3>2
      <4> QED
        BY <1>5, <1>6, <4>1
    <3> QED
      BY <3>1, <3>2
  <2> QED
    BY <1>5, <2>1, <2>2, <2>3
<1> QED
  BY <1>2, <1>5, <1>7, <1>8

\* The parser stands before a line or before a number, and what it has not reached
\* is as it was.
ConfigState(lines) ==
  /\ buf \in Seq(Symbol) /\ Len(buf) = Len(Text) /\ limit \in [Transformations -> Nat]
  /\ server_pc \in {"name", "value", "ready", "answered", "failed"}
  /\ server_pc \in {"name", "value"} => \E m \in 0 .. Len(lines) :
       /\ \A n \in i .. Len(buf) : buf[n] = Text[n]
       /\ \A t \in Transformations : limit[t] = LimitAfter(lines, m, t)
       /\ server_pc = "name" => i = 4 * m + 1
       /\ server_pc = "value" => m < Len(lines) /\ i = 4 * m + 3 /\ name = lines[m + 1][1]
  /\ server_pc \in {"ready", "answered", "failed"} =>
       \A t \in Transformations : limit[t] = LimitOf(lines, t)

ConfigInv ==
  \A lines \in Configs, newline \in BOOLEAN : Fits(lines, newline) => ConfigState(lines)

\* The parser begins before the first line.
LEMMA InitConfig == Init => ConfigInv
<1> SUFFICES ASSUME Init, NEW lines \in Configs, NEW newline \in BOOLEAN, Fits(lines, newline)
             PROVE  ConfigState(lines)
  BY DEF ConfigInv
<1>1. buf = Text /\ i = 1 /\ server_pc = "name" /\ limit = [t \in Transformations |-> 0]
  BY DEF Init, Text
<1>2. Text \in Seq(Symbol)
  BY InitClient, SymbolsOfText
<1>3. 0 \in 0 .. Len(lines) /\ 4 * 0 + 1 = 1
  BY LinesOf
<1>4. \A t \in Transformations : limit[t] = LimitAfter(lines, 0, t)
  BY <1>1, LimitStarts
<1> QED
  BY <1>1, <1>2, <1>3, <1>4 DEF ConfigState

\* The parser ends behind the last line only.
LEMMA EndsConfig ==
  ASSUME Given, NEW lines \in Configs, NEW newline \in BOOLEAN, Fits(lines, newline),
         ConfigState(lines), ConfigEnds
  PROVE  ConfigState(lines)'
<1>1. /\ server_pc = "name" /\ buf[i] = "NUL" /\ server_pc' = "ready"
      /\ UNCHANGED <<file, rest, buf, limit>>
  BY DEF ConfigEnds, ServerGoesTo, configVars, inputVars
<1>2. PICK m \in 0 .. Len(lines) :
        /\ \A n \in i .. Len(buf) : buf[n] = Text[n]
        /\ \A t \in Transformations : limit[t] = LimitAfter(lines, m, t)
        /\ i = 4 * m + 1
  BY <1>1 DEF ConfigState
<1>3. Len(lines) \in Nat
  BY LinesOf
<1>4. m = Len(lines)
  <2> SUFFICES ASSUME m < Len(lines) PROVE FALSE
    BY <1>3
  <2>1. i \in i .. Len(buf)
    BY <1>2, <1>3, SymbolsOfText DEF ConfigState
  <2>2. Text[i] = "NUL"
    BY <1>1, <1>2, <2>1
  <2>3. m + 1 \in 1 .. Len(lines) /\ 4 * (m + 1) - 3 = i
    BY <1>2, <1>3
  <2>4. Text[i] = lines[m + 1][1] /\ lines[m + 1][1] \in Transformations
    BY <2>3, SymbolsOfText, LinesOf
  <2> QED
    BY <2>2, <2>4, TextsAssumption
<1>5. \A t \in Transformations : limit[t] = LimitOf(lines, t)
  BY <1>2, <1>4, LimitEnds, LinesOf
<1> QED
  BY <1>1, <1>5 DEF ConfigState, Text

\* A byte 0 in the buffer.
LEMMA CutAt ==
  ASSUME NEW n \in 1 .. Len(buf), buf \in Seq(Symbol)
  PROVE  \E cut \in Seq(Symbol) :
           /\ cut = [buf EXCEPT ![n] = "NUL"] /\ Len(cut) = Len(buf) /\ cut[n] = "NUL"
           /\ \A o \in 1 .. Len(buf) : o # n => cut[o] = buf[o]
<1>1. "NUL" \in Symbol
  BY DEF Symbol
<1>2. PICK cut \in Seq(Symbol) :
        /\ cut = [buf EXCEPT ![n] = "NUL"] /\ Len(cut) = Len(buf)
        /\ \A o \in 1 .. Len(buf) : cut[o] = IF o = n THEN "NUL" ELSE buf[o]
  <2> DEFINE c == [buf EXCEPT ![n] = "NUL"]
  <2>1. /\ c \in Seq(Symbol) /\ Len(c) = Len(buf)
        /\ \A o \in 1 .. Len(buf) : c[o] = IF o = n THEN "NUL" ELSE buf[o]
    BY <1>1, ExceptSeq
  <2> QED
    BY <2>1, Zenon
<1> QED
  BY <1>2

\* The next line, as the parser finds it.
LEMMA NextLine ==
  ASSUME Given, NEW lines \in Configs, NEW newline \in BOOLEAN, Fits(lines, newline),
         NEW m \in Nat, m < Len(lines)
  PROVE  /\ 4 * m + 5 <= Len(Text) /\ Len(Text) \in Nat
         /\ Text[4 * m + 1] = lines[m + 1][1] /\ Text[4 * m + 2] = "SP"
         /\ Text[4 * m + 3] = Itoa[lines[m + 1][2]] /\ Text[4 * m + 4] \in {"NUL", "NL"}
         /\ lines[m + 1][1] \in Transformations \ {"NUL", "SP", "NL"}
         /\ lines[m + 1][2] \in Nat /\ Written(lines[m + 1][2])
<1>1. m + 1 \in 1 .. Len(lines) /\ Len(lines) \in Nat
  BY LinesOf
<1>2. /\ 4 * (m + 1) - 3 = 4 * m + 1 /\ 4 * (m + 1) - 2 = 4 * m + 2
      /\ 4 * (m + 1) - 1 = 4 * m + 3 /\ 4 * (m + 1) = 4 * m + 4
  OBVIOUS
<1>3. /\ Text[4 * m + 1] = lines[m + 1][1] /\ Text[4 * m + 2] = "SP"
      /\ Text[4 * m + 3] = Itoa[lines[m + 1][2]] /\ Text[4 * m + 4] \in {"NUL", "NL"}
  BY <1>1, <1>2, SymbolsOfText
<1>4. 4 * m + 5 <= Len(Text) /\ Len(Text) \in Nat
  BY <1>1, SymbolsOfText
<1>5. /\ lines[m + 1][1] \in Transformations
      /\ lines[m + 1][2] \in Nat /\ Written(lines[m + 1][2])
  BY <1>1, LinesOf
<1> QED
  BY <1>3, <1>4, <1>5, TextsAssumption

\* The parser reads the name of the line.
LEMMA ReadsName ==
  ASSUME Given, NEW lines \in Configs, NEW newline \in BOOLEAN, Fits(lines, newline),
         ConfigState(lines), ReadName
  PROVE  ConfigState(lines)'
<1>1. /\ server_pc = "name" /\ buf[i] # "NUL"
      /\ UNCHANGED <<file, rest, limit>>
  BY DEF ReadName, inputVars
<1>2. PICK m \in 0 .. Len(lines) :
        /\ \A n \in i .. Len(buf) : buf[n] = Text[n]
        /\ \A t \in Transformations : limit[t] = LimitAfter(lines, m, t)
        /\ i = 4 * m + 1
  BY <1>1 DEF ConfigState
<1>3. PICK l \in Nat : l = Len(Text) /\ l = Len(buf) /\ buf \in Seq(Symbol)
                       /\ 4 * Len(lines) + 1 <= l /\ Len(lines) \in Nat
  BY SymbolsOfText, LinesOf DEF ConfigState
<1>4. m \in Nat /\ m < Len(lines)
  <2> SUFFICES ASSUME m = Len(lines) PROVE FALSE
    BY <1>2, <1>3
  <2>1. i \in i .. l /\ i = 4 * Len(lines) + 1
    BY <1>2, <1>3
  <2> QED
    BY <1>1, <1>2, <1>3, <2>1, SymbolsOfText
<1>5. /\ 4 * m + 5 <= l
      /\ Text[4 * m + 1] = lines[m + 1][1] /\ Text[4 * m + 2] = "SP"
      /\ lines[m + 1][1] \in Transformations \ {"NUL", "SP", "NL"}
  BY <1>3, <1>4, NextLine
<1>6. buf[i] = lines[m + 1][1] /\ buf[i + 1] = "SP"
  <2>1. i \in i .. l /\ i + 1 \in i .. l /\ i + 1 = 4 * m + 2
    <3>1. i = 4 * m + 1 /\ m \in Nat /\ 4 * m + 5 <= l
      BY <1>2, <1>4, <1>5
    <3> QED
      BY <3>1
  <2> QED
    BY <1>2, <1>3, <1>5, <2>1
<1>7. Find({"SP"}, i) = i + 1
  <2>1. i \in Nat /\ i + 1 <= Len(buf) /\ Len(buf) \in Nat
    BY <1>2, <1>3, <1>4, <1>5
  <2>2. buf[i] \notin {"SP"} /\ buf[i + 1] \in {"SP"}
    BY <1>5, <1>6
  <2> QED
    BY <2>1, <2>2, NextFound
<1>8. PICK cut \in Seq(Symbol) :
        /\ cut = [buf EXCEPT ![i + 1] = "NUL"] /\ Len(cut) = l /\ cut[i + 1] = "NUL"
        /\ \A o \in 1 .. l : o # i + 1 => cut[o] = buf[o]
  <2>1. i + 1 \in 1 .. Len(buf)
    BY <1>2, <1>3, <1>4, <1>5
  <2>2. PICK cut \in Seq(Symbol) :
          /\ cut = [buf EXCEPT ![i + 1] = "NUL"] /\ Len(cut) = Len(buf) /\ cut[i + 1] = "NUL"
          /\ \A o \in 1 .. Len(buf) : o # i + 1 => cut[o] = buf[o]
    BY <1>3, <2>1, CutAt, Zenon
  <2> QED
    BY <1>3, <2>2, Zenon
<1>9. StringAt(cut, i) = <<lines[m + 1][1]>>
  <2>1. i \in Nat /\ i >= 1 /\ i + 1 <= Len(cut) /\ i \in 1 .. l /\ i # i + 1
    BY <1>2, <1>3, <1>4, <1>5, <1>8
  <2>2. cut[i] = lines[m + 1][1] /\ cut[i] # "NUL"
    BY <1>1, <1>6, <1>8, <2>1
  <2>3. StringAt(cut, i) = <<cut[i]>>
    BY <1>8, <2>1, <2>2, WordAt
  <2> QED
    BY <2>2, <2>3
<1>10. /\ buf' = cut /\ i' = i + 1 + 1 /\ name' = lines[m + 1][1] /\ server_pc' = "value"
  <2>1. StringAt(cut, i) \in {<<t>> : t \in Transformations}
    BY <1>5, <1>9
  <2>2. <<lines[m + 1][1]>>[1] = lines[m + 1][1]
    OBVIOUS
  <2>3. /\ buf' = cut /\ i' = i + 1 + 1 /\ name' = StringAt(cut, i)[1] /\ server_pc' = "value"
    BY <1>7, <1>8, <2>1 DEF ReadName, ServerGoesTo
  <2> QED
    BY <1>9, <2>2, <2>3
<1>11. \A n \in i' .. Len(buf') : buf'[n] = Text[n]
  <2>1. ASSUME NEW n \in i' .. Len(buf') PROVE buf'[n] = Text[n]
    <3>1. n \in i .. l /\ n \in 1 .. l /\ n # i + 1
      <4>1. i = 4 * m + 1 /\ m \in Nat /\ n \in i + 1 + 1 .. l
        BY <1>2, <1>4, <1>8, <1>10
      <4> QED
        BY <4>1
    <3> QED
      BY <1>2, <1>3, <1>8, <1>10, <3>1
  <2> QED
    BY <2>1
<1>12. i' = 4 * m + 3
  BY <1>2, <1>4, <1>10
<1>13. Text' = Text
  BY <1>1 DEF Text
<1>14. buf' \in Seq(Symbol) /\ Len(buf') = Len(Text') /\ limit' \in [Transformations -> Nat]
  BY <1>1, <1>3, <1>8, <1>10, <1>13, Zenon DEF ConfigState
<1>15. \E q \in 0 .. Len(lines) :
         /\ \A n \in i' .. Len(buf') : buf'[n] = Text'[n]
         /\ \A t \in Transformations : limit'[t] = LimitAfter(lines, q, t)
         /\ server_pc' = "name" => i' = 4 * q + 1
         /\ server_pc' = "value" => q < Len(lines) /\ i' = 4 * q + 3 /\ name' = lines[q + 1][1]
  <2>1. /\ \A n \in i' .. Len(buf') : buf'[n] = Text'[n]
        /\ \A t \in Transformations : limit'[t] = LimitAfter(lines, m, t)
        /\ server_pc' # "name"
        /\ m < Len(lines) /\ i' = 4 * m + 3 /\ name' = lines[m + 1][1]
    BY <1>1, <1>2, <1>4, <1>10, <1>11, <1>12, <1>13
  <2> QED
    BY <2>1
<1> QED
  BY <1>10, <1>14, <1>15 DEF ConfigState

\* The parser reads the number of the line.
LEMMA ReadsValue ==
  ASSUME Given, NEW lines \in Configs, NEW newline \in BOOLEAN, Fits(lines, newline),
         ConfigState(lines), ReadValue
  PROVE  ConfigState(lines)'
<1>1. /\ server_pc = "value" /\ UNCHANGED <<file, rest, name>>
  BY DEF ReadValue, inputVars
<1>2. PICK m \in 0 .. Len(lines) :
        /\ \A n \in i .. Len(buf) : buf[n] = Text[n]
        /\ \A t \in Transformations : limit[t] = LimitAfter(lines, m, t)
        /\ m < Len(lines) /\ i = 4 * m + 3 /\ name = lines[m + 1][1]
  BY <1>1 DEF ConfigState
<1>3. PICK l \in Nat : l = Len(Text) /\ l = Len(buf) /\ buf \in Seq(Symbol)
                       /\ Len(lines) \in Nat
  BY SymbolsOfText, LinesOf DEF ConfigState
<1>4. m \in Nat /\ m + 1 \in 0 .. Len(lines)
  BY <1>2, <1>3
<1>5. PICK v \in Nat : v = lines[m + 1][2] /\ Written(v)
  BY <1>2, <1>4, NextLine
<1>6. /\ 4 * m + 5 <= l /\ Text[4 * m + 3] = Itoa[v] /\ Text[4 * m + 4] \in {"NUL", "NL"}
      /\ name \in Transformations
  BY <1>2, <1>3, <1>4, <1>5, NextLine
<1>7. Itoa[v] \notin {"NUL", "NL"} /\ Atoi[Itoa[v]] = v
  BY <1>5 DEF Written
<1>8. buf[i] = Itoa[v] /\ buf[i + 1] \in EndOfNumber
  <2>1. i \in i .. l /\ i + 1 \in i .. l /\ i + 1 = 4 * m + 4
    BY <1>2, <1>4, <1>6
  <2> QED
    BY <1>2, <1>3, <1>6, <2>1 DEF EndOfNumber
<1>9. Find(EndOfNumber, i) = i + 1
  <2>1. i \in Nat /\ i + 1 <= Len(buf) /\ Len(buf) \in Nat
    BY <1>2, <1>3, <1>4, <1>6
  <2>2. buf[i] \notin EndOfNumber
    BY <1>7, <1>8 DEF EndOfNumber
  <2> QED
    BY <1>8, <2>1, <2>2, NextFound
<1>10. PICK cut \in Seq(Symbol) :
         /\ cut = [buf EXCEPT ![i + 1] = "NUL"] /\ Len(cut) = l /\ cut[i + 1] = "NUL"
         /\ \A o \in 1 .. l : o # i + 1 => cut[o] = buf[o]
  <2>1. i + 1 \in 1 .. Len(buf)
    BY <1>2, <1>3, <1>4, <1>6
  <2>2. PICK cut \in Seq(Symbol) :
          /\ cut = [buf EXCEPT ![i + 1] = "NUL"] /\ Len(cut) = Len(buf) /\ cut[i + 1] = "NUL"
          /\ \A o \in 1 .. Len(buf) : o # i + 1 => cut[o] = buf[o]
    BY <1>3, <2>1, CutAt, Zenon
  <2> QED
    BY <1>3, <2>2, Zenon
<1>11. StringAt(cut, i) = <<Itoa[v]>>
  <2>1. i \in Nat /\ i >= 1 /\ i + 1 <= Len(cut) /\ i \in 1 .. l /\ i # i + 1
    BY <1>2, <1>3, <1>4, <1>6, <1>10
  <2>2. cut[i] = Itoa[v] /\ cut[i] # "NUL"
    BY <1>7, <1>8, <1>10, <2>1
  <2>3. StringAt(cut, i) = <<cut[i]>>
    BY <1>10, <2>1, <2>2, WordAt
  <2> QED
    BY <2>2, <2>3
<1>12. /\ buf' = cut /\ i' = i + 1 + 1 /\ server_pc' = "name"
       /\ limit' = [limit EXCEPT ![name] = v]
  <2> DEFINE text == StringAt(cut, i)
             value == IF text = << >> THEN 0 ELSE Atoi[text[1]]
  <2>1. value = v
    <3>1. <<Itoa[v]>> # << >> /\ <<Itoa[v]>>[1] = Itoa[v]
      OBVIOUS
    <3> QED
      BY <1>7, <1>11, <3>1
  <2>2. /\ buf' = cut /\ i' = i + 1 + 1
        /\ IF value >= 0 THEN limit' = [limit EXCEPT ![name] = value] /\ server_pc' = "name"
                         ELSE server_pc' = "rejected" /\ UNCHANGED limit
    BY <1>9, <1>10 DEF ReadValue, ServerGoesTo
  <2> HIDE DEF value
  <2> QED
    BY <2>1, <2>2
<1>13. \A n \in i' .. Len(buf') : buf'[n] = Text[n]
  <2>1. ASSUME NEW n \in i' .. Len(buf') PROVE buf'[n] = Text[n]
    <3>1. n \in i .. l /\ n \in 1 .. l /\ n # i + 1
      <4>1. i = 4 * m + 3 /\ m \in Nat /\ n \in i + 1 + 1 .. l
        BY <1>2, <1>4, <1>10, <1>12
      <4> QED
        BY <4>1
    <3> QED
      BY <1>2, <1>3, <1>10, <1>12, <3>1
  <2> QED
    BY <2>1
<1>14. i' = 4 * (m + 1) + 1
  BY <1>2, <1>4, <1>12
<1>15. Text' = Text
  BY <1>1 DEF Text
<1>16. limit \in [Transformations -> Nat] /\ limit' \in [Transformations -> Nat]
  BY <1>12 DEF ConfigState
<1>17. ASSUME NEW t \in Transformations PROVE limit'[t] = LimitAfter(lines, m + 1, t)
  <2>1. limit'[t] = IF t = name THEN v ELSE limit[t]
    BY <1>6, <1>12, <1>16
  <2>2. LimitAfter(lines, m + 1, t) =
          IF lines[m + 1][1] = t THEN lines[m + 1][2] ELSE LimitAfter(lines, m, t)
    BY <1>4, LimitGrows
  <2> QED
    BY <1>2, <1>5, <2>1, <2>2
<1>18. buf' \in Seq(Symbol) /\ Len(buf') = Len(Text')
  BY <1>3, <1>10, <1>12, <1>15, Zenon
<1>19. \E q \in 0 .. Len(lines) :
         /\ \A n \in i' .. Len(buf') : buf'[n] = Text'[n]
         /\ \A t \in Transformations : limit'[t] = LimitAfter(lines, q, t)
         /\ server_pc' = "name" => i' = 4 * q + 1
         /\ server_pc' = "value" => q < Len(lines) /\ i' = 4 * q + 3 /\ name' = lines[q + 1][1]
  <2>1. /\ \A n \in i' .. Len(buf') : buf'[n] = Text'[n]
        /\ \A t \in Transformations : limit'[t] = LimitAfter(lines, m + 1, t)
        /\ server_pc' # "value" /\ i' = 4 * (m + 1) + 1
    BY <1>12, <1>13, <1>14, <1>15, <1>17
  <2> QED
    BY <1>4, <2>1
<1> QED
  BY <1>12, <1>16, <1>18, <1>19 DEF ConfigState

\* The parser never leaves the buffer.
LEMMA NeverLeaves ==
  ASSUME Given, NEW lines \in Configs, NEW newline \in BOOLEAN, Fits(lines, newline),
         ConfigState(lines)
  PROVE  ~LeavesBuffer
<1> SUFFICES ASSUME LeavesBuffer PROVE FALSE
  OBVIOUS
<1>1. server_pc \in {"name", "value"}
  BY DEF LeavesBuffer
<1>2. PICK m \in 0 .. Len(lines) :
        /\ \A n \in i .. Len(buf) : buf[n] = Text[n]
        /\ server_pc = "name" => i = 4 * m + 1
        /\ server_pc = "value" => m < Len(lines) /\ i = 4 * m + 3
  BY <1>1 DEF ConfigState
<1>3. PICK l \in Nat : l = Len(Text) /\ l = Len(buf) /\ Len(lines) \in Nat
                       /\ 4 * Len(lines) + 1 <= l /\ Text[4 * Len(lines) + 1] = "NUL"
  BY SymbolsOfText, LinesOf DEF ConfigState
<1>4. CASE server_pc = "name" /\ m = Len(lines)
  <2>1. i \in i .. l /\ i <= l
    BY <1>2, <1>3, <1>4
  <2>2. buf[i] = "NUL"
    BY <1>2, <1>3, <1>4, <2>1
  <2> QED
    BY <1>3, <1>4, <2>1, <2>2 DEF LeavesBuffer
<1>5. CASE server_pc = "name" /\ m # Len(lines)
  <2>1. m \in Nat /\ m < Len(lines) /\ i = 4 * m + 1
    BY <1>2, <1>3, <1>5
  <2>2. /\ 4 * m + 5 <= l /\ Text[4 * m + 2] = "SP" /\ Text[4 * m + 1] = lines[m + 1][1]
        /\ lines[m + 1][1] # "SP"
    BY <1>3, <2>1, NextLine
  <2>3. i \in i .. l /\ i + 1 \in i .. l /\ i + 1 = 4 * m + 2 /\ i + 1 # 0 /\ i \in Nat
    BY <2>1, <2>2
  <2>4. buf[i + 1] \in {"SP"} /\ buf[i] \notin {"SP"} /\ i + 1 <= l
    BY <1>2, <1>3, <2>1, <2>2, <2>3
  <2>5. Find({"SP"}, i) = i + 1
    BY <1>3, <2>3, <2>4, NextFound
  <2> QED
    BY <1>5, <2>3, <2>5 DEF LeavesBuffer
<1>6. CASE server_pc = "value"
  <2>1. m \in Nat /\ m < Len(lines) /\ i = 4 * m + 3
    BY <1>2, <1>3, <1>6
  <2>2. /\ 4 * m + 5 <= l /\ Text[4 * m + 4] \in {"NUL", "NL"}
        /\ Text[4 * m + 3] = Itoa[lines[m + 1][2]] /\ Written(lines[m + 1][2])
    BY <1>3, <2>1, NextLine
  <2>3. i \in i .. l /\ i + 1 \in i .. l /\ i + 1 = 4 * m + 4 /\ i + 1 # 0 /\ i \in Nat
    BY <2>1, <2>2
  <2>4. buf[i + 1] \in EndOfNumber /\ buf[i] \notin EndOfNumber /\ i + 1 <= l
    <3>1. buf[i] = Text[i] /\ buf[i + 1] = Text[i + 1] /\ i + 1 <= l
      BY <1>2, <1>3, <2>3
    <3>2. Text[i] = Itoa[lines[m + 1][2]] /\ Text[i + 1] \in {"NUL", "NL"}
      BY <2>1, <2>2, <2>3
    <3>3. Itoa[lines[m + 1][2]] \notin {"NUL", "NL"}
      BY <2>2 DEF Written
    <3> QED
      BY <3>1, <3>2, <3>3 DEF EndOfNumber
  <2>5. Find(EndOfNumber, i) = i + 1
    BY <1>3, <2>3, <2>4, NextFound
  <2> QED
    BY <1>6, <2>3, <2>5 DEF LeavesBuffer
<1> QED
  BY <1>1, <1>4, <1>5, <1>6

\* The state of the parser is kept.
LEMMA NextConfig ==
  ASSUME Given, ConfigInv, [Next]_vars
  PROVE  ConfigInv'
<1> SUFFICES ASSUME NEW lines \in Configs, NEW newline \in BOOLEAN, Fits(lines, newline)'
             PROVE  ConfigState(lines)'
  BY DEF ConfigInv
<1>1. file' = file /\ rest' = rest
  BY DEF Next, vars, ConfigEnds, ReadName, ReadValue, LeavesBuffer, CheckCommand, TakePriority,
         CheckPriority, CheckSrc, CheckDst, CheckOps, ProcessMessage, inputVars
<1>2. Text' = Text /\ Fits(lines, newline)
  BY <1>1 DEF Text, Fits, IsText
<1>3. ConfigState(lines)
  BY <1>2 DEF ConfigInv
<1>4. CASE UNCHANGED <<server_pc, configVars>>
  BY <1>2, <1>3, <1>4 DEF ConfigState, configVars
<1>5. CASE ProcessMessage
  <2>1. /\ server_pc = "ready" /\ server_pc' \in {"answered", "failed"}
        /\ UNCHANGED <<buf, limit>>
    BY <1>5 DEF ProcessMessage, ServerGoesTo, configVars
  <2> QED
    BY <1>2, <1>3, <2>1 DEF ConfigState
<1>6. CASE ConfigEnds
  BY <1>2, <1>3, <1>6, EndsConfig
<1>7. CASE ReadName
  BY <1>2, <1>3, <1>7, ReadsName
<1>8. CASE ReadValue
  BY <1>2, <1>3, <1>8, ReadsValue
<1>9. CASE LeavesBuffer
  BY <1>2, <1>3, <1>9, NeverLeaves
<1> QED
  BY <1>4, <1>5, <1>6, <1>7, <1>8, <1>9
     DEF Next, vars, serverVars, CheckCommand, TakePriority, CheckPriority, CheckSrc, CheckDst,
         CheckOps

-----------------------------------------------------------------------------
(* The theorems *)

\* What is read is given, and where client, server and parser are.
TextsInv == Given /\ ClientInv /\ AnswerInv /\ ConfigInv

\* That is an invariant.
LEMMA TextsInvariant == Spec => []TextsInv
<1>1. Init => TextsInv
  BY InitClient, InitAnswer, InitConfig DEF TextsInv
<1>2. TextsInv /\ [Next]_vars => TextsInv'
  BY NextClient, NextAnswer, NextConfig DEF TextsInv
<1> QED
  BY <1>1, <1>2, PTL DEF Spec

\* Every request that reaches the server has the fields that process_message takes for
\* granted (server.c:305-325), unless its priority is "" or proc-file had no argument.
THEOREM RequestsAreComplete == Spec => []RequestComplete
<1>1. TextsInv => RequestComplete
  BY CompleteRequests DEF TextsInv
<1> QED
  BY <1>1, TextsInvariant, PTL

\* The server understands what the user of a client meant (client.c:46-113,
\* server.c:276-354), for every command line that is not ambiguous, and a command line
\* with an error does not reach it; what it answers is right unless a transformation
\* is named more than 127 times (server.c:329).
THEOREM RequestsAreUnderstood == Spec => []RequestUnderstood
<1>1. TextsInv => RequestUnderstood
  BY UnderstoodRequests DEF TextsInv
<1> QED
  BY <1>1, TextsInvariant, PTL

\* The server reads the limits that its configuration file gives (server.c:475-488), if
\* the bytes 0 that it relies on happen to follow.
THEOREM ConfigsAreUnderstood == Spec => []ConfigUnderstood
<1>1. TextsInv => ConfigUnderstood
  <2> SUFFICES ASSUME TextsInv, server_pc \notin {"name", "value"}, NEW lines \in Configs,
                      NEW newline \in BOOLEAN, Fits(lines, newline)
               PROVE  /\ server_pc \notin {"undefined", "rejected"}
                      /\ \A t \in Transformations : limit[t] = LimitOf(lines, t)
    BY DEF ConfigUnderstood, Fits
  <2>1. ConfigState(lines)
    BY DEF TextsInv, ConfigInv
  <2> QED
    BY <2>1 DEF ConfigState
<1> QED
  BY <1>1, TextsInvariant, PTL

=============================================================================
