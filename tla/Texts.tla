-------------------------------- MODULE Texts --------------------------------
(***************************************************************************)
(* The three texts that SDStore reads: the configuration file (server.c,   *)
(* main), the command line of a client (client.c, main), and the request   *)
(* that the client makes of it and process_message (server.c) takes apart. *)
(*                                                                         *)
(* The configuration is a sequence of symbols, where a word, a number, a   *)
(* space, the end of a line and the byte 0 are one symbol each.  A command *)
(* line is a sequence of words, and a request the sequence of its fields.  *)
(* The FIFOs that carry the request are in SDStore.                        *)
(***************************************************************************)
EXTENDS Integers, SequencesExt

CONSTANTS
  Transformations, \* the names that transformation_str_to_enum__ knows
  Files,           \* the words that are names of existing files
  Atoi,            \* atoi and strtol, as a function of words
  Itoa,            \* what is printed by %d, and written by users, for a number
  Inputs,          \* bound: what is read: records with file, rest and args
  Configs,         \* bound: the configurations, as sequences of <<name, number>>
  Intents,         \* bound: what users want of proc-file, and how they write it
  NULL

\* A number that is written is read as that number.
Written(n) ==
  Itoa[n] \in STRING /\ Itoa[n] \notin {NULL, "", "NUL", "NL"} /\ Atoi[Itoa[n]] = n

ASSUME TextsAssumption ==
  /\ NULL \notin Files \cup Transformations \cup {"0"}
  /\ "" \notin Files \cup Transformations
  /\ Transformations \subseteq STRING \ {"NUL", "SP", "NL"}
  /\ Atoi["0"] = 0 /\ Atoi["-p"] = 0
  /\ \A input \in Inputs :
       /\ {input.file, input.rest, input.args} \subseteq Seq(STRING)
       /\ Len(input.rest) >= 2
       /\ \A n \in 0 .. Len(input.args) : Written(n)
  /\ Configs \subseteq Seq(Transformations \X Nat)
  /\ \A lines \in Configs : \A n \in DOMAIN lines : Written(lines[n][2])
  /\ Intents \subseteq [form : {"-p", "bare", "none"}, pri : Int, src : STRING, dst : STRING,
                      ops : Seq(STRING)]
  /\ \A intent \in Intents :
       Written(intent.pri) /\ (intent.form = "none" => intent.pri = 0)

VARIABLES
  file,     \* the text of the configuration file
  rest,     \* what the rest of buf held before the file was read into it
  args,     \* the words of the command line, argv[1] first
  \* the server
  server_pc,
  buf, i,   \* the buffer and the position of the parser in it
  name,     \* the transformation whose limit is read next
  limit,    \* get_transformation_active_limit
  task,     \* the task that process_message makes
  answer,   \* what it tells the client
  \* the client
  client_pc,
  k,        \* i: the argument looked at last
  priority,
  message

inputVars == <<file, rest, args>>
configVars == <<buf, i, name, limit>>
serverVars == <<server_pc, configVars, task, answer>>
clientVars == <<client_pc, k, priority, message>>
vars == <<inputVars, serverVars, clientVars>>

\* The variable limit is static, so that it holds 0; buf is not initialised and
\* read neither clears nor terminates it.
Init ==
  /\ \E input \in Inputs :
       file = input.file /\ rest = input.rest /\ args = input.args
  /\ server_pc = "name"
  /\ buf = file \o rest
  /\ i = 1
  /\ name = NULL
  /\ limit = [t \in Transformations |-> 0]
  /\ task = NULL
  /\ answer = NULL
  /\ client_pc = "command"
  /\ k = 1
  /\ priority = NULL
  /\ message = << >>

-----------------------------------------------------------------------------
(* The configuration file *)

ServerGoesTo(pc) == server_pc' = pc

\* The string that begins at position n of b: it ends before the first byte 0.
StringAt(b, n) ==
  LET zeros == {m \in n .. Len(b) : b[m] = "NUL"} IN
  SubSeq(b, n, IF zeros = {} THEN Len(b) ELSE (CHOOSE m \in zeros : \A o \in zeros : m <= o) - 1)

\* The first position from n on with one of the symbols; 0 if there is none.
Find(symbols, n) ==
  LET found == {m \in n .. Len(buf) : buf[m] \in symbols} IN
  IF found = {} THEN 0 ELSE CHOOSE m \in found : \A o \in found : m <= o

\* Faulty: the number ends at the byte 0 only.
EndOfTextOnly == {"NUL"}

\* What ends a number.
EndOfNumber == {"NUL", "NL"}

\* buf[i] = 0: the loop ends.
ConfigEnds ==
  /\ server_pc = "name"
  /\ i <= Len(buf) /\ buf[i] = "NUL"
  /\ ServerGoesTo("ready")
  /\ UNCHANGED <<inputVars, configVars, task, answer, clientVars>>

\* The name: everything up to the next space, wherever that is.
ReadName ==
  /\ server_pc = "name"
  /\ i <= Len(buf) /\ buf[i] # "NUL"
  /\ LET end == Find({"SP"}, i)
         cut == [buf EXCEPT ![end] = "NUL"] IN
       /\ end # 0
       /\ buf' = cut
       /\ i' = end + 1
       /\ IF StringAt(cut, i) \in {<<t>> : t \in Transformations}
            THEN name' = StringAt(cut, i)[1] /\ ServerGoesTo("value")
            ELSE ServerGoesTo("rejected") /\ UNCHANGED name
  /\ UNCHANGED <<inputVars, limit, task, answer, clientVars>>

\* The number, to the end of the line or of the text; sstrtol refuses a negative
\* one, and takes 0 for what is no number.
ReadValue ==
  /\ server_pc = "value"
  /\ LET end == Find(EndOfNumber, i)
         cut == [buf EXCEPT ![end] = "NUL"]
         text == StringAt(cut, i)
         value == IF text = << >> THEN 0 ELSE Atoi[text[1]] IN
       /\ end # 0
       /\ buf' = cut
       /\ i' = end + 1
       /\ IF value >= 0
            THEN limit' = [limit EXCEPT ![name] = value] /\ ServerGoesTo("name")
            ELSE ServerGoesTo("rejected") /\ UNCHANGED limit
  /\ UNCHANGED <<inputVars, name, task, answer, clientVars>>

\* The parser leaves what the model has of buf: anything may happen.
LeavesBuffer ==
  /\ \/ server_pc = "name" /\ Find({"SP"}, i) = 0 /\ ~(i <= Len(buf) /\ buf[i] = "NUL")
     \/ server_pc = "value" /\ Find(EndOfNumber, i) = 0
  /\ ServerGoesTo("undefined")
  /\ UNCHANGED <<inputVars, configVars, task, answer, clientVars>>

-----------------------------------------------------------------------------
(* The command line *)

ClientGoesTo(pc) == client_pc' = pc

\* argv[n]; argv[argc] is NULL, and nothing behind it is looked at.
Arg(n) == IF n <= Len(args) THEN args[n] ELSE NULL

CheckCommand ==
  /\ client_pc = "command"
  /\ IF args # << >> /\ args[1] \in {"proc-file", "status"}
       THEN /\ message' = <<args[1]>>
            /\ ClientGoesTo(IF Len(args) > 1 THEN "priority" ELSE "sent")
       ELSE /\ ClientGoesTo("exited")
            /\ UNCHANGED message
  /\ UNCHANGED <<inputVars, serverVars, k, priority>>

\* atoi (argv[i]), so that an explicit 0 does not count, and a name that begins
\* with a number does.
LooksLikePriority == Atoi[Arg(2)] # 0

\* -p and a priority, a priority, or no priority, which means 0.
TakePriority ==
  /\ client_pc = "priority"
  /\ IF Arg(2) = "-p"
       THEN priority' = Arg(3) /\ k' = 3
       ELSE IF LooksLikePriority
              THEN priority' = Arg(2) /\ k' = 2
              ELSE priority' = "0" /\ k' = 1
  /\ ClientGoesTo("checking")
  /\ UNCHANGED <<inputVars, serverVars, message>>

\* Faulty: 5 is not a priority.
LowPriorities == 0..4

PriorityRange == 0..5

\* atoi (NULL) ends the client.
CheckPriority ==
  /\ client_pc = "checking"
  /\ ClientGoesTo(IF priority = NULL THEN "crashed"
                  ELSE IF Atoi[priority] \in PriorityRange THEN "src" ELSE "exited")
  /\ UNCHANGED <<inputVars, serverVars, k, priority, message>>

CheckSrc ==
  /\ client_pc = "src"
  /\ k' = k + 1
  /\ ClientGoesTo(IF Arg(k + 1) \in Files THEN "dst" ELSE "exited")
  /\ UNCHANGED <<inputVars, serverVars, priority, message>>

\* Faulty: counts the destination as a transformation.
OneTooMany == Len(args) - k

\* argc - transformation_start_index.
NumTransformations == Len(args) - (k + 1)

CheckDst ==
  /\ client_pc = "dst"
  /\ k' = k + 1
  /\ IF Arg(k + 1) \in Files
       THEN /\ message' = message \o
                 <<priority, Arg(k), Arg(k + 1), Itoa[NumTransformations]>>
            /\ ClientGoesTo("ops")
       ELSE /\ ClientGoesTo("exited")
            /\ UNCHANGED message
  /\ UNCHANGED <<inputVars, serverVars, priority>>

CheckOps ==
  LET ops == SubSeq(args, k + 1, Len(args)) IN
  /\ client_pc = "ops"
  /\ IF ToSet(ops) \subseteq Transformations
       THEN message' = message \o ops /\ ClientGoesTo("sent")
       ELSE ClientGoesTo("exited") /\ UNCHANGED message
  /\ UNCHANGED <<inputVars, serverVars, k, priority>>

-----------------------------------------------------------------------------
(* The request, in process_message *)

Count(t, ops) == Cardinality({n \in DOMAIN ops : ops[n] = t})

\* ops_totals[] is an array of char, which is signed and 8 bits wide: ++ wraps.
SChar(n) == ((n + 128) % 256) - 128
OpsTotals(ops) == [t \in Transformations |-> SChar(Count(t, ops))]
Admissible(ops) == \A t \in Transformations : OpsTotals(ops)[t] <= limit[t]

\* strtok takes several delimiters for one, so that an empty field is no field.
Fields ==
  LET kept == {n \in DOMAIN message : message[n] # ""}
      Nth(m) == CHOOSE n \in kept : Cardinality({o \in kept : o <= n}) = m
  IN  [m \in 1 .. Cardinality(kept) |-> message[Nth(m)]]

ProcessMessage ==
  /\ server_pc = "ready" /\ client_pc = "sent"
  /\ IF Fields[1] = "status"
       THEN answer' = "status" /\ ServerGoesTo("answered") /\ UNCHANGED task
       ELSE IF Len(Fields) < 5
       THEN ServerGoesTo("failed") /\ UNCHANGED <<task, answer>>
       ELSE LET ops == SubSeq(Fields, 6, Len(Fields)) IN
            /\ task' = [pri |-> Atoi[Fields[2]], src |-> Fields[3], dst |-> Fields[4],
                        num_ops |-> Atoi[Fields[5]], ops |-> ops]
            /\ answer' = IF Admissible(ops) THEN "pending" ELSE "impossible"
            /\ ServerGoesTo("answered")
  /\ UNCHANGED <<inputVars, configVars, clientVars>>

-----------------------------------------------------------------------------
Next ==
  \/ ConfigEnds \/ ReadName \/ ReadValue \/ LeavesBuffer
  \/ CheckCommand \/ TakePriority \/ CheckPriority \/ CheckSrc \/ CheckDst \/ CheckOps
  \/ ProcessMessage

Spec == Init /\ [][Next]_vars
-----------------------------------------------------------------------------
(* What the texts mean *)

\* A configuration as it is written: etc/sdstored.conf has no newline at the end.
IsText(text, lines, newline) ==
  /\ Len(text) = 4 * Len(lines) - (IF newline \/ lines = << >> THEN 0 ELSE 1)
  /\ \A n \in DOMAIN lines :
       /\ text[4 * n - 3] = lines[n][1]
       /\ text[4 * n - 2] = "SP"
       /\ text[4 * n - 1] = Itoa[lines[n][2]]
       /\ n < Len(lines) \/ newline => text[4 * n] = "NL"

LimitOf(lines, t) ==
  LET of == {n \in DOMAIN lines : lines[n][1] = t} IN
  IF of = {} THEN 0 ELSE lines[CHOOSE n \in of : \A m \in of : m <= n][2]

\* The configuration file is understood (server.c:475-488) if a byte 0 happens to
\* follow it in buf; it takes two if its last line has no newline, as in the
\* file of the repository, because the parser steps over the first one.
ConfigUnderstood ==
  server_pc \notin {"name", "value"} => \A lines \in Configs, newline \in BOOLEAN :
    /\ IsText(file, lines, newline)
    /\ rest[1] = "NUL" /\ (newline \/ lines = << >> \/ rest[2] = "NUL")
    => server_pc \notin {"undefined", "rejected"} /\ \A t \in Transformations : limit[t] = LimitOf(lines, t)

\* The command line for an intent: with -p, with a bare priority, or without one.
CommandLine(intent) ==
  <<"proc-file">> \o
  (CASE intent.form = "-p"   -> <<"-p", Itoa[intent.pri]>>
     [] intent.form = "bare" -> <<Itoa[intent.pri]>>
     [] intent.form = "none" -> << >>) \o
  <<intent.src, intent.dst>> \o intent.ops

\* A bare 0 is taken for the source, a source whose name begins with a number for
\* the priority, and one called -p for the option (client.c:64-66).
Ambiguous(intent) ==
  \/ intent.form = "bare" /\ intent.pri = 0
  \/ intent.form = "none" /\ (Atoi[intent.src] # 0 \/ intent.src = "-p")

Legal(intent) ==
  /\ intent.pri \in 0..5
  /\ {intent.src, intent.dst} \subseteq Files
  /\ ToSet(intent.ops) \subseteq Transformations

\* What the user asks for, and whether ops_totals can count it.
WithinLimits(ops) == \A t \in Transformations : Count(t, ops) <= limit[t]
Countable(ops) == \A t \in Transformations : Count(t, ops) <= 127

\* The task that the server queues, or finds impossible, is the one that the user
\* meant, however the priority was given, it is queued exactly if it is within the
\* limits, and a command line with an error never reaches the server
\* (client.c:46-113, server.c:276-354).  There are two exceptions: the command lines
\* that are ambiguous, and, for the answer alone, those that name a transformation
\* more often than a char counts (server.c:329): they may be queued in spite of the
\* limits (MCSDStore_claim_impossible).
RequestUnderstood ==
  client_pc \in {"sent", "exited", "crashed"} => \A intent \in Intents :
    args = CommandLine(intent) /\ ~Ambiguous(intent) =>
      IF Legal(intent)
        THEN /\ client_pc = "sent"
             /\ server_pc = "answered" =>
                  /\ task = [pri |-> intent.pri, src |-> intent.src, dst |-> intent.dst,
                             num_ops |-> Len(intent.ops), ops |-> intent.ops]
                  /\ Countable(intent.ops) =>
                       answer = IF WithinLimits(intent.ops) THEN "pending" ELSE "impossible"
        ELSE client_pc # "sent"

\* Whatever the command line was, process_message finds all the fields it takes
\* for granted, and as many transformations as it allocates cells for
\* (server.c:305-325), if proc-file has an argument and no priority is "".
RequestComplete ==
  client_pc = "sent" /\ message # <<"proc-file">> /\ priority # "" =>
    /\ server_pc # "failed"
    /\ task # NULL => task.num_ops = Len(task.ops)
=============================================================================
