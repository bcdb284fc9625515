-------------------------- MODULE PipeProgsProofs --------------------------
(***************************************************************************)
(* Theorems about PipeProgs, for a pipeline of any length, files of any    *)
(* length, pipes of any capacity and any number of failures.               *)
(***************************************************************************)
EXTENDS PipeProgs, SequenceTheorems, TLAPS

-----------------------------------------------------------------------------
(* Types *)

\* A block, after some of the transformations.
Block == Seq(Int)

ChildStates == {"none", "forked", "opening", "running", "zombie", "reaped"}
Labels == {"pipe", "fork", "close_w", "close_r", "wait", "done", "failed"}

Ends == {READ_END(k) : k \in Pipes} \cup {WRITE_END(k) : k \in Pipes}

TypeOK ==
  /\ pc \in Labels
  /\ cs \in 0 .. ProgramNum
  /\ handling \in BOOLEAN /\ sigchld \in BOOLEAN
  /\ child \in [Programs -> ChildStates]
  /\ held \in [Programs -> Block]
  /\ open \in [Processes -> SUBSET Ends]
  /\ pipe \in [Pipes -> Seq(Block)]
  /\ src \in Seq(Block) /\ dst \in Seq(Block)
  /\ written \in Nat
  /\ faults \in Nat

\* The loop is over when cs is, and nothing is failed without a failure.
LoopOK ==
  /\ pc \in {"pipe", "fork", "close_w", "close_r"} => cs \in Programs
  /\ pc \in {"wait", "done"} => cs = ProgramNum
  /\ pc = "failed" => faults > 0

-----------------------------------------------------------------------------
(* Who holds which end *)

Alive(p) == child[p] \in {"forked", "opening", "running"}
Ended(p) == child[p] \in {"zombie", "reaped"}

\* The children that the loop has forked.
Forked(p) == p < cs \/ (p = cs /\ pc \in {"close_w", "close_r"})
ChildrenForked == \A p \in Programs : child[p] # "none" <=> Forked(p)

\* Until the loop comes to the next child the monitor holds the end that child
\* will read from, and both ends of a pipe that it has just made.
MonitorEnds ==
  \A k \in Pipes :
    /\ READ_END(k) \in open[monitor] <=>
         /\ pc # "failed"
         /\ k = cs - 1 \/ (k = cs /\ pc \in {"fork", "close_w", "close_r"})
    /\ WRITE_END(k) \in open[monitor] <=> k = cs /\ pc \in {"fork", "close_w"}

\* A child holds the end it reads from and the one it writes to as long as it is
\* alive, and at first the other end of its own pipe as well.
ChildEnds ==
  \A k \in Pipes, p \in Programs :
    /\ READ_END(k) \in open[p] <=> Alive(p) /\ (k = p - 1 \/ (k = p /\ child[p] = "forked"))
    /\ WRITE_END(k) \in open[p] <=> Alive(p) /\ k = p

-----------------------------------------------------------------------------
(* Where the blocks are *)

\* Block n of the file after the first p transformations.
Through(n, p) == <<n>> \o [q \in 1 .. p |-> q - 1]

\* f[p] blocks have been read by program p, f[ProgramNum] have been written to dst:
\* how many program p has passed on.
Reads == [0 .. ProgramNum -> 0 .. Blocks]
Passed(f, p) == IF held[p] = NoBlock THEN f[p] ELSE f[p] - 1

\* Every block is in one place, and the blocks in a place are consecutive.
SourceFlow(f) ==
  Len(src) = Blocks - f[0] /\ \A n \in 1 .. Len(src) : src[n] = Through(f[0] + n, 0)
HeldFlow(f) ==
  \A p \in Programs : held[p] # NoBlock => f[p] > 0 /\ held[p] = Through(f[p], p + 1)
PipeFlow(f, k) ==
  /\ Len(pipe[k]) = Passed(f, k) - f[k + 1]
  /\ \A n \in 1 .. Len(pipe[k]) : pipe[k][n] = Through(f[k + 1] + n, k + 1)
FileFlow(f) ==
  /\ Passed(f, last) = f[ProgramNum] /\ written = f[ProgramNum] /\ written <= Len(dst)
  /\ \A n \in 1 .. written : dst[n] = Through(n, ProgramNum)
Flow(f) ==
  SourceFlow(f) /\ HeldFlow(f) /\ (\A k \in Pipes : PipeFlow(f, k)) /\ FileFlow(f)

\* Without a failure a program ends when it has read and passed on everything.
Drained(f) == \A p \in Programs : Ended(p) => f[p] = Blocks /\ held[p] = NoBlock

DataFlows == \E f \in Reads : Flow(f) /\ (faults = 0 => Drained(f))

\* Without a failure the programs end in the order of the pipeline.
EndInOrder ==
  faults = 0 => \A p \in Programs \ {0} : Ended(p) => Ended(p - 1)

AllReaped == pc = "done" => NoChildren

EndsInv == TypeOK /\ LoopOK /\ ChildrenForked /\ MonitorEnds /\ ChildEnds /\ EndInOrder
PipeInv == EndsInv /\ DataFlows /\ AllReaped

-----------------------------------------------------------------------------
(* Types *)

\* Programs, pipes and processes are numbers.
LEMMA Numbers ==
  /\ last \in Programs /\ last = ProgramNum - 1 /\ 0 \in Programs /\ monitor \in Processes
  /\ \A p \in Programs : p \in Nat /\ p < ProgramNum /\ p # monitor /\ p \in Processes
  /\ \A k \in Pipes : k \in Programs /\ k + 1 \in Programs /\ k # last
  /\ \A p \in Programs : p # last => p \in Pipes
  /\ \A p \in Programs : p # 0 => p - 1 \in Pipes
  /\ Processes = Programs \cup {monitor} /\ monitor = ProgramNum
  BY ProgramAssumption DEF last, Programs, Pipes, monitor, Processes

\* The two ends of all pipes differ.
LEMMA EndsDiffer ==
  \A j, k : /\ READ_END(j) = READ_END(k) <=> j = k
            /\ WRITE_END(j) = WRITE_END(k) <=> j = k
            /\ READ_END(j) # WRITE_END(k)
  BY DEF READ_END, WRITE_END

\* What reading and writing do to a sequence of blocks.
LEMMA SequencesOfBlocks ==
  /\ << >> \in Block
  /\ \A b \in Block, n \in Int : Append(b, n) \in Block
  /\ \A s \in Seq(Block) : s # << >> => Head(s) \in Block /\ Tail(s) \in Seq(Block)
  /\ \A s \in Seq(Block), b \in Block : Append(s, b) \in Seq(Block)
  /\ \A s \in Seq(Block), b \in Block : \A n \in 1 .. Len(s) : [s EXCEPT ![n] = b] \in Seq(Block)
<1>1. << >> \in Block /\ \A b \in Block, n \in Int : Append(b, n) \in Block
  BY DEF Block
<1>2. \A S : /\ \A s \in Seq(S) : s # << >> => Head(s) \in S /\ Tail(s) \in Seq(S)
             /\ \A s \in Seq(S), b \in S : Append(s, b) \in Seq(S)
             /\ \A s \in Seq(S), b \in S : \A n \in 1 .. Len(s) : [s EXCEPT ![n] = b] \in Seq(S)
  OBVIOUS
<1> QED
  BY <1>1, <1>2

\* A program ends with its ends closed.
LEMMA TerminatesType ==
  ASSUME TypeOK, NEW p \in Programs, Terminates(p)
  PROVE  /\ child' \in [Programs -> ChildStates]
         /\ open' \in [Processes -> SUBSET Ends]
         /\ sigchld' \in BOOLEAN
  BY DEF TypeOK, Terminates, ChildStates

\* The steps of the monitor keep the types.
LEMMA MonitorKeepsTypes ==
  ASSUME TypeOK, LoopOK, MonitorStep \/ MonitorFails \/ SigChild \/ SigChildReturns
  PROVE  TypeOK'
<1> USE DEF TypeOK, Labels, At
<1>1. CASE Pipe
  <2>1. cs \in Programs /\ (cs # last => cs \in Pipes)
    BY <1>1, Numbers DEF Pipe, LoopOK
  <2> DEFINE new == IF cs # last THEN {READ_END(cs), WRITE_END(cs)} ELSE {}
  <2>2. new \in SUBSET Ends
    <3>1. CASE cs = last
      BY <3>1
    <3>2. CASE cs # last
      <4>1. \A k \in Pipes : READ_END(k) \in Ends /\ WRITE_END(k) \in Ends
        BY DEF Ends
      <4>2. READ_END(cs) \in Ends /\ WRITE_END(cs) \in Ends
        BY <2>1, <3>2, <4>1
      <4>3. new = {READ_END(cs), WRITE_END(cs)}
        BY <3>2
      <4> QED
        BY <4>2, <4>3
    <3> QED
      BY <3>1, <3>2
  <2>3. open' = [open EXCEPT ![monitor] = @ \cup new]
    BY <1>1 DEF Pipe
  <2> HIDE DEF new
  <2>4. open' \in [Processes -> SUBSET Ends]
    BY <2>2, <2>3
  <2> QED
    BY <1>1, <2>4 DEF Pipe, dataVars
<1>2. CASE Fork
  <2>1. cs \in Programs
    BY <1>2 DEF Fork, LoopOK
  <2>2. open' \in [Processes -> SUBSET Ends]
    BY <1>2, <2>1, Numbers DEF Fork
  <2>3. child' \in [Programs -> ChildStates]
    BY <1>2 DEF Fork, ChildStates
  <2> QED
    BY <1>2, <2>2, <2>3 DEF Fork, dataVars
<1>3. CASE CloseWriteEnd
  BY <1>3 DEF CloseWriteEnd, Closes, dataVars
<1>4. CASE CloseReadEnd
  <2>1. cs' \in 0 .. ProgramNum
    BY <1>4, ProgramAssumption DEF CloseReadEnd, LoopOK, Programs
  <2>2. open' \in [Processes -> SUBSET Ends]
    BY <1>4 DEF CloseReadEnd, Closes
  <2> QED
    BY <1>4, <2>1, <2>2 DEF CloseReadEnd, dataVars
<1>5. CASE Wait
  <2>1. child' \in [Programs -> ChildStates]
    BY <1>5 DEF Wait, Reaps, ChildStates
  <2> QED
    BY <1>5, <2>1 DEF Wait, dataVars
<1>6. CASE MonitorFails
  <2>1. pc' \in Labels /\ faults' \in Nat
    BY <1>6 DEF MonitorFails
  <2>2. open' \in [Processes -> SUBSET Ends]
    BY <1>6 DEF MonitorFails
  <2> QED
    BY <1>6, <2>1, <2>2 DEF MonitorFails, dataVars
<1>7. CASE SigChild
  BY <1>7 DEF SigChild, dataVars
<1>8. CASE SigChildReturns
  <2>1. child' \in [Programs -> ChildStates]
    BY <1>8 DEF SigChildReturns, Reaps, ChildStates
  <2> QED
    BY <1>8, <2>1 DEF SigChildReturns, dataVars
<1> QED
  BY <1>1, <1>2, <1>3, <1>4, <1>5, <1>6, <1>7, <1>8 DEF MonitorStep

\* The steps of the children keep the types.
LEMMA ChildKeepsTypes ==
  ASSUME TypeOK, NEW p \in Programs, ChildStep(p) \/ ChildFails(p)
  PROVE  TypeOK'
<1> USE DEF TypeOK, monitorVars, dataVars, Holds, NoBlock
<1>1. CASE CloseOwnReadEnd(p)
  BY <1>1 DEF CloseOwnReadEnd, Closes, ChildStates
<1>2. CASE Exec(p)
  BY <1>2 DEF Exec, ChildStates
<1>3. CASE ReadSource(p)
  <2>1. /\ Head(src) \in Block /\ src' \in Seq(Block) /\ held \in [Programs -> Block]
        /\ held' = [held EXCEPT ![p] = Append(Head(src), p)]
    BY <1>3, SequencesOfBlocks DEF ReadSource
  <2>2. Append(Head(src), p) \in Block
    <3>1. \A b \in Block, n \in Int : Append(b, n) \in Block
      BY SequencesOfBlocks, Zenon
    <3>2. p \in Int
      BY Numbers
    <3> QED
      BY <2>1, <3>1, <3>2, Zenon
  <2>3. held' \in [Programs -> Block] /\ src' \in Seq(Block)
    BY <2>1, <2>2
  <2> QED
    BY <1>3, <2>3 DEF ReadSource
<1>4. CASE ReadPipe(p)
  <2>1. p - 1 \in Pipes
    BY <1>4, Numbers DEF ReadPipe
  <2>2. Append(Head(pipe[p - 1]), p) \in Block /\ Tail(pipe[p - 1]) \in Seq(Block)
    <3>1. pipe[p - 1] \in Seq(Block) /\ pipe[p - 1] # << >> /\ p \in Int
      BY <1>4, <2>1, Numbers DEF ReadPipe
    <3>2. Head(pipe[p - 1]) \in Block /\ Tail(pipe[p - 1]) \in Seq(Block)
      BY <3>1, SequencesOfBlocks
    <3> QED
      BY <3>1, <3>2, SequencesOfBlocks
  <2>3. held' \in [Programs -> Block] /\ pipe' \in [Pipes -> Seq(Block)]
    BY <1>4, <2>1, <2>2 DEF ReadPipe
  <2> QED
    BY <1>4, <2>3 DEF ReadPipe
<1>5. CASE ReadsEndOfFile(p)
  BY <1>5, TerminatesType DEF ReadsEndOfFile
<1>6. CASE WriteFile(p)
  <2>1. held' \in [Programs -> Block] /\ written' \in Nat
    BY <1>6, SequencesOfBlocks DEF WriteFile
  <2>2. dst' \in Seq(Block)
    BY <1>6, SequencesOfBlocks DEF WriteFile
  <2> QED
    BY <1>6, <2>1, <2>2 DEF WriteFile
<1>7. CASE WritePipe(p)
  <2>1. held' \in [Programs -> Block] /\ pipe' \in [Pipes -> Seq(Block)]
    BY <1>7, SequencesOfBlocks, Numbers DEF WritePipe
  <2> QED
    BY <1>7, <2>1 DEF WritePipe
<1>8. CASE BreaksPipe(p)
  BY <1>8, TerminatesType DEF BreaksPipe
<1>9. CASE ChildFails(p)
  BY <1>9, TerminatesType DEF ChildFails
<1> QED
  BY <1>1, <1>2, <1>3, <1>4, <1>5, <1>6, <1>7, <1>8, <1>9 DEF ChildStep

-----------------------------------------------------------------------------
(* The ends *)

\* What depends on the loop and the children only.
EndsParts == LoopOK /\ ChildrenForked /\ MonitorEnds /\ ChildEnds /\ EndInOrder

\* Reading and writing leave the ends alone, and so do signals.
LEMMA QuietKeepsEnds ==
  ASSUME EndsInv, UNCHANGED <<pc, cs, child, open, faults>>
  PROVE  EndsParts'
  BY DEF EndsInv, EndsParts, LoopOK, ChildrenForked, MonitorEnds, ChildEnds, EndInOrder,
         Forked, Alive, Ended, NoChildren

\* A child that ends closes its ends.  Without a failure the one before it has ended.
LEMMA EndKeepsEnds ==
  ASSUME EndsInv, NEW p \in Programs, Alive(p), Terminates(p), UNCHANGED <<pc, cs>>,
         faults' \in Nat, faults <= faults',
         faults' = 0 => p = 0 \/ Ended(p - 1)
  PROVE  EndsParts'
<1> USE DEF EndsInv
<1>1. child' = [child EXCEPT ![p] = "zombie"] /\ open' = [open EXCEPT ![p] = {}]
  BY DEF Terminates
<1>2. /\ child'[p] = "zombie" /\ open'[p] = {} /\ open'[monitor] = open[monitor]
      /\ \A q \in Programs \ {p} : child'[q] = child[q] /\ open'[q] = open[q]
  BY <1>1, Numbers DEF TypeOK
<1>3. LoopOK'
  BY DEF LoopOK, TypeOK
<1>4. ChildrenForked' /\ MonitorEnds'
  BY <1>2 DEF ChildrenForked, MonitorEnds, Forked, Alive
<1>5. ChildEnds'
  BY <1>2 DEF ChildEnds, Alive
<1>6. EndInOrder'
  <2> SUFFICES ASSUME faults' = 0, NEW q \in Programs \ {0}, Ended(q)'
               PROVE  Ended(q - 1)'
    BY DEF EndInOrder
  <2>1. faults = 0 /\ q - 1 \in Programs
    BY Numbers DEF TypeOK
  <2>2. Ended(q - 1)
    BY <1>2, <2>1 DEF EndInOrder, Ended
  <2>3. q - 1 # p
    BY <2>2 DEF Alive, Ended
  <2> QED
    BY <1>2, <2>1, <2>2, <2>3 DEF Ended
<1> QED
  BY <1>3, <1>4, <1>5, <1>6 DEF EndsParts

\* A child that is waited for had ended before.
LEMMA ReapKeepsEnds ==
  ASSUME EndsInv, UNCHANGED <<cs, open, faults>>,
         UNCHANGED pc \/ (pc = "wait" /\ pc' = "done"),
         UNCHANGED child \/ \E p \in Programs : Reaps(p)
  PROVE  EndsParts'
<1> USE DEF EndsInv
<1>1. child' \in [Programs -> ChildStates]
  BY DEF TypeOK, Reaps, ChildStates
<1>2. \A q \in Programs : /\ child'[q] # "none" <=> child[q] # "none"
                          /\ Alive(q)' <=> Alive(q)
                          /\ Ended(q)' <=> Ended(q)
                          /\ child'[q] = "forked" <=> child[q] = "forked"
  BY DEF TypeOK, Reaps, Alive, Ended
<1>3. LoopOK'
  BY DEF LoopOK
<1>4. ChildrenForked'
  BY <1>2 DEF ChildrenForked, Forked
<1>5. MonitorEnds'
  BY DEF MonitorEnds
<1>6. ChildEnds'
  BY <1>2 DEF ChildEnds
<1>7. EndInOrder'
  BY <1>2, Numbers DEF EndInOrder
<1> QED
  BY <1>3, <1>4, <1>5, <1>6, <1>7 DEF EndsParts

\* A step of the loop changes what the monitor holds, and makes a child.
LEMMA LoopKeepsEnds ==
  ASSUME EndsInv, Pipe \/ Fork \/ CloseWriteEnd \/ CloseReadEnd \/ MonitorFails
  PROVE  EndsParts'
<1> USE DEF EndsInv, At
<1>1. cs \in Programs /\ cs \in Nat /\ \A p \in Programs : p \in Nat /\ p < ProgramNum
  BY Numbers DEF Pipe, Fork, CloseWriteEnd, CloseReadEnd, MonitorFails, LoopOK
<1>2. \A k \in Pipes : k \in Programs /\ k \in Nat /\ k # last
  BY Numbers
<1>3. CASE Pipe
  <2>1. /\ UNCHANGED <<cs, child, faults>> /\ pc = "pipe" /\ pc' = "fork"
        /\ open'[monitor] = open[monitor] \cup IF cs # last THEN {READ_END(cs), WRITE_END(cs)} ELSE {}
        /\ \A p \in Programs : open'[p] = open[p]
    BY <1>3, Numbers DEF Pipe, TypeOK
  <2>2. LoopOK' /\ ChildrenForked' /\ ChildEnds' /\ EndInOrder'
    BY <1>1, <2>1 DEF LoopOK, ChildrenForked, ChildEnds, EndInOrder, Forked, Alive, Ended
  <2>3. MonitorEnds'
    BY <1>1, <1>2, <2>1, EndsDiffer DEF MonitorEnds
  <2> QED
    BY <2>2, <2>3 DEF EndsParts
<1>4. CASE Fork
  <2>1. /\ UNCHANGED <<cs, faults>> /\ pc = "fork" /\ pc' = "close_w"
        /\ child' = [child EXCEPT ![cs] = "forked"]
        /\ open'[monitor] = open[monitor] /\ open'[cs] = open[monitor]
        /\ \A p \in Programs \ {cs} : open'[p] = open[p] /\ child'[p] = child[p]
        /\ child'[cs] = "forked"
    BY <1>1, <1>4, Numbers DEF Fork, TypeOK
  <2>2. LoopOK' /\ MonitorEnds'
    BY <1>1, <2>1 DEF LoopOK, MonitorEnds
  <2>3. ChildrenForked'
    BY <1>1, <2>1 DEF ChildrenForked, Forked
  <2>4. ChildEnds'
    BY <1>1, <1>2, <2>1 DEF ChildEnds, MonitorEnds, Alive
  <2>5. EndInOrder'
    <3>1. ~Ended(cs)' /\ ~Ended(cs) /\ \A p \in Programs \ {cs} : Ended(p)' <=> Ended(p)
      BY <1>1, <2>1 DEF Ended, ChildrenForked, Forked
    <3> QED
      BY <2>1, <3>1, Numbers DEF EndInOrder
  <2> QED
    BY <2>2, <2>3, <2>4, <2>5 DEF EndsParts
<1>5. CASE CloseWriteEnd
  <2>1. /\ UNCHANGED <<cs, child, faults>> /\ pc = "close_w" /\ pc' = "close_r"
        /\ open'[monitor] = open[monitor] \ {WRITE_END(cs)}
        /\ \A p \in Programs : open'[p] = open[p]
    BY <1>5, Numbers DEF CloseWriteEnd, Closes, TypeOK
  <2>2. LoopOK' /\ ChildrenForked' /\ ChildEnds' /\ EndInOrder'
    BY <1>1, <2>1 DEF LoopOK, ChildrenForked, ChildEnds, EndInOrder, Forked, Alive, Ended
  <2>3. MonitorEnds'
    BY <1>1, <1>2, <2>1, EndsDiffer DEF MonitorEnds
  <2> QED
    BY <2>2, <2>3 DEF EndsParts
<1>6. CASE CloseReadEnd
  <2>1. /\ UNCHANGED <<child, faults>> /\ pc = "close_r" /\ cs' = cs + 1
        /\ pc' = IF cs = last THEN "wait" ELSE "pipe"
        /\ open'[monitor] = open[monitor] \ {READ_END(cs - 1)}
        /\ \A p \in Programs : open'[p] = open[p]
    BY <1>6, Numbers DEF CloseReadEnd, Closes, PreviousEnd, TypeOK
  <2>2. LoopOK'
    BY <1>1, <2>1, Numbers, ProgramAssumption DEF LoopOK, Programs
  <2>3. ChildrenForked'
    BY <1>1, <2>1 DEF ChildrenForked, Forked
  <2>4. ChildEnds' /\ EndInOrder'
    BY <2>1 DEF ChildEnds, EndInOrder, Alive, Ended
  <2>5. MonitorEnds'
    BY <1>1, <1>2, <2>1, EndsDiffer DEF MonitorEnds
  <2> QED
    BY <2>2, <2>3, <2>4, <2>5 DEF EndsParts
<1>7. CASE MonitorFails
  <2>1. /\ UNCHANGED <<cs, child>> /\ faults' = faults + 1 /\ faults \in Nat
        /\ pc \in {"pipe", "fork"} /\ pc' = "failed"
        /\ open'[monitor] = {}
        /\ \A p \in Programs : open'[p] = open[p]
    BY <1>7, Numbers DEF MonitorFails, TypeOK
  <2>2. LoopOK' /\ EndInOrder'
    BY <2>1 DEF LoopOK, EndInOrder
  <2>3. ChildrenForked'
    BY <1>1, <2>1 DEF ChildrenForked, Forked
  <2>4. MonitorEnds' /\ ChildEnds'
    BY <1>1, <1>2, <2>1 DEF MonitorEnds, ChildEnds, Alive
  <2> QED
    BY <2>2, <2>3, <2>4 DEF EndsParts
<1> QED
  BY <1>3, <1>4, <1>5, <1>6, <1>7

\* Whoever can write to a pipe has a reader, or the monitor keeps one for it.
LEMMA ReaderThere ==
  ASSUME EndsInv, faults = 0, NEW p \in Programs \ {last}, child[p] = "running"
  PROVE  HasReader(p)
<1> USE DEF EndsInv
<1>1. p \in Pipes /\ p \in Nat /\ p + 1 \in Programs /\ cs \in Nat /\ p + 1 \in Processes
  BY Numbers DEF TypeOK
<1>2. CASE child[p + 1] = "none"
  <2>1. Forked(p) /\ ~Forked(p + 1)
    BY <1>1, <1>2 DEF ChildrenForked
  <2>2. cs = p + 1 \/ (cs = p /\ pc \in {"close_w", "close_r"})
    BY <1>1, <2>1 DEF Forked
  <2>3. READ_END(p) \in open[monitor]
    BY <1>1, <2>2 DEF MonitorEnds, LoopOK
  <2> QED
    BY <2>3, Numbers DEF HasReader
<1>3. CASE Alive(p + 1)
  <2>1. READ_END(p) \in open[p + 1]
    BY <1>1, <1>3 DEF ChildEnds
  <2> QED
    BY <1>1, <2>1 DEF HasReader
<1>4. CASE Ended(p + 1)
  <2>1. p + 1 # 0 /\ (p + 1) - 1 = p
    BY <1>1
  <2>2. Ended(p)
    BY <1>1, <1>4, <2>1 DEF EndInOrder
  <2> QED
    BY <2>2 DEF Ended
<1>5. child[p + 1] \in ChildStates
  BY <1>1 DEF TypeOK
<1> QED
  BY <1>2, <1>3, <1>4, <1>5 DEF ChildStates, Alive, Ended

\* The end of the input means that the program before it has ended.
LEMMA EndOfInput ==
  ASSUME EndsInv, NEW p \in Programs \ {0}, child[p] = "running", Empty(p)
  PROVE  Ended(p - 1) /\ pipe[p - 1] = << >> /\ p - 1 \in Pipes
<1> USE DEF EndsInv
<1>1. p - 1 \in Pipes /\ p - 1 \in Programs /\ p \in Nat /\ p - 1 \in Processes /\ p - 1 < p
  BY Numbers
<1>2. pipe[p - 1] = << >> /\ WRITE_END(p - 1) \notin open[p - 1]
  BY <1>1 DEF Empty
<1>3. ~Alive(p - 1)
  BY <1>1, <1>2 DEF ChildEnds
<1>4. child[p - 1] # "none"
  BY <1>1 DEF ChildrenForked, Forked, TypeOK
<1>5. child[p - 1] \in ChildStates
  BY <1>1 DEF TypeOK
<1> QED
  BY <1>1, <1>2, <1>3, <1>4, <1>5 DEF ChildStates, Alive, Ended

-----------------------------------------------------------------------------
(* The blocks *)

\* A transformation leaves its mark at the end of a block.
LEMMA ThroughGrows ==
  /\ \A n \in Int, p \in Nat : Through(n, p) # NoBlock
  /\ \A n \in Int : Through(n, 0) = <<n>>
  /\ \A n \in Int, p \in Nat : Append(Through(n, p), p) = Through(n, p + 1)
<1>1. ASSUME NEW n \in Int, NEW p \in Nat
      PROVE  Through(n, p) # NoBlock
  <2>1. <<n>> \in Seq(Int) /\ [q \in 1 .. p |-> q - 1] \in Seq(Int)
    OBVIOUS
  <2>2. Len(Through(n, p)) = 1 + p
    BY <2>1 DEF Through
  <2> QED
    BY <2>2 DEF NoBlock
<1>2. ASSUME NEW n \in Int
      PROVE  Through(n, 0) = <<n>>
  BY DEF Through
<1>3. ASSUME NEW n \in Int, NEW p \in Nat
      PROVE  Append(Through(n, p), p) = Through(n, p + 1)
  <2> DEFINE short == [q \in 1 .. p |-> q - 1]
             long == [q \in 1 .. p + 1 |-> q - 1]
  <2>1. short \in Seq(Int) /\ long \in Seq(Int) /\ Len(short) = p /\ Len(long) = p + 1
    OBVIOUS
  <2>2. long = Append(short, p)
    OBVIOUS
  <2> HIDE DEF short, long
  <2>3. <<n>> \o Append(short, p) = Append(<<n>> \o short, p)
    <3>1. PICK a : a = <<n>>
      OBVIOUS
    <3>2. short \in Seq(Int) /\ p \in Int
      BY <2>1
    <3>3. a \o Append(short, p) = Append(a \o short, p)
      <4>1. a \in Seq(Int)
        BY <3>1
      <4> QED
        BY <3>2, <4>1
    <3> QED
      BY <3>1, <3>3
  <2> QED
    BY <2>2, <2>3 DEF Through, short, long
<1> QED
  BY <1>1, <1>2, <1>3

\* Reading from a sequence and writing to one.
LEMMA FirstBlock ==
  ASSUME NEW s \in Seq(Block), s # << >>
  PROVE  /\ Len(s) > 0 /\ Head(s) = s[1] /\ Tail(s) \in Seq(Block)
         /\ Len(Tail(s)) = Len(s) - 1
         /\ \A n \in 1 .. Len(Tail(s)) : Tail(s)[n] = s[n + 1]
  OBVIOUS

\* Writing to a sequence adds a block at its end.
LEMMA LastBlock ==
  ASSUME NEW s \in Seq(Block), NEW b \in Block
  PROVE  /\ Len(Append(s, b)) = Len(s) + 1
         /\ Append(s, b)[Len(s) + 1] = b
         /\ \A n \in 1 .. Len(s) : Append(s, b)[n] = s[n]
  OBVIOUS

\* The numbers in a count of reads.
LEMMA ReadsAreNumbers ==
  ASSUME NEW f \in Reads
  PROVE  /\ \A p \in Programs : f[p] \in Nat /\ f[p] <= Blocks
         /\ f[ProgramNum] \in Nat /\ f[ProgramNum] <= Blocks
         /\ \A p \in Programs : Passed(f, p) \in Int /\ Passed(f, p) <= Blocks
<1>1. \A p \in Programs : p \in 0 .. ProgramNum
  BY ProgramAssumption DEF Programs
<1>2. ProgramNum \in 0 .. ProgramNum /\ Blocks \in Nat
  BY ProgramAssumption, PipeAssumption
<1> QED
  BY <1>1, <1>2 DEF Reads, Passed

\* One more block is read.
LEMMA ReadsGrow ==
  ASSUME NEW f \in Reads, NEW p \in 0 .. ProgramNum, f[p] + 1 <= Blocks
  PROVE  [f EXCEPT ![p] = @ + 1] \in Reads
  BY PipeAssumption DEF Reads

\* The first program reads a block of the file.
LEMMA SourceKeepsFlow ==
  ASSUME TypeOK, NEW f \in Reads, Flow(f), NEW p \in Programs, ReadSource(p)
  PROVE  \E g \in Reads : Flow(g)' /\ (\A q \in Programs : q # p => g[q] = f[q])
<1>1. /\ p = 0 /\ 0 \in Programs /\ held[0] = NoBlock /\ src # << >> /\ src' = Tail(src)
      /\ held' = [held EXCEPT ![0] = Append(Head(src), 0)] /\ UNCHANGED <<pipe, dst, written>>
      /\ src \in Seq(Block) /\ held \in [Programs -> Block]
  BY Numbers DEF ReadSource, Idle, Holds, TypeOK
<1>2. f[0] \in Nat /\ f[0] <= Blocks /\ Blocks \in Nat
  BY <1>1, ReadsAreNumbers, PipeAssumption
<1>3. src[1] = Through(f[0] + 1, 0) /\ Len(src) = Blocks - f[0] /\ Len(src) > 0
  BY <1>1, FirstBlock DEF Flow, SourceFlow
<1>4. PICK g \in Reads : g = [f EXCEPT ![0] = @ + 1]
  <2>1. 0 \in 0 .. ProgramNum /\ f[0] + 1 <= Blocks
    BY <1>2, <1>3, ProgramAssumption
  <2> QED
    BY <2>1, ReadsGrow
<1>5. g[0] = f[0] + 1 /\ g[ProgramNum] = f[ProgramNum] /\ \A q \in Programs : q # 0 => g[q] = f[q]
  BY <1>4, ProgramAssumption DEF Reads, Programs
<1>6. held'[0] = Through(f[0] + 1, 1) /\ held'[0] # NoBlock
  <2>1. held'[0] = Append(Through(f[0] + 1, 0), 0)
    BY <1>1, <1>3, FirstBlock
  <2>2. f[0] + 1 \in Int /\ 0 \in Nat /\ 0 + 1 = 1 /\ 1 \in Nat
    BY <1>2
  <2> QED
    BY <2>1, <2>2, ThroughGrows
<1>7. \A q \in Programs : q # 0 => held'[q] = held[q]
  BY <1>1
<1>8. SourceFlow(g)'
  <2>1. Len(src') = Blocks - g[0] /\ \A n \in 1 .. Len(src') : src'[n] = src[n + 1]
    BY <1>1, <1>2, <1>3, <1>5, FirstBlock
  <2>2. \A n \in 1 .. Len(src') : src[n + 1] = Through(f[0] + (n + 1), 0)
    BY <1>1, FirstBlock DEF Flow, SourceFlow
  <2>3. \A n \in 1 .. Len(src') : f[0] + (n + 1) = g[0] + n
    BY <1>2, <1>5
  <2> QED
    BY <2>1, <2>2, <2>3 DEF SourceFlow
<1>9. HeldFlow(g)'
  BY <1>2, <1>5, <1>6, <1>7 DEF Flow, HeldFlow
<1>10. \A q \in Programs : Passed(g, q)' = Passed(f, q)
  <2>1. Passed(f, 0) = f[0]
    BY <1>1 DEF Passed
  <2>2. Passed(g, 0)' = g[0] - 1
    BY <1>6 DEF Passed
  <2>3. \A q \in Programs : q # 0 => Passed(g, q)' = Passed(f, q)
    BY <1>5, <1>7 DEF Passed
  <2> QED
    BY <1>2, <1>5, <2>1, <2>2, <2>3
<1>11. \A k \in Pipes : PipeFlow(g, k)'
  <2>1. \A k \in Pipes : k \in Programs /\ k + 1 \in Programs /\ k + 1 # 0
    BY Numbers DEF Pipes
  <2> QED
    BY <1>1, <1>5, <1>10, <2>1 DEF Flow, PipeFlow
<1>12. FileFlow(g)'
  BY <1>1, <1>5, <1>10, Numbers DEF Flow, FileFlow
<1> QED
  BY <1>1, <1>4, <1>5, <1>8, <1>9, <1>11, <1>12 DEF Flow

\* Another program reads a block from the pipe before it.
LEMMA PipeReadKeepsFlow ==
  ASSUME TypeOK, NEW f \in Reads, Flow(f), NEW p \in Programs, ReadPipe(p)
  PROVE  \E g \in Reads : Flow(g)' /\ (\A q \in Programs : q # p => g[q] = f[q])
<1>1. /\ p # 0 /\ held[p] = NoBlock /\ pipe[p - 1] # << >> /\ UNCHANGED <<src, dst, written>>
      /\ held' = [held EXCEPT ![p] = Append(Head(pipe[p - 1]), p)]
      /\ pipe' = [pipe EXCEPT ![p - 1] = Tail(@)]
      /\ pipe \in [Pipes -> Seq(Block)] /\ held \in [Programs -> Block]
  BY DEF ReadPipe, Idle, Holds, TypeOK
<1>2. PICK j \in Pipes : j = p - 1
  BY <1>1, Numbers
<1>3. /\ p \in Nat /\ p # ProgramNum /\ j \in Nat /\ j + 1 = p /\ j \in Programs /\ j # p
      /\ 0 \in Programs /\ last \in Programs
  BY <1>2, ProgramAssumption DEF Programs, Pipes, last
<1>4. /\ f[p] \in Nat /\ f[p] <= Blocks /\ Passed(f, j) \in Int /\ Passed(f, j) <= Blocks
      /\ Blocks \in Nat
  BY <1>3, ReadsAreNumbers, PipeAssumption
<1>5. PICK s \in Seq(Block) : s = pipe[j]
  BY <1>1
<1>6. /\ s # << >> /\ Len(s) = Passed(f, j) - f[p]
      /\ \A n \in 1 .. Len(s) : s[n] = Through(f[p] + n, p)
  BY <1>1, <1>2, <1>3, <1>5 DEF Flow, PipeFlow
<1>7. /\ Len(s) > 0 /\ Head(s) = s[1] /\ Tail(s) \in Seq(Block) /\ Len(Tail(s)) = Len(s) - 1
      /\ \A n \in 1 .. Len(Tail(s)) : Tail(s)[n] = s[n + 1]
  BY <1>6, FirstBlock
<1>8. s[1] = Through(f[p] + 1, p)
  BY <1>6, <1>7
<1>9. PICK g \in Reads : g = [f EXCEPT ![p] = @ + 1]
  <2>1. p \in 0 .. ProgramNum
    BY Numbers, ProgramAssumption
  <2>2. Passed(f, j) - f[p] > 0
    BY <1>6, <1>7
  <2>3. f[p] + 1 <= Blocks
    BY <1>4, <2>2
  <2> QED
    BY <2>1, <2>3, ReadsGrow
<1>10. g[p] = f[p] + 1 /\ g[ProgramNum] = f[ProgramNum] /\ \A q \in Programs : q # p => g[q] = f[q]
  BY <1>3, <1>9, ProgramAssumption DEF Reads, Programs
<1>11. held'[p] = Through(f[p] + 1, p + 1) /\ held'[p] # NoBlock
  <2>1. held'[p] = Append(Through(f[p] + 1, p), p)
    BY <1>1, <1>2, <1>5, <1>7, <1>8
  <2>2. f[p] + 1 \in Int /\ p + 1 \in Nat
    BY <1>3, <1>4
  <2> QED
    BY <2>1, <2>2, <1>3, ThroughGrows
<1>12. /\ \A q \in Programs : q # p => held'[q] = held[q]
       /\ pipe'[j] = Tail(s) /\ \A k \in Pipes : k # j => pipe'[k] = pipe[k]
  BY <1>1, <1>2, <1>5
<1>13. \A q \in Programs : Passed(g, q)' = Passed(f, q)
  <2>1. Passed(f, p) = f[p]
    BY <1>1 DEF Passed
  <2>2. Passed(g, p)' = g[p] - 1
    BY <1>11 DEF Passed
  <2>3. \A q \in Programs : q # p => Passed(g, q)' = Passed(f, q)
    BY <1>10, <1>12 DEF Passed
  <2> QED
    BY <1>4, <1>10, <2>1, <2>2, <2>3
<1>14. SourceFlow(g)'
  BY <1>1, <1>3, <1>10 DEF Flow, SourceFlow
<1>15. HeldFlow(g)'
  BY <1>4, <1>10, <1>11, <1>12 DEF Flow, HeldFlow
<1>16. \A k \in Pipes : k # j => PipeFlow(g, k)'
  <2>1. \A k \in Pipes : k # j => k \in Programs /\ k + 1 \in Programs /\ k + 1 # p
    BY <1>2, Numbers DEF Pipes
  <2> QED
    BY <1>10, <1>12, <1>13, <2>1 DEF Flow, PipeFlow
<1>17. PipeFlow(g, j)'
  <2>1. Len(pipe'[j]) = Passed(g, j)' - g[p]
    BY <1>3, <1>4, <1>6, <1>7, <1>10, <1>12, <1>13
  <2>2. ASSUME NEW n \in 1 .. Len(Tail(s))
        PROVE  Tail(s)[n] = Through(g[p] + n, p)
    <3>1. n + 1 \in 1 .. Len(s) /\ f[p] + (n + 1) = g[p] + n
      BY <1>4, <1>7, <1>10
    <3> QED
      BY <1>6, <1>7, <3>1
  <2> QED
    BY <1>3, <1>12, <2>1, <2>2 DEF PipeFlow
<1>18. FileFlow(g)'
  BY <1>1, <1>3, <1>10, <1>13 DEF Flow, FileFlow
<1> QED
  BY <1>10, <1>14, <1>15, <1>16, <1>17, <1>18 DEF Flow

\* A program writes the block it holds to the pipe behind it.
LEMMA PipeWriteKeepsFlow ==
  ASSUME TypeOK, NEW f \in Reads, Flow(f), NEW p \in Programs, WritePipe(p)
  PROVE  Flow(f)'
<1>1. /\ p # last /\ held[p] # NoBlock /\ UNCHANGED <<src, dst, written>>
      /\ held' = [held EXCEPT ![p] = NoBlock]
      /\ pipe' = [pipe EXCEPT ![p] = Append(@, held[p])]
      /\ pipe \in [Pipes -> Seq(Block)] /\ held \in [Programs -> Block]
  BY DEF WritePipe, Writing, Holds, TypeOK
<1>2. p \in Pipes /\ p \in Nat /\ last \in Programs /\ p + 1 \in Programs /\ p + 1 # p
  BY <1>1, Numbers
<1>3. /\ f[p] \in Nat /\ f[p + 1] \in Nat
  BY <1>2, ReadsAreNumbers
<1>4. PICK s \in Seq(Block) : s = pipe[p]
  BY <1>1, <1>2
<1>5. /\ Len(s) = Passed(f, p) - f[p + 1] /\ Len(s) \in Nat
      /\ \A n \in 1 .. Len(s) : s[n] = Through(f[p + 1] + n, p + 1)
  BY <1>2, <1>4 DEF Flow, PipeFlow
<1>6. Passed(f, p) = f[p] - 1 /\ held[p] \in Block /\ held[p] = Through(f[p], p + 1)
  BY <1>1 DEF Flow, HeldFlow, Passed
<1>7. /\ Len(Append(s, held[p])) = Len(s) + 1
      /\ Append(s, held[p])[Len(s) + 1] = held[p]
      /\ \A n \in 1 .. Len(s) : Append(s, held[p])[n] = s[n]
  BY <1>6, LastBlock
<1>8. /\ \A q \in Programs : q # p => held'[q] = held[q]
      /\ held'[p] = NoBlock
      /\ pipe'[p] = Append(s, held[p]) /\ \A k \in Pipes : k # p => pipe'[k] = pipe[k]
  BY <1>1, <1>2, <1>4
<1>9. Passed(f, p)' = f[p] /\ \A q \in Programs : q # p => Passed(f, q)' = Passed(f, q)
  BY <1>8 DEF Passed
<1>10. SourceFlow(f)' /\ HeldFlow(f)'
  BY <1>1, <1>8 DEF Flow, SourceFlow, HeldFlow
<1>11. \A k \in Pipes : k # p => PipeFlow(f, k)'
  BY <1>8, <1>9, Numbers DEF Flow, PipeFlow
<1>12. PipeFlow(f, p)'
  <2>1. Len(pipe'[p]) = Passed(f, p)' - f[p + 1]
    BY <1>3, <1>5, <1>6, <1>7, <1>8, <1>9
  <2>2. ASSUME NEW n \in 1 .. Len(Append(s, held[p]))
        PROVE  Append(s, held[p])[n] = Through(f[p + 1] + n, p + 1)
    <3>1. n \in 1 .. Len(s) \/ (n = Len(s) + 1 /\ f[p + 1] + n = f[p])
      BY <1>3, <1>5, <1>6, <1>7
    <3> QED
      BY <1>5, <1>6, <1>7, <3>1
  <2> QED
    BY <1>8, <2>1, <2>2 DEF PipeFlow
<1>13. FileFlow(f)'
  BY <1>1, <1>2, <1>9 DEF Flow, FileFlow
<1> QED
  BY <1>10, <1>11, <1>12, <1>13 DEF Flow

\* The last program writes a block to the file, over an old one or behind the last.
LEMMA FileWriteKeepsFlow ==
  ASSUME TypeOK, NEW f \in Reads, Flow(f), NEW p \in Programs, WriteFile(p)
  PROVE  \E g \in Reads : Flow(g)' /\ (\A q \in Programs : g[q] = f[q])
<1>1. /\ p = last /\ last \in Programs /\ last + 1 = ProgramNum /\ ProgramNum \in Nat
      /\ held[last] # NoBlock /\ UNCHANGED <<src, pipe>> /\ held \in [Programs -> Block]
      /\ held' = [held EXCEPT ![last] = NoBlock]
      /\ dst' = IF written < Len(dst) THEN [dst EXCEPT ![written + 1] = held[last]]
                                     ELSE Append(dst, held[last])
      /\ written' = written + 1
      /\ dst \in Seq(Block) /\ written \in Nat
  BY Numbers, ProgramAssumption DEF WriteFile, Writing, Holds, TypeOK, last
<1>2. /\ f[last] \in Nat /\ f[last] <= Blocks /\ f[ProgramNum] \in Nat
  BY <1>1, ReadsAreNumbers
<1>3. /\ Passed(f, last) = f[last] - 1 /\ held[last] \in Block
      /\ held[last] = Through(f[last], ProgramNum)
  BY <1>1 DEF Flow, HeldFlow, Passed
<1>4. /\ f[last] = f[ProgramNum] + 1 /\ written = f[ProgramNum] /\ written <= Len(dst)
      /\ \A n \in 1 .. written : dst[n] = Through(n, ProgramNum)
  BY <1>2, <1>3 DEF Flow, FileFlow
<1>5. PICK g \in Reads : g = [f EXCEPT ![ProgramNum] = @ + 1]
  <2>1. ProgramNum \in 0 .. ProgramNum /\ f[ProgramNum] + 1 <= Blocks
    BY <1>1, <1>2, <1>4
  <2> QED
    BY <2>1, ReadsGrow
<1>6. g[ProgramNum] = f[ProgramNum] + 1 /\ \A q \in Programs : g[q] = f[q]
  BY <1>1, <1>5 DEF Reads, Programs
<1>7. held'[last] = NoBlock /\ \A q \in Programs : q # last => held'[q] = held[q]
  BY <1>1
<1>8. Passed(g, last)' = f[last] /\ \A q \in Programs : q # last => Passed(g, q)' = Passed(f, q)
  BY <1>1, <1>6, <1>7 DEF Passed
<1>9. SourceFlow(g)'
  BY <1>1, <1>6, Numbers DEF Flow, SourceFlow
<1>10. HeldFlow(g)'
  BY <1>6, <1>7 DEF Flow, HeldFlow
<1>11. \A k \in Pipes : PipeFlow(g, k)'
  <2> SUFFICES ASSUME NEW k \in Pipes PROVE PipeFlow(g, k)'
    OBVIOUS
  <2>1. k \in Programs /\ k + 1 \in Programs /\ k # last
    BY Numbers
  <2>2. /\ pipe'[k] = pipe[k] /\ g[k + 1] = f[k + 1] /\ Passed(g, k)' = Passed(f, k)
        /\ PipeFlow(f, k)
    BY <1>1, <1>6, <1>8, <2>1 DEF Flow
  <2> QED
    BY <2>2 DEF PipeFlow
<1>12. FileFlow(g)'
  <2>1. written' <= Len(dst') /\ dst'[written'] = held[last]
        /\ \A n \in 1 .. written : dst'[n] = dst[n]
    <3>1. CASE written < Len(dst)
      BY <1>1, <3>1
    <3>2. CASE ~(written < Len(dst))
      <4>1. written = Len(dst) /\ dst' = Append(dst, held[last])
        BY <1>1, <1>4, <3>2
      <4> QED
        BY <1>1, <1>3, <4>1, LastBlock
    <3> QED
      BY <3>1, <3>2
  <2>2. \A n \in 1 .. written' : n \in 1 .. written \/ n = written'
    BY <1>1
  <2>3. \A n \in 1 .. written' : dst'[n] = Through(n, ProgramNum)
    BY <1>1, <1>3, <1>4, <2>1, <2>2
  <2> QED
    BY <1>1, <1>4, <1>6, <1>8, <2>1, <2>3 DEF FileFlow
<1> QED
  BY <1>6, <1>9, <1>10, <1>11, <1>12 DEF Flow

-----------------------------------------------------------------------------
(* The invariant *)

\* Nothing has been read or forked.
LEMMA InitPipeInv == Init => PipeInv
<1> SUFFICES ASSUME Init PROVE PipeInv
  OBVIOUS
<1> USE DEF Init
<1>1. TypeOK
  <2>1. \A n \in 1 .. Blocks : <<n>> \o << >> \in Block
    BY DEF Block
  <2>2. src \in Seq(Block)
    BY <2>1, PipeAssumption DEF File
  <2>3. dst \in Seq(Block)
    BY PipeAssumption DEF OldBlock, Block
  <2>4. held \in [Programs -> Block] /\ pipe \in [Pipes -> Seq(Block)]
    BY DEF NoBlock, Block
  <2>5. handling \in BOOLEAN /\ sigchld \in BOOLEAN
    OBVIOUS
  <2>6. child \in [Programs -> ChildStates] /\ open \in [Processes -> SUBSET Ends]
    BY DEF ChildStates
  <2>7. pc \in Labels /\ cs \in 0 .. ProgramNum /\ written \in Nat /\ faults \in Nat
    BY ProgramAssumption DEF Labels
  <2> QED
    BY <2>2, <2>3, <2>4, <2>5, <2>6, <2>7 DEF TypeOK
<1>2. \A p \in Programs : ~Ended(p) /\ ~Alive(p) /\ child[p] = "none" /\ ~Forked(p)
  BY Numbers DEF Ended, Alive, Forked
<1>3. LoopOK /\ ChildrenForked /\ EndInOrder /\ AllReaped
  BY <1>2, Numbers DEF LoopOK, ChildrenForked, EndInOrder, AllReaped
<1>4. MonitorEnds /\ ChildEnds
  BY <1>2, Numbers DEF MonitorEnds, ChildEnds, Pipes
<1>5. DataFlows
  <2>1. PICK f \in Reads : f = [p \in 0 .. ProgramNum |-> 0]
    <3>1. 0 \in 0 .. Blocks
      BY PipeAssumption
    <3> QED
      BY <3>1 DEF Reads
  <2>2. \A p \in 0 .. ProgramNum : f[p] = 0
    BY <2>1
  <2>3. \A p \in Programs : held[p] = NoBlock /\ p \in 0 .. ProgramNum /\ p + 1 \in 0 .. ProgramNum
    BY ProgramAssumption DEF Programs
  <2>4. Len(src) = Blocks /\ \A n \in 1 .. Blocks : src[n] = <<n>>
    BY PipeAssumption DEF File
  <2>5. SourceFlow(f)
    <3>1. f[0] = 0 /\ \A n \in 1 .. Blocks : f[0] + n = n /\ n \in Int
      BY <2>2, ProgramAssumption
    <3>2. \A n \in 1 .. Blocks : Through(f[0] + n, 0) = <<n>>
      BY <3>1, ThroughGrows
    <3>3. Len(src) = Blocks - f[0]
      BY <2>4, <3>1, PipeAssumption
    <3> QED
      BY <2>4, <3>2, <3>3 DEF SourceFlow
  <2>6. HeldFlow(f)
    BY <2>3 DEF HeldFlow
  <2>7. ASSUME NEW k \in Pipes PROVE PipeFlow(f, k)
    <3>1. k \in Programs /\ f[k] = 0 /\ f[k + 1] = 0 /\ held[k] = NoBlock
      BY <2>2, <2>3, Numbers
    <3>2. pipe[k] = << >> /\ Len(pipe[k]) = 0
      OBVIOUS
    <3> QED
      BY <3>1, <3>2 DEF PipeFlow, Passed
  <2>8. FileFlow(f)
    <3>1. f[last] = 0 /\ f[ProgramNum] = 0 /\ held[last] = NoBlock
      BY <2>2, <2>3, Numbers, ProgramAssumption
    <3>2. written = 0
      OBVIOUS
    <3> HIDE DEF Init
    <3>3. 0 <= Len(dst)
      BY <1>1 DEF TypeOK
    <3> QED
      BY <3>1, <3>2, <3>3 DEF FileFlow, Passed
  <2> QED
    BY <1>2, <2>5, <2>6, <2>7, <2>8 DEF DataFlows, Flow, Drained
<1> QED
  BY <1>1, <1>3, <1>4, <1>5 DEF PipeInv, EndsInv

\* The steps of the monitor keep the invariant.
LEMMA MonitorKeepsInv ==
  ASSUME PipeInv, MonitorStep \/ MonitorFails \/ SigChild \/ SigChildReturns
  PROVE  PipeInv'
<1> USE DEF PipeInv, EndsInv
<1>1. TypeOK'
  BY MonitorKeepsTypes
<1>2. EndsParts'
  <2>1. CASE Pipe \/ Fork \/ CloseWriteEnd \/ CloseReadEnd \/ MonitorFails
    BY <2>1, LoopKeepsEnds
  <2>2. CASE Wait
    BY <2>2, ReapKeepsEnds DEF Wait, At
  <2>3. CASE SigChild
    BY <2>3, QuietKeepsEnds DEF SigChild
  <2>4. CASE SigChildReturns
    BY <2>4, ReapKeepsEnds DEF SigChildReturns
  <2> QED
    BY <2>1, <2>2, <2>3, <2>4 DEF MonitorStep
<1>3. \/ UNCHANGED child \/ \E p \in Programs : Reaps(p)
      \/ pc = "fork" /\ child' = [child EXCEPT ![cs] = "forked"]
  BY DEF MonitorStep, MonitorFails, SigChild, SigChildReturns,
         Pipe, Fork, CloseWriteEnd, CloseReadEnd, Wait, At
<1>4. UNCHANGED dataVars /\ (faults' = 0 => faults = 0)
  BY DEF MonitorStep, MonitorFails, SigChild, SigChildReturns,
         Pipe, Fork, CloseWriteEnd, CloseReadEnd, Wait, TypeOK
<1>5. DataFlows'
  <2>1. PICK f \in Reads : Flow(f) /\ (faults = 0 => Drained(f))
    BY DEF DataFlows
  <2>2. Flow(f)'
    BY <1>4, <2>1 DEF Flow, SourceFlow, HeldFlow, PipeFlow, FileFlow, Passed, dataVars
  <2>3. \A p \in Programs : Ended(p)' => Ended(p)
    BY <1>3 DEF Ended, Reaps, TypeOK
  <2> QED
    BY <1>4, <2>1, <2>2, <2>3 DEF DataFlows, Drained, dataVars
<1>6. AllReaped'
  <2> SUFFICES ASSUME pc' = "done" PROVE NoChildren'
    BY DEF AllReaped
  <2>1. NoChildren /\ pc # "fork"
    BY DEF MonitorStep, MonitorFails, SigChild, SigChildReturns, AllReaped,
           Pipe, Fork, CloseWriteEnd, CloseReadEnd, Wait, At
  <2>2. UNCHANGED child
    BY <1>3, <2>1 DEF NoChildren, Reaps
  <2> QED
    BY <2>1, <2>2 DEF NoChildren
<1> QED
  BY <1>1, <1>2, <1>5, <1>6 DEF EndsParts

\* A program that reads or writes is not over.
LEMMA FlowKeepsDataFlows ==
  ASSUME TypeOK, NEW p \in Programs, child[p] = "running",
         NEW f \in Reads, faults = 0 => Drained(f),
         NEW g \in Reads, Flow(g)', \A q \in Programs : q # p => g[q] = f[q],
         UNCHANGED <<child, faults>>, \A q \in Programs : q # p => held'[q] = held[q]
  PROVE  DataFlows'
<1>1. faults' = 0 => Drained(g)'
  BY DEF Drained, Ended
<1> QED
  BY <1>1 DEF DataFlows

\* The steps of a child keep the invariant.
LEMMA ChildKeepsInv ==
  ASSUME PipeInv, NEW p \in Programs, ChildStep(p) \/ ChildFails(p)
  PROVE  PipeInv'
<1> USE DEF PipeInv, EndsInv
<1>1. TypeOK'
  BY ChildKeepsTypes
<1>2. AllReaped'
  <2>1. Alive(p)
    BY DEF ChildStep, ChildFails, CloseOwnReadEnd, Exec, ReadSource, ReadPipe, ReadsEndOfFile,
           WriteFile, WritePipe, BreaksPipe, Idle, Writing, Alive
  <2>2. ~NoChildren /\ pc' = pc
    BY <2>1 DEF ChildStep, ChildFails, CloseOwnReadEnd, Exec, ReadSource, ReadPipe, ReadsEndOfFile,
           WriteFile, WritePipe, BreaksPipe, monitorVars, NoChildren, Alive
  <2> QED
    BY <2>2 DEF AllReaped
<1>3. PICK f \in Reads : Flow(f) /\ (faults = 0 => Drained(f))
  BY DEF DataFlows
\* The child changes its own state only, and the data not at all.
<1>5. ASSUME UNCHANGED dataVars, faults' = 0 => faults = 0,
             \A q \in Programs : Ended(q)' => Ended(q) \/ (faults' = 0 => f[q] = Blocks /\ held[q] = NoBlock)
      PROVE  DataFlows'
  <2>1. Flow(f)'
    BY <1>3, <1>5 DEF Flow, SourceFlow, HeldFlow, PipeFlow, FileFlow, Passed, dataVars
  <2>2. faults' = 0 => Drained(f)'
    BY <1>3, <1>5 DEF Drained, dataVars
  <2> QED
    BY <2>1, <2>2 DEF DataFlows
<1>6. CASE CloseOwnReadEnd(p)
  <2>1. /\ UNCHANGED <<pc, cs, faults>> /\ child[p] = "forked" /\ child'[p] = "opening"
        /\ open'[p] = open[p] \ {READ_END(p)} /\ open'[monitor] = open[monitor]
        /\ \A q \in Programs \ {p} : child'[q] = child[q] /\ open'[q] = open[q]
    BY <1>6, Numbers DEF CloseOwnReadEnd, Closes, TypeOK, monitorVars
  <2>2. \A q \in Programs : (Ended(q)' <=> Ended(q)) /\ (Alive(q)' <=> Alive(q))
                            /\ (child'[q] = "none" <=> child[q] = "none")
    BY <2>1 DEF Ended, Alive
  <2>3. LoopOK' /\ ChildrenForked' /\ MonitorEnds'
    BY <2>1, <2>2 DEF LoopOK, ChildrenForked, Forked, MonitorEnds
  <2>4. EndInOrder'
    BY <2>1, <2>2, Numbers DEF EndInOrder
  <2>5. ChildEnds'
    BY <2>1, <2>2, Numbers, EndsDiffer DEF ChildEnds, Pipes, Programs
  <2>6. DataFlows'
    BY <1>5, <1>6, <2>2 DEF CloseOwnReadEnd
  <2> QED
    BY <1>1, <1>2, <2>3, <2>4, <2>5, <2>6
<1>7. CASE Exec(p)
  <2>1. /\ UNCHANGED <<pc, cs, faults, open>> /\ child[p] = "opening" /\ child'[p] = "running"
        /\ \A q \in Programs \ {p} : child'[q] = child[q]
    BY <1>7 DEF Exec, TypeOK, monitorVars
  <2>2. \A q \in Programs : (Ended(q)' <=> Ended(q)) /\ (Alive(q)' <=> Alive(q))
                            /\ (child'[q] = "none" <=> child[q] = "none")
                            /\ (child'[q] = "forked" <=> child[q] = "forked")
    BY <2>1 DEF Ended, Alive
  <2>3. LoopOK' /\ ChildrenForked' /\ MonitorEnds' /\ ChildEnds'
    BY <2>1, <2>2 DEF LoopOK, ChildrenForked, Forked, MonitorEnds, ChildEnds
  <2>4. EndInOrder'
    BY <2>1, <2>2, Numbers DEF EndInOrder
  <2>5. DataFlows'
    BY <1>5, <1>7, <2>2 DEF Exec
  <2> QED
    BY <1>1, <1>2, <2>3, <2>4, <2>5
<1>8. CASE ReadSource(p)
  <2>1. PICK g \in Reads : Flow(g)' /\ (\A q \in Programs : q # p => g[q] = f[q])
    BY <1>3, <1>8, SourceKeepsFlow
  <2>2. DataFlows'
    BY <1>3, <1>8, <2>1, FlowKeepsDataFlows DEF ReadSource, Idle, Holds, TypeOK
  <2>3. EndsParts'
    BY <1>8, QuietKeepsEnds DEF ReadSource, monitorVars
  <2> QED
    BY <1>1, <1>2, <2>2, <2>3 DEF EndsParts
<1>9. CASE ReadPipe(p)
  <2>1. PICK g \in Reads : Flow(g)' /\ (\A q \in Programs : q # p => g[q] = f[q])
    BY <1>3, <1>9, PipeReadKeepsFlow
  <2>2. DataFlows'
    BY <1>3, <1>9, <2>1, FlowKeepsDataFlows DEF ReadPipe, Idle, Holds, TypeOK
  <2>3. EndsParts'
    BY <1>9, QuietKeepsEnds DEF ReadPipe, monitorVars
  <2> QED
    BY <1>1, <1>2, <2>2, <2>3 DEF EndsParts
<1>10. CASE WriteFile(p)
  <2>1. PICK g \in Reads : Flow(g)' /\ (\A q \in Programs : g[q] = f[q])
    BY <1>3, <1>10, FileWriteKeepsFlow
  <2>2. DataFlows'
    BY <1>3, <1>10, <2>1, FlowKeepsDataFlows DEF WriteFile, Writing, Holds, TypeOK
  <2>3. EndsParts'
    BY <1>10, QuietKeepsEnds DEF WriteFile, monitorVars
  <2> QED
    BY <1>1, <1>2, <2>2, <2>3 DEF EndsParts
<1>11. CASE WritePipe(p)
  <2>1. Flow(f)'
    BY <1>3, <1>11, PipeWriteKeepsFlow
  <2>2. DataFlows'
    BY <1>3, <1>11, <2>1, FlowKeepsDataFlows DEF WritePipe, Writing, Holds, TypeOK
  <2>3. EndsParts'
    BY <1>11, QuietKeepsEnds DEF WritePipe, monitorVars
  <2> QED
    BY <1>1, <1>2, <2>2, <2>3 DEF EndsParts
<1>12. CASE ReadsEndOfFile(p)
  <2>1. child[p] = "running" /\ held[p] = NoBlock /\ Empty(p) /\ UNCHANGED <<pc, cs, dataVars, faults>>
        /\ Terminates(p) /\ faults \in Nat
    BY <1>12 DEF ReadsEndOfFile, Idle, monitorVars, TypeOK
  <2>2. p # 0 => Ended(p - 1) /\ pipe[p - 1] = << >> /\ p - 1 \in Pipes
    BY <2>1, EndOfInput
  <2>3. EndsParts'
    BY <2>1, <2>2, EndKeepsEnds DEF Alive
  <2>4. faults = 0 => f[p] = Blocks
    <3> SUFFICES ASSUME faults = 0 PROVE f[p] = Blocks
      OBVIOUS
    <3>1. f[p] \in Nat /\ Blocks \in Nat
      BY ReadsAreNumbers, PipeAssumption
    <3>2. CASE p = 0
      BY <1>3, <2>1, <3>1, <3>2 DEF Empty, Flow, SourceFlow
    <3>3. CASE p # 0
      <4>1. PICK j \in Pipes : j = p - 1
        BY <2>2, <3>3
      <4>2. j \in Programs /\ j + 1 = p
        BY <4>1, Numbers DEF Programs
      <4>3. Passed(f, j) = Blocks
        BY <1>3, <2>2, <3>3, <4>1, <4>2 DEF Drained, Passed
      <4>4. 0 = Passed(f, j) - f[j + 1]
        BY <1>3, <2>2, <3>3, <4>1 DEF Flow, PipeFlow
      <4> QED
        BY <3>1, <4>2, <4>3, <4>4
    <3> QED
      BY <3>2, <3>3
  <2>5. \A q \in Programs : Ended(q)' => Ended(q) \/ q = p
    BY <2>1 DEF Terminates, Ended, TypeOK
  <2>6. DataFlows'
    BY <1>5, <2>1, <2>4, <2>5
  <2> QED
    BY <1>1, <1>2, <2>3, <2>6 DEF EndsParts
<1>13. CASE BreaksPipe(p) \/ ChildFails(p)
  <2>1. /\ UNCHANGED <<pc, cs, dataVars>> /\ Terminates(p) /\ Alive(p)
        /\ faults' \in Nat /\ faults <= faults' /\ faults' # 0
    <3>1. CASE ChildFails(p)
      BY <3>1 DEF ChildFails, monitorVars, Alive, TypeOK
    <3>2. CASE BreaksPipe(p)
      <4>1. faults # 0
        BY <3>2, ReaderThere DEF BreaksPipe, Writing
      <4> QED
        BY <3>2, <4>1 DEF BreaksPipe, Writing, monitorVars, Alive, TypeOK
    <3> QED
      BY <1>13, <3>1, <3>2
  <2>2. EndsParts'
    BY <2>1, EndKeepsEnds
  <2>3. DataFlows'
    BY <1>5, <2>1
  <2> QED
    BY <1>1, <1>2, <2>2, <2>3 DEF EndsParts
<1> QED
  BY <1>6, <1>7, <1>8, <1>9, <1>10, <1>11, <1>12, <1>13 DEF ChildStep

\* Every step keeps the invariant.
LEMMA NextPipeInv == PipeInv /\ [Next]_vars => PipeInv'
<1> SUFFICES ASSUME PipeInv, [Next]_vars PROVE PipeInv'
  OBVIOUS
<1>1. CASE MonitorStep \/ MonitorFails \/ SigChild \/ SigChildReturns
  BY <1>1, MonitorKeepsInv
<1>2. CASE \E p \in Programs : ChildStep(p) \/ ChildFails(p)
  BY <1>2, ChildKeepsInv
<1>3. CASE UNCHANGED vars
  <2>1. TypeOK' /\ AllReaped'
    BY <1>3 DEF PipeInv, EndsInv, TypeOK, AllReaped, NoChildren, vars, monitorVars, dataVars
  <2>2. EndsParts'
    BY <1>3, QuietKeepsEnds DEF PipeInv, vars, monitorVars
  <2>3. PICK f \in Reads : Flow(f) /\ (faults = 0 => Drained(f))
    BY DEF PipeInv, DataFlows
  <2>4. Flow(f)' /\ (faults' = 0 => Drained(f)')
    BY <1>3, <2>3 DEF Flow, SourceFlow, HeldFlow, PipeFlow, FileFlow, Passed, Drained, Ended,
                      vars, dataVars
  <2> QED
    BY <2>1, <2>2, <2>4 DEF PipeInv, EndsInv, EndsParts, DataFlows
<1> QED
  BY <1>1, <1>2, <1>3 DEF Next

\* The invariant holds in every reachable state.
LEMMA PipeInvAlways == Spec => []PipeInv
  BY InitPipeInv, NextPipeInv, PTL DEF Spec

-----------------------------------------------------------------------------
(* Theorems *)

\* No transformation is killed by SIGPIPE while nothing fails: pipe_progs closes
\* the monitor's copies of the ends neither too early nor on the wrong side.
THEOREM NoPipeBreaks == Spec => []NoBrokenPipe
<1>1. PipeInv => NoBrokenPipe
  BY ReaderThere DEF PipeInv, NoBrokenPipe, Writing
<1> QED
  BY <1>1, PipeInvAlways, PTL

\* When pipe_progs returns all the children that it forked have been waited for,
\* and, if nothing failed, dst begins with the whole of src transformed in order.
THEOREM CompletedIsComplete == Spec => []CompletedMeansComplete
<1>1. ASSUME PipeInv PROVE CompletedMeansComplete
  <2> SUFFICES ASSUME pc = "done"
               PROVE  /\ NoChildren
                      /\ faults = 0 =>
                           /\ written = Blocks
                           /\ SubSeq(dst, 1, written) = File([p \in 1 .. ProgramNum |-> p - 1])
    BY DEF CompletedMeansComplete
  <2> USE <1>1 DEF PipeInv, EndsInv
  <2>1. NoChildren
    BY DEF AllReaped
  <2>2. last \in Programs /\ Ended(last)
    BY <2>1, Numbers DEF LoopOK, ChildrenForked, Forked, NoChildren, Ended
  <2>3. PICK f \in Reads : Flow(f) /\ (faults = 0 => Drained(f))
    BY DEF DataFlows
  <2>4. ASSUME faults = 0
        PROVE  /\ written = Blocks
               /\ SubSeq(dst, 1, written) = File([p \in 1 .. ProgramNum |-> p - 1])
    <3>1. written = Blocks
      BY <2>2, <2>3, <2>4 DEF Drained, Flow, FileFlow, Passed
    <3>2. dst \in Seq(Block) /\ written <= Len(dst) /\ written \in Nat
          /\ \A n \in 1 .. written : dst[n] = Through(n, ProgramNum)
      BY <2>3 DEF Flow, FileFlow, TypeOK
    <3>3. SubSeq(dst, 1, written) = [n \in 1 .. written |-> dst[n]]
      BY <3>2
    <3> QED
      BY <3>1, <3>2, <3>3 DEF File, Through
  <2> QED
    BY <2>1, <2>4
<1> QED
  BY <1>1, PipeInvAlways, PTL

=============================================================================
