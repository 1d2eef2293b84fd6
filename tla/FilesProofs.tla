----------------------------- MODULE FilesProofs -----------------------------
(***************************************************************************)
(* Safety of the collector, of the log and of update_conf, for any count,  *)
(* any finite number of programs and any values of netseg.  Each has an    *)
(* inductive invariant of its own (ColInv, LogInv, CnfInv), and a last     *)
(* part shows that a behaviour of Files is one of each.                    *)
(***************************************************************************)
EXTENDS Files, FiniteSetTheorems, SequenceTheorems, WellFoundedInduction, TLAPS

-----------------------------------------------------------------------------
(* Collection.  What may still be appended depends on the counter in a     *)
(* quadratic way: between a load and a store of the thread, the main       *)
(* thread may count all the way down, after which the store sets the       *)
(* counter back to one less than was loaded.                               *)
Sq(x) == x * (x - 1)
Budget == N * (N + 1)

(* With l blocks appended and m the number the main thread is about to     *)
(* count down, there is room for those it appends on its own (Sq(m) / 2),  *)
(* and for those before and after the thread sets the counter back to      *)
(* t - 1.                                                                  *)
Room(l, m, t) ==
    /\ 2 * l + Sq(m) <= Budget
    /\ 2 * l + 2 * (m - 1) + Sq(t) <= Budget

(* The number each thread counts down next.                                *)
ThreadHas == IF tpc = "store" THEN tload ELSE count
MainHas == IF mpc = "store" THEN mload ELSE count

(* A block that is certain to be appended is counted before it is.         *)
ColRoom ==
    /\ mpc \in {"load", "store"} => Room(len, MainHas, ThreadHas)
    /\ mpc \in {"copy", "len"} => Room(len + 1, count, ThreadHas)
    /\ mpc \in {"poll", "check", "join", "done"} =>
          /\ count > 0 => Room(len + 1, count, ThreadHas)
          /\ 2 * len + (IF tpc = "store" THEN Sq(tload) ELSE 0) <= Budget

ColInv ==
    /\ Col!TypeOK /\ Col!LoggedWasCopied
    /\ copied = IF mpc = "len" THEN len + 1 ELSE len
    /\ tpc = "open" => count = 0 /\ len = 0 /\ mpc = "poll"
    /\ ~wrapped => mpc # "overrun" /\ ColRoom

(* What is used of Sq, which the prover need not multiply out again.       *)
LEMMA SqFacts ==
    /\ \A x \in Nat : Sq(x) \in Nat /\ Sq(x + 1) = Sq(x) + 2 * x
    /\ \A x, y \in Nat : x <= y => Sq(x) <= Sq(y)
    /\ Budget \in Nat /\ Budget = Sq(N) + 2 * N
<1>1. ASSUME NEW x \in Nat PROVE Sq(x) \in Nat /\ Sq(x + 1) = Sq(x) + 2 * x
  BY <1>1 DEF Sq
<1>2. ASSUME NEW x \in Nat, NEW y \in Nat, x <= y PROVE Sq(x) <= Sq(y)
  BY <1>2 DEF Sq
<1>3. Budget \in Nat /\ Budget = Sq(N) + 2 * N
  BY FilesAssumptions DEF Col!CollectAssumption, Budget, Sq
<1> QED BY <1>1, <1>2, <1>3

(* Nothing was collected.                                                  *)
LEMMA ColInit == Col!Init => ColInv
<1> SUFFICES ASSUME Col!Init PROVE ColInv
  OBVIOUS
<1>1. N \in Nat \ {0} /\ DataBlocks \in Nat /\ 2 ^ WIDTH \in Nat /\ N < 2 ^ WIDTH
  BY FilesAssumptions DEF Col!CollectAssumption
<1>2. Col!TypeOK
  <2>1. wrapped \in BOOLEAN
    BY DEF Col!Init
  <2>2. 0 \in 0 .. 2 ^ WIDTH - 1 /\ 0 \in 0 .. DataBlocks
    BY <1>1
  <2> QED BY <2>1, <2>2 DEF Col!Init, Col!TypeOK
<1>3. ColRoom
  BY SqFacts DEF Col!Init, ColRoom
<1> QED BY <1>2, <1>3 DEF Col!Init, ColInv, Col!LoggedWasCopied

(* Each statement of the two threads.                                      *)
LEMMA ColStep ==
    ASSUME ColInv, [Col!Next]_(Col!vars)
    PROVE  ColInv'
<1> USE DEF ColInv, Col!TypeOK, Col!LoggedWasCopied, ColRoom, Room, ThreadHas, MainHas,
            Col!shared, Col!thread, Col!main
<1>a. /\ N \in Nat \ {0} /\ DataBlocks \in Nat /\ 2 ^ WIDTH \in Nat /\ N < 2 ^ WIDTH
      /\ Budget \in Nat /\ Budget <= 2 * DataBlocks
      /\ count \in Nat /\ len \in Nat /\ tload \in Nat /\ mload \in Nat
  BY FilesAssumptions DEF Col!CollectAssumption, Budget
<1>1. CASE UNCHANGED Col!vars
  BY <1>1 DEF Col!vars
<1>2. CASE Col!Runs /\ Col!Open
  <2>1. count' = N => Sq(N) \in Nat /\ 2 * 1 + 2 * (N - 1) + Sq(N) = Budget
    BY <1>a, SqFacts
  <2>2. /\ tpc = "open" /\ mpc = "poll" /\ len = 0 /\ count = 0
        /\ \/ tpc' = "loop" /\ count' = N
           \/ tpc' = "done" /\ count' = count
        /\ UNCHANGED <<len, copied, tload, logged, mpc, mload, wrapped>>
    BY <1>2 DEF Col!Open
  <2>3. Sq(N) \in Nat /\ Budget = Sq(N) + 2 * N
    BY <1>a, SqFacts
  <2>4. CASE tpc' = "loop" /\ count' = N
    <3>1. ColRoom'
      BY <1>a, <2>1, <2>2, <2>3, <2>4
    <3> QED BY <1>a, <2>2, <2>4, <3>1
  <2>5. CASE tpc' = "done" /\ count' = count
    <3>1. ColRoom'
      BY <1>a, <2>2, <2>5
    <3> QED BY <1>a, <2>2, <2>5, <3>1
  <2> QED BY <2>2, <2>4, <2>5
<1>3. CASE Col!Runs /\ (Col!Loop \/ Col!Wake \/ Col!Check \/ Col!collectNoise)
  BY <1>3, <1>a DEF Col!Loop, Col!Wake, Col!Check, Col!collectNoise, Col!Runs
<1>4. CASE Col!Runs /\ Col!Load
  <2>1. /\ tpc = "load" /\ tpc' = "store" /\ tload' = count
        /\ UNCHANGED <<count, len, copied, logged, mpc, mload, wrapped>>
    BY <1>4 DEF Col!Load
  <2>2. Sq(count) \in Nat /\ (count = 0 => Sq(count) = 0)
    BY <1>a, SqFacts DEF Sq
  <2>3. count \in Nat
    BY <1>a
  <2>4. ColRoom => ColRoom'
    BY <2>1, <2>2, <1>a
  <2>5. (Col!TypeOK /\ Col!LoggedWasCopied)'
    BY <2>1
  <2>6. (copied = IF mpc = "len" THEN len + 1 ELSE len)' /\ tpc' # "open"
    BY <2>1
  <2> QED BY <2>1, <2>4, <2>5, <2>6
<1>5. CASE Col!Runs /\ Col!Store
  <2>1. /\ tpc = "store" /\ tpc' = "check" /\ count' \in 0 .. 2 ^ WIDTH - 1
        /\ UNCHANGED <<len, copied, tload, logged, mpc, mload>>
        /\ tload # 0 => count' = tload - 1
    BY <1>5, <1>a DEF Col!Store, Col!Minus1
  <2>2. wrapped' \in BOOLEAN /\ (~wrapped' => ~wrapped /\ tload # 0)
    BY <1>5, Zenon DEF Col!Store
  <2>3. CASE wrapped'
    BY <2>1, <2>2, <2>3
  <2>4. CASE ~wrapped'
    <3>1. tload \in Nat /\ tload - 1 \in Nat /\ tload - 1 + 1 = tload /\ count \in Nat
      BY <2>1, <2>2, <2>4, <1>a
    <3>2. /\ Sq(tload) = Sq(tload - 1) + 2 * (tload - 1)
          /\ Sq(tload - 1) \in Nat /\ Sq(tload) \in Nat
      BY <3>1, SqFacts
    <3>3. ColRoom /\ count' = tload - 1
      BY <2>1, <2>2, <2>4
    <3>4. ColRoom'
      <4>1. CASE mpc = "store"
        BY <2>1, <3>1, <3>2, <3>3, <4>1, <1>a
      <4>2. CASE mpc \in {"load", "copy", "len"}
        <5>1. Sq(count) \in Nat
          BY <3>1, SqFacts
        <5> QED BY <2>1, <3>1, <3>2, <3>3, <4>2, <5>1, <1>a
      <4>3. CASE mpc \in {"poll", "check", "join", "done"}
        BY <2>1, <3>1, <3>2, <3>3, <4>3, <1>a
      <4> QED BY <2>2, <2>4, <4>1, <4>2, <4>3
    <3> QED BY <2>1, <2>2, <2>4, <3>4
  <2> QED BY <2>3, <2>4
<1>6. CASE Col!Runs /\ Col!MainPolls
  BY <1>6, <1>a, SqFacts DEF Col!MainPolls, Col!After, Col!Runs
<1>7. CASE Col!Runs /\ Col!MainCopies
  <2>1. CASE len < DataBlocks
    <3>1. copied' = len + 1 /\ mpc' = "len" /\ copied' \in 0 .. DataBlocks /\ mpc = "copy"
      BY <1>7, <1>a, <2>1 DEF Col!MainCopies, Col!After
    <3>2. UNCHANGED <<count, len, tpc, tload, logged, mload, wrapped>>
      BY <1>7 DEF Col!MainCopies
    <3>3. ColRoom => ColRoom'
      BY <3>1, <3>2, <1>a
    <3>4. Col!TypeOK' /\ Col!LoggedWasCopied'
      <4>1. Col!TypeOK'
        BY <3>1, <3>2
      <4>2. logged <= copied' /\ len <= copied'
        <5>1. logged <= copied /\ copied \in Nat /\ copied' = len + 1 /\ copied = len
              /\ logged \in Nat
          BY <3>1, <1>a
        <5> QED BY <5>1, <1>a
      <4> QED BY <3>2, <4>1, <4>2
    <3>5. (copied = IF mpc = "len" THEN len + 1 ELSE len)' /\ mpc' # "overrun" /\ tpc # "open"
      BY <3>1, <3>2
    <3> QED BY <3>2, <3>3, <3>4, <3>5
  <2>2. CASE ~(len < DataBlocks)
    <3>1. Sq(count) \in Nat /\ 2 * (len + 1) + Sq(count) <= Budget => len < DataBlocks
      <4>1. Sq(count) \in Nat
        BY <1>a, SqFacts
      <4> QED BY <4>1, <1>a, SqFacts
    <3>2. wrapped /\ mpc = "copy"
      BY <1>7, <1>a, <2>2, <3>1, SqFacts DEF Col!MainCopies
    <3> QED BY <1>7, <2>2, <3>2 DEF Col!MainCopies
  <2> QED BY <2>1, <2>2
<1>8. CASE Col!Runs /\ Col!MainAddsLen
  BY <1>8, <1>a, SqFacts DEF Col!MainAddsLen, Col!After, Col!Runs
<1>9. CASE Col!Runs /\ Col!MainLoads
  BY <1>9, <1>a, SqFacts DEF Col!MainLoads, Col!Runs
<1>10. CASE Col!Runs /\ Col!MainStores
  <2>1. /\ mpc = "store" /\ mpc' = "check" /\ count' \in 0 .. 2 ^ WIDTH - 1
        /\ UNCHANGED <<len, copied, tpc, tload, logged, mload>>
        /\ mload # 0 => count' = mload - 1
    BY <1>10, <1>a DEF Col!MainStores, Col!Minus1
  <2>0. wrapped' \in BOOLEAN /\ (~wrapped' => ~wrapped /\ mload # 0)
    BY <1>10, Zenon DEF Col!MainStores
  <2>2. CASE wrapped'
    BY <2>0, <2>1, <2>2
  <2>3. CASE ~wrapped'
    <3>1. mload - 1 \in Nat /\ Sq(mload) = Sq(mload - 1) + 2 * (mload - 1)
      <4>1. mload - 1 \in Nat /\ mload - 1 + 1 = mload
        BY <2>0, <2>3, <1>a
      <4> QED BY <4>1, SqFacts
    <3>2. /\ Sq(mload - 1) \in Nat /\ Sq(tload) \in Nat /\ Sq(mload) \in Nat
          /\ count \in Nat /\ tload \in Nat
      BY <3>1, <1>a, SqFacts
    <3>3. /\ 2 * len + Sq(mload) <= Budget
          /\ 2 * len + 2 * (mload - 1) + (IF tpc = "store" THEN Sq(tload) ELSE 0) <= Budget
      <4>1. Sq(ThreadHas) \in Nat
        BY <3>2, SqFacts
      <4> QED BY <2>0, <2>1, <2>3, <3>1, <3>2, <4>1, <1>a
    <3>4. ColRoom'
      BY <2>0, <2>1, <2>3, <3>1, <3>2, <3>3, <1>a
    <3> QED BY <2>0, <2>1, <2>3, <3>4
  <2> QED BY <2>2, <2>3
<1>11. CASE Col!Runs /\ (Col!MainChecks \/ Col!MainJoins)
  <2>1. CASE Col!MainChecks
    <3>1. /\ mpc = "check" /\ mpc' \in {"join", "poll"} /\ wrapped' = wrapped
          /\ UNCHANGED <<count, len, copied, tpc, tload, logged, mload>>
      BY <2>1 DEF Col!MainChecks
    <3> QED BY <3>1, <1>a
  <2>2. CASE Col!MainJoins
    <3>1. /\ mpc = "join" /\ mpc' = "done" /\ wrapped' = wrapped
          /\ UNCHANGED <<count, len, copied, tpc, tload, logged, mload>>
      BY <2>2 DEF Col!MainJoins
    <3> QED BY <3>1, <1>a
  <2> QED BY <1>11, <2>1, <2>2
<1> QED BY <1>1, <1>2, <1>3, <1>4, <1>5, <1>6, <1>7, <1>8, <1>9, <1>10, <1>11
        DEF Col!Next, Col!Thread, Col!Main

-----------------------------------------------------------------------------
(* Log.  The programs that will add a line to a file without looking at    *)
(* its size: those that have it open, and for debug.log those on their way *)
(* to opening it a second time.                                            *)
Writers(f) == {p \in Programs : pc[p] = "write" /\ fp[p] = f}
Reopeners == {p \in Programs : pc[p] = "reopen"}
Busy == {p \in Programs : pc[p] \in {"close", "move", "reopen", "write"}}
MostLines == Limit - 1 + Cardinality(Programs)

Fails == 0 .. MaxUnmoved

LogType ==
    /\ files \in Nat /\ written \in Nat /\ young \in BOOLEAN /\ astray \in BOOLEAN
    /\ log \in [file : 0 .. files, lines : Seq(1 .. written), unmoved : Fails]
    /\ bak \in [file : 0 .. files, lines : Seq(1 .. written), unmoved : Fails]
    /\ log.file = 0 => log.lines = <<>> /\ log.unmoved = 0
    /\ bak.file = 0 => bak.lines = <<>>
    /\ log.file # 0 => log.file # bak.file
    /\ pc \in [Programs -> {"idle", "close", "move", "reopen", "write", "crashed"}]
    /\ fp \in [Programs -> 0 .. files]
    /\ \A p \in Programs : pc[p] = "write" => fp[p] # 0
    /\ descriptors \in [Programs -> Int] /\ leaked \in [Programs -> Int]
    /\ gLogF \in [Programs -> BOOLEAN]

LogCounts ==
    /\ Len(log.lines) + Cardinality(Writers(log.file) \cup Reopeners) <= MostLines + log.unmoved
    /\ Len(bak.lines) + Cardinality(Writers(bak.file)) <= MostLines + bak.unmoved
    /\ written + Cardinality(Busy) <= MaxLines + Cardinality(Programs)

(* As long as nothing happened that is said to lose lines, the backup and  *)
(* the log hold the last lines in a row, all of them if there is no backup *)
(* and Limit of them in the backup if there is one.                        *)
LogRow ==
    ~young /\ ~astray =>
        /\ \A n \in 1 .. Len(log.lines) : log.lines[n] = written - Len(log.lines) + n
        /\ \A n \in 1 .. Len(bak.lines) :
              bak.lines[n] = written - Len(log.lines) - Len(bak.lines) + n
        /\ bak.file = 0 => written = Len(log.lines)
        /\ bak.file # 0 => Len(bak.lines) >= Limit

LogInv == LogType /\ LogCounts /\ LogRow /\ Log!DescriptorsAccounted

(* What a set of programs counts.                                          *)
LEMMA Counted ==
    ASSUME NEW S, S \subseteq Programs
    PROVE  /\ Cardinality(S) \in Nat /\ Cardinality(S) <= Cardinality(Programs)
           /\ Cardinality(Programs) \in Nat
           /\ \A Q : Q \subseteq S => Cardinality(Q) \in Nat /\ Cardinality(Q) <= Cardinality(S)
           /\ \A q \in S : \A Q : Q \subseteq S \ {q} =>
                 Cardinality(Q) \in Nat /\ Cardinality(Q) <= Cardinality(S) - 1
<1>1. IsFiniteSet(Programs)
  BY FilesAssumptions DEF Log!LoggingAssumption, Log!IsFiniteSet, IsFiniteSet
<1>2. IsFiniteSet(S) /\ Cardinality(S) <= Cardinality(Programs)
  BY <1>1, FS_Subset
<1>3. Cardinality(S) \in Nat /\ Cardinality(Programs) \in Nat
  BY <1>1, <1>2, FS_CardinalityType
<1>4. ASSUME NEW Q, Q \subseteq S
      PROVE  Cardinality(Q) \in Nat /\ Cardinality(Q) <= Cardinality(S)
  BY <1>2, <1>4, FS_Subset, FS_CardinalityType
<1>5. ASSUME NEW q \in S, NEW Q, Q \subseteq S \ {q}
      PROVE  Cardinality(Q) \in Nat /\ Cardinality(Q) <= Cardinality(S) - 1
  <2>1. IsFiniteSet(S \ {q}) /\ Cardinality(S \ {q}) = Cardinality(S) - 1
    BY <1>2, FS_RemoveElement
  <2> QED BY <1>5, <2>1, FS_Subset, FS_CardinalityType
<1> QED BY <1>2, <1>3, <1>4, <1>5

(* A set that has at most one program more than another.                   *)
LEMMA CountedOneMore ==
    ASSUME NEW S, S \subseteq Programs, NEW p \in Programs, NEW Q, Q \subseteq S \cup {p}
    PROVE  Cardinality(Q) <= Cardinality(S) + 1
<1>1. IsFiniteSet(S)
  BY FilesAssumptions, FS_Subset DEF Log!LoggingAssumption, Log!IsFiniteSet, IsFiniteSet
<1>2. /\ IsFiniteSet(S \cup {p}) /\ Cardinality(S) \in Nat
      /\ Cardinality(S \cup {p}) = IF p \in S THEN Cardinality(S) ELSE Cardinality(S) + 1
  BY <1>1, FS_AddElement, FS_CardinalityType
<1>3. Cardinality(Q) <= Cardinality(S \cup {p}) /\ Cardinality(Q) \in Nat
  BY <1>2, FS_Subset, FS_CardinalityType
<1> QED BY <1>2, <1>3

(* What the assumption says of the constants.                              *)
LEMMA LogConstants ==
    /\ Limit \in Nat \ {0} /\ MaxLines \in Nat /\ MaxUnmoved \in Nat /\ MaxOpen \in Nat
    /\ Cardinality(Programs) \in Nat
<1>1. Cardinality(Programs) \in Nat
  BY Counted
<1> QED BY <1>1, FilesAssumptions DEF Log!LoggingAssumption

(* Nobody has opened the log.                                              *)
LEMMA LogInit == Log!Init => LogInv
<1> SUFFICES ASSUME Log!Init PROVE LogInv
  OBVIOUS
<1> USE DEF Log!Init
<1>1. LogType
  <2>1. <<>> \in Seq(1 .. 0) /\ 0 \in Fails
    BY LogConstants DEF Fails
  <2>2. /\ log = [file |-> 0, lines |-> <<>>, unmoved |-> 0]
        /\ bak = [file |-> 0, lines |-> <<>>, unmoved |-> 0]
    BY DEF Log!NoFile
  <2>3. young \in BOOLEAN /\ astray \in BOOLEAN /\ gLogF \in [Programs -> BOOLEAN]
    OBVIOUS
  <2>4. /\ descriptors \in [Programs -> Int] /\ leaked \in [Programs -> Int]
        /\ fp \in [Programs -> 0 .. files]
        /\ pc \in [Programs -> {"idle", "close", "move", "reopen", "write", "crashed"}]
    OBVIOUS
  <2> QED BY <2>1, <2>2, <2>3, <2>4 DEF LogType
<1>2. LogCounts
  <2>1. log.lines = <<>> /\ bak.lines = <<>> /\ log.unmoved = 0 /\ bak.unmoved = 0
    BY DEF Log!NoFile
  <2>2. /\ Writers(log.file) \cup Reopeners \subseteq Programs
        /\ Writers(bak.file) \subseteq Programs /\ Busy \subseteq Programs
    BY DEF Writers, Reopeners, Busy
  <2>3. /\ Cardinality(Writers(log.file) \cup Reopeners) \in 0 .. Cardinality(Programs)
        /\ Cardinality(Writers(bak.file)) \in 0 .. Cardinality(Programs)
        /\ Cardinality(Busy) \in 0 .. Cardinality(Programs)
    BY <2>2, Counted, LogConstants
  <2> QED BY <2>1, <2>3, LogConstants DEF LogCounts, MostLines
<1>3. LogRow
  BY DEF LogRow, Log!NoFile
<1>4. Log!DescriptorsAccounted
  BY DEF Log!DescriptorsAccounted
<1> QED BY <1>1, <1>2, <1>3, <1>4 DEF LogInv

(* What fopen with "a" finds are the lines debug.log has.                  *)
LEMMA LogOpens ==
    ASSUME LogType, NEW p \in Programs, Log!OpensLog(p)
    PROVE  /\ log'.lines = log.lines /\ log'.unmoved = log.unmoved
           /\ log'.file # 0 /\ log'.file # bak.file
           /\ log' \in [file : 0 .. files', lines : Seq(1 .. written), unmoved : Fails]
           /\ files' \in Nat /\ files <= files'
           /\ log.file = 0 => log'.file \notin 0 .. files /\ log.lines = <<>> /\ log'.unmoved = 0
           /\ log.file # 0 => log' = log
           /\ fp' = [fp EXCEPT ![p] = log'.file]
           /\ descriptors' = [descriptors EXCEPT ![p] = @ + 1]
           /\ fp' \in [Programs -> 0 .. files'] /\ descriptors' \in [Programs -> Int]
           /\ bak \in [file : 0 .. files', lines : Seq(1 .. written), unmoved : Fails]
<1> USE DEF LogType, Log!OpensLog, Log!Descriptors
<1> DEFINE Found ==
              /\ log'.lines = log.lines /\ log'.unmoved = log.unmoved
              /\ log'.file # 0 /\ log'.file # bak.file
              /\ log' \in [file : 0 .. files', lines : Seq(1 .. written), unmoved : Fails]
              /\ files' \in Nat /\ files <= files'
              /\ log.file = 0 => log'.file \notin 0 .. files /\ log.lines = <<>> /\ log'.unmoved = 0
              /\ log.file # 0 => log' = log
<1>0. /\ fp' = [fp EXCEPT ![p] = log'.file]
      /\ descriptors' = [descriptors EXCEPT ![p] = @ + 1]
  OBVIOUS
<1>1. ASSUME log.file = 0 PROVE Found
  <2>1. files' = files + 1 /\ log' = [file |-> files', lines |-> <<>>, unmoved |-> 0]
    BY <1>1 DEF Log!NoFile
  <2>2. /\ log'.lines = <<>> /\ log'.file = files + 1 /\ files' \in Nat /\ bak.file \in 0 .. files
        /\ log'.unmoved = 0 /\ log.unmoved = 0
    BY <1>1, <2>1
  <2>3. <<>> \in Seq(1 .. written) /\ 0 \in Fails
    BY LogConstants DEF Fails
  <2>4. log' \in [file : 0 .. files', lines : Seq(1 .. written), unmoved : Fails]
    BY <2>1, <2>2, <2>3
  <2>5. /\ log'.lines = log.lines /\ log'.file # 0 /\ log'.file # bak.file /\ files <= files'
        /\ log'.file \notin 0 .. files /\ log.lines = <<>>
    BY <1>1, <2>2
  <2> QED BY <1>1, <2>2, <2>4, <2>5
<1>2. ASSUME log.file # 0 PROVE Found
  BY <1>2
<1>3. /\ Found /\ log'.file \in 0 .. files' /\ files' \in Nat /\ files <= files' /\ files \in Nat
      /\ fp' = [fp EXCEPT ![p] = log'.file] /\ fp \in [Programs -> 0 .. files]
  BY <1>0, <1>1, <1>2
<1>4. 0 .. files \subseteq 0 .. files'
  BY <1>3
<1>5. fp' \in [Programs -> 0 .. files']
  BY <1>3, <1>4
<1>6. descriptors' \in [Programs -> Int]
  <2>1. descriptors[p] + 1 \in Int
    OBVIOUS
  <2> QED BY <1>0, <2>1
<1>7. bak \in [file : 0 .. files', lines : Seq(1 .. written), unmoved : Fails]
  BY <1>4
<1> QED BY <1>0, <1>3, <1>5, <1>6, <1>7

(* Line written + 1 is appended to file f if p has it open.                *)
LEMMA LogAppends ==
    ASSUME LogType, NEW p \in Programs, NEW f \in {log, bak}
    PROVE  /\ Log!Append1(f, p) \in [file : 0 .. files, lines : Seq(1 .. written + 1), unmoved : Fails]
           /\ Log!Append1(f, p).file = f.file /\ Log!Append1(f, p).unmoved = f.unmoved
           /\ f.file # fp[p] => Log!Append1(f, p).lines = f.lines
           /\ f.file = fp[p] => Log!Append1(f, p).lines = Append(f.lines, written + 1)
           /\ Len(Log!Append1(f, p).lines) = Len(f.lines) + (IF f.file = fp[p] THEN 1 ELSE 0)
<1> DEFINE w == written + 1
<1>1. /\ f.file \in 0 .. files /\ f.lines \in Seq(1 .. written) /\ written \in Nat
      /\ f.unmoved \in Fails /\ f = [file |-> f.file, lines |-> f.lines, unmoved |-> f.unmoved]
  BY DEF LogType
<1>2. f.lines \in Seq(1 .. w) /\ Append(f.lines, w) \in Seq(1 .. w)
  <2>1. 1 .. written \subseteq 1 .. w /\ w \in 1 .. w
    BY <1>1
  <2>2. f.lines \in Seq(1 .. w)
    BY <1>1, <2>1
  <2> QED BY <2>1, <2>2
<1> HIDE DEF w
<1>3. CASE f.file = fp[p]
  <2>1. Log!Append1(f, p) = [f EXCEPT !.lines = Append(@, w)]
    BY <1>3 DEF Log!Append1, w
  <2>2. Log!Append1(f, p) = [file |-> f.file, lines |-> Append(f.lines, w), unmoved |-> f.unmoved]
    BY <1>1, <2>1
  <2>3. Len(Append(f.lines, w)) = Len(f.lines) + 1
    BY <1>1
  <2> QED BY <1>1, <1>2, <1>3, <2>2, <2>3 DEF w
<1>4. CASE f.file # fp[p]
  <2>1. Log!Append1(f, p) = f
    BY <1>4 DEF Log!Append1
  <2>2. f \in [file : 0 .. files, lines : Seq(1 .. w), unmoved : Fails]
    BY <1>1, <1>2
  <2>3. Len(f.lines) = Len(f.lines) + 0
    BY <1>1
  <2> QED BY <1>4, <2>1, <2>2, <2>3 DEF w
<1> QED BY <1>3, <1>4

(* Types: each call that main_log makes.                                   *)
LEMMA LogTypeStep ==
    ASSUME LogInv, [Log!Next]_(Log!vars)
    PROVE  LogType'
<1> USE DEF LogInv, LogType, Log!At, Log!disk, Log!Descriptors, Log!Leaks
<1>1. CASE UNCHANGED Log!vars
  BY <1>1 DEF Log!vars
<1>2. ASSUME NEW p \in Programs, Log!Open(p) PROVE LogType'
  <2>1. Log!OpensLog(p) /\ UNCHANGED <<bak, written, young, astray, leaked, gLogF>>
    BY <1>2 DEF Log!Open
  <2>2. /\ pc' \in [Programs -> {"idle", "close", "move", "reopen", "write", "crashed"}]
        /\ \A q \in Programs : pc'[q] = "write" => q = p \/ pc[q] = "write"
    BY <1>2 DEF Log!Open
  <2>3. ASSUME NEW q \in Programs, pc'[q] = "write" PROVE fp'[q] # 0
    <3>1. fp' = [fp EXCEPT ![p] = log'.file] /\ log'.file # 0
      BY <2>1, LogOpens
    <3>2. q = p \/ fp[q] # 0
      BY <2>2, <2>3
    <3> QED BY <3>1, <3>2
  <2>4. /\ log' \in [file : 0 .. files', lines : Seq(1 .. written'), unmoved : Fails] /\ log'.file # 0
        /\ bak' \in [file : 0 .. files', lines : Seq(1 .. written'), unmoved : Fails] /\ log'.file # bak'.file
        /\ bak'.file = 0 => bak'.lines = <<>>
        /\ files' \in Nat /\ written' \in Nat
    BY <2>1, LogOpens
  <2>5. /\ young' \in BOOLEAN /\ astray' \in BOOLEAN /\ gLogF' \in [Programs -> BOOLEAN]
        /\ leaked' \in [Programs -> Int]
    BY <2>1
  <2>6. fp' \in [Programs -> 0 .. files'] /\ descriptors' \in [Programs -> Int]
    BY <2>1, LogOpens
  <2> QED BY <2>2, <2>3, <2>4, <2>5, <2>6
<1>3. ASSUME NEW p \in Programs, Log!Reopen(p) PROVE LogType'
  <2>1. Log!OpensLog(p) /\ UNCHANGED <<bak, written, young, astray, leaked, gLogF>>
    BY <1>3 DEF Log!Reopen
  <2>2. /\ pc' \in [Programs -> {"idle", "close", "move", "reopen", "write", "crashed"}]
        /\ \A q \in Programs : pc'[q] = "write" => q = p \/ pc[q] = "write"
    BY <1>3 DEF Log!Reopen
  <2>3. ASSUME NEW q \in Programs, pc'[q] = "write" PROVE fp'[q] # 0
    <3>1. fp' = [fp EXCEPT ![p] = log'.file] /\ log'.file # 0
      BY <2>1, LogOpens
    <3>2. q = p \/ fp[q] # 0
      BY <2>2, <2>3
    <3> QED BY <3>1, <3>2
  <2>4. /\ log' \in [file : 0 .. files', lines : Seq(1 .. written'), unmoved : Fails] /\ log'.file # 0
        /\ bak' \in [file : 0 .. files', lines : Seq(1 .. written'), unmoved : Fails] /\ log'.file # bak'.file
        /\ bak'.file = 0 => bak'.lines = <<>>
        /\ files' \in Nat /\ written' \in Nat
    BY <2>1, LogOpens
  <2>5. /\ young' \in BOOLEAN /\ astray' \in BOOLEAN /\ gLogF' \in [Programs -> BOOLEAN]
        /\ leaked' \in [Programs -> Int]
    BY <2>1
  <2>6. fp' \in [Programs -> 0 .. files'] /\ descriptors' \in [Programs -> Int]
    BY <2>1, LogOpens
  <2> QED BY <2>2, <2>3, <2>4, <2>5, <2>6
<1>4. ASSUME NEW p \in Programs, Log!Refused(p) PROVE LogType'
  <2>1. /\ UNCHANGED <<log, bak, files, written, young, astray, descriptors, leaked, gLogF>>
        /\ pc' = [pc EXCEPT ![p] = "idle"] /\ fp' = [fp EXCEPT ![p] = 0]
    BY <1>4 DEF Log!Refused
  <2> QED BY <2>1
<1>5. ASSUME NEW p \in Programs, Log!Close(p) PROVE LogType'
  <2>1. /\ UNCHANGED <<log, bak, files, written, young, astray, fp, leaked, gLogF>>
        /\ pc' = [pc EXCEPT ![p] = "move"]
        /\ descriptors' = [descriptors EXCEPT ![p] = @ + -1]
    BY <1>5 DEF Log!Close
  <2>2. descriptors' \in [Programs -> Int]
    BY <2>1
  <2> QED BY <2>1, <2>2
<1>6. ASSUME NEW p \in Programs, Log!Move(p) PROVE LogType'
  <2>1. /\ pc' \in [Programs -> {"idle", "close", "move", "reopen", "write", "crashed"}]
        /\ \A q \in Programs : pc'[q] = "write" => pc[q] = "write"
        /\ UNCHANGED <<files, written, fp, descriptors, leaked, gLogF, astray>>
    BY <1>6 DEF Log!Move
  <2>2. CASE Log!Moved
    <3>1. young' \in BOOLEAN
      BY <2>2, Zenon DEF Log!Moved
    <3>2. bak' = log /\ log' = [file |-> 0, lines |-> <<>>, unmoved |-> 0] /\ log.file # 0
      BY <2>2 DEF Log!Moved, Log!NoFile
    <3>3. log'.file = 0 /\ log'.lines = <<>> /\ log'.unmoved = 0
      BY <3>2
    <3>4. 0 \in 0 .. files /\ <<>> \in Seq(1 .. written) /\ 0 \in Fails
      BY LogConstants DEF Fails
    <3>5. log' \in [file : 0 .. files, lines : Seq(1 .. written), unmoved : Fails]
      BY <3>2, <3>4
    <3> QED BY <2>1, <3>1, <3>2, <3>3, <3>5
  <2>3. CASE Log!NotMoved
    <3>1. UNCHANGED <<bak, young>> /\ log.file # 0 /\ log.unmoved < MaxUnmoved
          /\ log' = [log EXCEPT !.unmoved = @ + 1]
      BY <2>3 DEF Log!NotMoved
    <3>2. log'.file = log.file /\ log'.lines = log.lines /\ log'.unmoved = log.unmoved + 1
      BY <3>1
    <3>3. log.unmoved + 1 \in Fails
      <4>1. log.unmoved \in Fails
        BY DEF LogInv, LogType
      <4>2. log.unmoved < MaxUnmoved /\ MaxUnmoved \in Nat
        BY <3>1, LogConstants
      <4> HIDE DEF LogInv, LogType
      <4> QED BY <4>1, <4>2 DEF Fails
    <3>4. log' \in [file : 0 .. files, lines : Seq(1 .. written), unmoved : Fails]
      BY <3>1, <3>3
    <3> QED BY <2>1, <3>1, <3>2, <3>4
  <2>4. CASE Log!NothingToMove
    BY <2>1, <2>4 DEF Log!NothingToMove
  <2> QED BY <1>6, <2>2, <2>3, <2>4 DEF Log!Move
<1>7. ASSUME NEW p \in Programs, Log!Write(p) PROVE LogType'
  <2>1. log' = Log!Append1(log, p) /\ bak' = Log!Append1(bak, p) /\ written' = written + 1
        /\ UNCHANGED <<files, young, leaked, gLogF>>
    BY <1>7 DEF Log!Write
  <2>2. /\ fp' \in [Programs -> 0 .. files'] /\ descriptors' \in [Programs -> Int]
        /\ pc' \in [Programs -> {"idle", "close", "move", "reopen", "write", "crashed"}]
        /\ \A q \in Programs : pc'[q] = "write" => fp'[q] # 0
    <3>1. /\ pc' = [pc EXCEPT ![p] = "idle"] /\ fp' = [fp EXCEPT ![p] = 0] /\ files' = files
          /\ descriptors' = [descriptors EXCEPT ![p] = @ + -1]
      BY <1>7 DEF Log!Write
    <3>2. descriptors' \in [Programs -> Int]
      BY <3>1
    <3>3. fp' \in [Programs -> 0 .. files']
      BY <3>1
    <3>4. /\ pc' \in [Programs -> {"idle", "close", "move", "reopen", "write", "crashed"}]
          /\ \A q \in Programs : pc'[q] = "write" => fp'[q] # 0
      BY <3>1
    <3> QED BY <3>2, <3>3, <3>4
  <2>3. astray' \in BOOLEAN
    BY <1>7, Zenon DEF Log!Write
  <2>4. fp[p] # 0
    BY <1>7 DEF Log!Write
  <2>5. /\ log' \in [file : 0 .. files, lines : Seq(1 .. written + 1), unmoved : Fails]
        /\ bak' \in [file : 0 .. files, lines : Seq(1 .. written + 1), unmoved : Fails]
        /\ log'.file = log.file /\ bak'.file = bak.file
        /\ log'.file = 0 => log'.lines = <<>> /\ log'.unmoved = 0
        /\ bak'.file = 0 => bak'.lines = <<>>
    BY <2>1, <2>4, LogAppends
  <2>6. gLogF' \in [Programs -> BOOLEAN] /\ leaked' \in [Programs -> Int] /\ young' \in BOOLEAN
        /\ files' \in Nat /\ written' \in Nat
    BY <2>1
  <2>7. log'.file # 0 => log'.file # bak'.file
    BY <2>5
  <2>8. /\ log' \in [file : 0 .. files', lines : Seq(1 .. written'), unmoved : Fails]
        /\ bak' \in [file : 0 .. files', lines : Seq(1 .. written'), unmoved : Fails]
    BY <2>1, <2>5
  <2> QED BY <2>2, <2>3, <2>5, <2>6, <2>7, <2>8
<1>8. ASSUME NEW p \in Programs, Log!Others(p) PROVE LogType'
  <2> USE DEF Log!Calls
  <2>1. CASE Log!debug_logging(p)
    <3>1. /\ UNCHANGED <<log, bak, files, written, young, astray, pc, fp, gLogF>>
          /\ descriptors' = [descriptors EXCEPT ![p] = @ + 1]
          /\ leaked' = [leaked EXCEPT ![p] = @ + 1]
      BY <2>1 DEF Log!debug_logging
    <3>2. descriptors' \in [Programs -> Int] /\ leaked' \in [Programs -> Int]
      BY <3>1
    <3> QED BY <3>1, <3>2
  <2>4. CASE Log!write_file(p)
    BY <2>4 DEF Log!write_file
  <2>2. CASE Log!log_file_init(p)
    <3>1. gLogF' = [gLogF EXCEPT ![p] = TRUE] \/ gLogF' = [gLogF EXCEPT ![p] = FALSE]
      BY <2>2 DEF Log!log_file_init
    <3>2. gLogF' \in [Programs -> BOOLEAN]
      BY <3>1
    <3>3. descriptors' \in [Programs -> Int] /\ leaked' \in [Programs -> Int]
      <4>1. \/ descriptors' = [descriptors EXCEPT ![p] = @ + 1]
            \/ descriptors' = descriptors
        BY <2>2 DEF Log!log_file_init
      <4>2. leaked' = [leaked EXCEPT ![p] = @ + 1] \/ leaked' = leaked
        BY <2>2 DEF Log!log_file_init
      <4> QED BY <4>1, <4>2
    <3>4. UNCHANGED <<log, bak, files, written, young, astray, pc, fp>>
      BY <2>2 DEF Log!log_file_init
    <3>5. files' \in Nat /\ written' \in Nat /\ young' \in BOOLEAN /\ astray' \in BOOLEAN
      BY <3>4
    <3> QED BY <3>2, <3>3, <3>4, <3>5
  <2>3. CASE Log!log_file_close(p)
    <3>1. /\ UNCHANGED <<log, bak, files, written, young, astray, fp, pc, leaked>>
          /\ gLogF' = [gLogF EXCEPT ![p] = FALSE]
          /\ descriptors' = [descriptors EXCEPT ![p] = @ + -1]
      BY <2>3 DEF Log!log_file_close
    <3>2. descriptors' \in [Programs -> Int]
      BY <3>1
    <3>3. gLogF' \in [Programs -> BOOLEAN]
      BY <3>1
    <3> QED BY <3>1, <3>2, <3>3
  <2> QED BY <1>8, <2>1, <2>2, <2>3, <2>4 DEF Log!Others
<1> QED BY <1>1, <1>2, <1>3, <1>4, <1>5, <1>6, <1>7, <1>8 DEF Log!Next, Log!main_log

(* The counts of writers and reopeners.                                    *)
LEMMA LogCountsStep ==
    ASSUME LogInv, [Log!Next]_(Log!vars)
    PROVE  LogCounts'
<1> DEFINE A == Writers(log.file) \cup Reopeners
           B == Writers(bak.file)
<1> USE DEF Log!At, Log!disk
<1>a. /\ A \subseteq Programs /\ B \subseteq Programs /\ Busy \subseteq Programs
      /\ A' \subseteq Programs /\ B' \subseteq Programs /\ Busy' \subseteq Programs
  BY DEF Writers, Reopeners, Busy
<1> HIDE DEF A, B
<1>b. /\ LogType /\ MostLines \in Nat /\ Cardinality(Programs) \in Nat
      /\ Limit \in Nat \ {0} /\ MaxLines \in Nat
      /\ Len(log.lines) \in Nat /\ Len(bak.lines) \in Nat /\ written \in Nat
      /\ log.unmoved \in Nat /\ bak.unmoved \in Nat
  <2>1. /\ LogType /\ log.lines \in Seq(1 .. written) /\ bak.lines \in Seq(1 .. written)
        /\ log.unmoved \in Fails /\ bak.unmoved \in Fails
    BY DEF LogInv, LogType
  <2>2. written \in Nat
    BY <2>1 DEF LogType
  <2>3. MostLines \in Nat
    <3>1. Limit - 1 \in Nat /\ Cardinality(Programs) \in Nat
      BY LogConstants
    <3> QED BY <3>1 DEF MostLines
  <2>4. log.unmoved \in Nat /\ bak.unmoved \in Nat
    BY <2>1, LogConstants DEF Fails
  <2>5. Len(log.lines) \in Nat /\ Len(bak.lines) \in Nat
    BY <2>1
  <2> QED BY <2>1, <2>2, <2>3, <2>4, <2>5, LogConstants
<1>c. /\ Cardinality(A) \in 0 .. Cardinality(Programs)
      /\ Cardinality(B) \in 0 .. Cardinality(Programs)
      /\ Cardinality(Busy) \in 0 .. Cardinality(Programs)
      /\ Cardinality(A') \in 0 .. Cardinality(Programs)
      /\ Cardinality(B') \in 0 .. Cardinality(Programs)
      /\ Cardinality(Busy') \in 0 .. Cardinality(Programs)
  BY <1>a, <1>b, Counted
<1>d. /\ Len(log.lines) + Cardinality(A) <= MostLines + log.unmoved
      /\ Len(bak.lines) + Cardinality(B) <= MostLines + bak.unmoved
      /\ written + Cardinality(Busy) <= MaxLines + Cardinality(Programs)
  BY DEF LogInv, LogCounts, A, B
<1>g. /\ Cardinality(A) \in Nat /\ Cardinality(A') \in Nat /\ Len(log.lines) \in Nat
      /\ MostLines \in Nat /\ log.unmoved \in Nat
      /\ Len(log.lines) + Cardinality(A) <= MostLines + log.unmoved
  BY <1>b, <1>c, <1>d
<1>h. /\ Cardinality(B) \in Nat /\ Cardinality(B') \in Nat /\ Len(bak.lines) \in Nat
      /\ MostLines \in Nat /\ bak.unmoved \in Nat
      /\ Len(bak.lines) + Cardinality(B) <= MostLines + bak.unmoved
  BY <1>b, <1>c, <1>d
<1>k. /\ Cardinality(Busy) \in Nat /\ Cardinality(Busy') \in Nat /\ written \in Nat
      /\ MaxLines \in Nat /\ Cardinality(Programs) \in Nat
      /\ Cardinality(Busy') <= Cardinality(Programs)
      /\ written + Cardinality(Busy) <= MaxLines + Cardinality(Programs)
  BY <1>b, <1>c, <1>d
<1>e. ASSUME /\ Len(log'.lines) + Cardinality(A') <= MostLines + log'.unmoved
             /\ Len(bak'.lines) + Cardinality(B') <= MostLines + bak'.unmoved
             /\ written' + Cardinality(Busy') <= MaxLines + Cardinality(Programs)
      PROVE  LogCounts'
  BY <1>e DEF LogCounts, MostLines, A, B
<1>f. ASSUME A' \subseteq A \/ Len(log'.lines) < Limit, log'.lines = log.lines,
             log'.unmoved = log.unmoved, bak'.unmoved = bak.unmoved,
             B' \subseteq B, bak'.lines = bak.lines,
             Busy' \subseteq Busy, written' = written
      PROVE  LogCounts'
  <2>1. A' \subseteq A => Cardinality(A') <= Cardinality(A)
    BY <1>a, Counted
  <2>2. Cardinality(B') <= Cardinality(B) /\ Cardinality(Busy') <= Cardinality(Busy)
    BY <1>a, <1>f, Counted
  <2>3. /\ Len(log'.lines) = Len(log.lines) /\ Len(bak'.lines) = Len(bak.lines)
        /\ log'.unmoved = log.unmoved /\ bak'.unmoved = bak.unmoved
    BY <1>f
  <2>4. Len(log'.lines) + Cardinality(A') <= MostLines + log'.unmoved
    <3>1. CASE A' \subseteq A
      <4>1. Cardinality(A') <= Cardinality(A)
        BY <2>1, <3>1
      <4> QED BY <1>g, <2>3, <4>1
    <3>2. CASE Len(log'.lines) < Limit
      <4>1. Cardinality(A') \in Nat /\ Cardinality(A') <= Cardinality(Programs)
        BY <1>b, <1>c
      <4>2. Len(log.lines) <= Limit - 1 /\ Len(log'.lines) = Len(log.lines)
            /\ log'.unmoved = log.unmoved
        BY <1>b, <2>3, <3>2
      <4> QED BY <1>b, <4>1, <4>2 DEF MostLines
    <3> QED BY <1>f, <3>1, <3>2
  <2>5. Len(bak'.lines) + Cardinality(B') <= MostLines + bak'.unmoved
    BY <1>h, <2>2, <2>3
  <2>6. written' + Cardinality(Busy') <= MaxLines + Cardinality(Programs)
    BY <1>f, <1>k, <2>2
  <2> QED BY <1>e, <2>4, <2>5, <2>6
<1>t. /\ fp \in [Programs -> 0 .. files] /\ files \in Nat /\ bak.file \in 0 .. files
      /\ log.file # 0 => log.file # bak.file
      /\ pc \in [Programs -> {"idle", "close", "move", "reopen", "write", "crashed"}]
      /\ log.file = 0 => log.lines = <<>>
      /\ \A q \in Programs : pc[q] = "write" => fp[q] # 0
  BY <1>b DEF LogType
<1>1. CASE UNCHANGED Log!vars
  BY <1>1, <1>d, <1>e DEF Log!vars, Writers, Reopeners, Busy, A, B
<1>2. ASSUME NEW p \in Programs, Log!Open(p) PROVE LogCounts'
  <2>1. /\ log'.lines = log.lines /\ log'.unmoved = log.unmoved
        /\ log'.file # bak.file /\ fp' = [fp EXCEPT ![p] = log'.file]
        /\ log.file = 0 => log'.file \notin 0 .. files
        /\ log.file # 0 => log' = log
        /\ bak' = bak /\ written' = written /\ written < MaxLines /\ pc[p] = "idle"
        /\ pc' = [pc EXCEPT ![p] = IF Log!LongEnough(log'.lines) THEN "close" ELSE "write"]
    BY <1>2, <1>b, LogOpens DEF Log!Open
  <2>2. B' \subseteq B
    BY <1>t, <2>1 DEF Writers, A, B
  <2>3. Cardinality(B') <= Cardinality(B)
    BY <1>a, <2>2, Counted
  <2>4. Len(bak'.lines) + Cardinality(B') <= MostLines + bak'.unmoved
    BY <1>h, <2>1, <2>3
  <2>5. written' + Cardinality(Busy') <= MaxLines + Cardinality(Programs)
    BY <1>k, <2>1
  <2>6. Len(log'.lines) + Cardinality(A') <= MostLines + log'.unmoved
    <3>1. CASE Log!LongEnough(log'.lines)
      <4>1. log.file # 0 /\ log' = log /\ pc' = [pc EXCEPT ![p] = "close"]
        <5>1. Len(log.lines) >= Limit /\ Len(<<>>) = 0
          BY <2>1, <3>1 DEF Log!LongEnough
        <5>2. log.lines # <<>>
          BY <1>b, <5>1
        <5> QED BY <1>t, <2>1, <3>1, <5>2
      <4>2. A' \subseteq A
        BY <1>t, <2>1, <4>1 DEF Writers, Reopeners, A
      <4>3. Cardinality(A') <= Cardinality(A)
        BY <1>a, <4>2, Counted
      <4> QED BY <1>g, <4>1, <4>3
    <3>2. CASE ~Log!LongEnough(log'.lines)
      <4>1. Cardinality(A') \in Nat /\ Cardinality(A') <= Cardinality(Programs)
        BY <1>b, <1>c
      <4>2. Len(log.lines) <= Limit - 1 /\ Len(log'.lines) = Len(log.lines)
            /\ log'.unmoved = log.unmoved
        BY <1>b, <2>1, <3>2 DEF Log!LongEnough
      <4> QED BY <1>b, <4>1, <4>2 DEF MostLines
    <3> QED BY <3>1, <3>2
  <2> QED BY <1>e, <2>4, <2>5, <2>6
<1>3. ASSUME NEW p \in Programs, Log!Reopen(p) PROVE LogCounts'
  <2>1. /\ log'.lines = log.lines /\ log'.unmoved = log.unmoved
        /\ log'.file # bak.file /\ fp' = [fp EXCEPT ![p] = log'.file]
        /\ log.file = 0 => log'.file \notin 0 .. files
        /\ log.file # 0 => log' = log
        /\ bak' = bak /\ written' = written /\ pc[p] = "reopen"
        /\ pc' = [pc EXCEPT ![p] = "write"]
    BY <1>3, <1>b, LogOpens DEF Log!Reopen
  <2>2. B' \subseteq B /\ Busy' \subseteq Busy
    BY <1>t, <2>1 DEF Writers, Busy, B
  <2>3. CASE log.file = 0
    BY <1>f, <1>b, <1>t, <2>1, <2>2, <2>3
  <2>4. CASE log.file # 0
    <3>1. A' \subseteq A
      BY <1>t, <2>1, <2>4 DEF Writers, Reopeners, A
    <3> QED BY <1>f, <2>1, <2>2, <3>1
  <2> QED BY <2>3, <2>4
<1>4. ASSUME NEW p \in Programs, Log!Refused(p) \/ Log!Close(p) PROVE LogCounts'
  <2>1. /\ UNCHANGED <<log, bak, written>>
        /\ \E to \in {"idle", "move"} : pc' = [pc EXCEPT ![p] = to]
        /\ fp' = fp \/ fp' = [fp EXCEPT ![p] = 0]
        /\ pc[p] = "close" \/ pc' = [pc EXCEPT ![p] = "idle"]
    BY <1>4 DEF Log!Refused, Log!Close
  <2>2. A' \subseteq A /\ B' \subseteq B /\ Busy' \subseteq Busy
    BY <1>t, <2>1 DEF Writers, Reopeners, Busy, A, B
  <2> QED BY <1>f, <2>1, <2>2
<1>5. ASSUME NEW p \in Programs, Log!Move(p) PROVE LogCounts'
  <2>1. pc[p] = "move" /\ pc' = [pc EXCEPT ![p] = "reopen"] /\ UNCHANGED <<written, fp>>
    BY <1>5 DEF Log!Move
  <2>2. Busy' \subseteq Busy
    BY <1>t, <2>1 DEF Busy
  <2>3. Cardinality(Busy') <= Cardinality(Busy)
    BY <1>a, <2>2, Counted
  <2>4. CASE Log!NothingToMove
    <3>1. log' = log /\ bak' = bak /\ Len(log'.lines) < Limit
      BY <1>b, <1>t, <2>4 DEF Log!NothingToMove
    <3>2. B' \subseteq B
      BY <1>t, <2>1, <3>1 DEF Writers, A, B
    <3> QED BY <1>f, <2>1, <2>2, <3>1, <3>2
  <2>6. CASE Log!NotMoved
    <3>1. /\ log'.file = log.file /\ log'.lines = log.lines /\ bak' = bak
          /\ log'.unmoved = log.unmoved + 1
      <4>1. /\ bak' = bak /\ log' = [log EXCEPT !.unmoved = @ + 1]
            /\ log \in [file : 0 .. files, lines : Seq(1 .. written), unmoved : Fails]
        BY <1>b, <2>6 DEF Log!NotMoved, LogType
      <4> QED BY <4>1
    <3>2. A' \subseteq A \cup {p} /\ B' \subseteq B
      BY <1>t, <2>1, <3>1 DEF Writers, Reopeners, A, B
    <3>3. Cardinality(A') <= Cardinality(A) + 1
      BY <1>a, <3>2, CountedOneMore
    <3>4. Cardinality(B') <= Cardinality(B)
      BY <1>a, <3>2, Counted
    <3>5. Len(log'.lines) + Cardinality(A') <= MostLines + log'.unmoved
      BY <1>g, <3>1, <3>3
    <3>6. Len(bak'.lines) + Cardinality(B') <= MostLines + bak'.unmoved
      BY <1>h, <3>1, <3>4
    <3>7. written' + Cardinality(Busy') <= MaxLines + Cardinality(Programs)
      BY <1>k, <2>1, <2>3
    <3> QED BY <1>e, <3>5, <3>6, <3>7
  <2>5. CASE Log!Moved
    <3>1. bak' = log /\ log'.lines = <<>> /\ log'.unmoved = 0
      BY <2>5 DEF Log!Moved, Log!NoFile
    <3>2. B' \subseteq A
      BY <1>t, <2>1, <3>1 DEF Writers, A, B
    <3>3. Cardinality(B') <= Cardinality(A)
      BY <1>a, <3>2, Counted
    <3>4. Len(log'.lines) + Cardinality(A') <= MostLines + log'.unmoved
      BY <1>b, <1>c, <3>1 DEF MostLines
    <3>5. Len(bak'.lines) + Cardinality(B') <= MostLines + bak'.unmoved
      BY <1>g, <1>h, <3>1, <3>3
    <3>6. written' + Cardinality(Busy') <= MaxLines + Cardinality(Programs)
      BY <1>k, <2>1, <2>3
    <3> QED BY <1>e, <3>4, <3>5, <3>6
  <2> QED BY <1>5, <2>4, <2>5, <2>6 DEF Log!Move
<1>6. ASSUME NEW p \in Programs, Log!Write(p) PROVE LogCounts'
  <2>1. /\ pc[p] = "write" /\ pc' = [pc EXCEPT ![p] = "idle"] /\ fp' = [fp EXCEPT ![p] = 0]
        /\ log' = Log!Append1(log, p) /\ bak' = Log!Append1(bak, p) /\ written' = written + 1
    BY <1>6 DEF Log!Write
  <2>2. /\ log'.file = log.file /\ bak'.file = bak.file
        /\ log'.unmoved = log.unmoved /\ bak'.unmoved = bak.unmoved
    BY <1>b, <2>1, LogAppends
  <2>3. /\ Len(log'.lines) = Len(log.lines) + (IF log.file = fp[p] THEN 1 ELSE 0)
        /\ Len(bak'.lines) = Len(bak.lines) + (IF bak.file = fp[p] THEN 1 ELSE 0)
    BY <1>b, <2>1, LogAppends
  <2>4. /\ A' \subseteq A /\ (log.file = fp[p] => p \in A /\ A' \subseteq A \ {p})
        /\ B' \subseteq B /\ (bak.file = fp[p] => p \in B /\ B' \subseteq B \ {p})
        /\ p \in Busy /\ Busy' \subseteq Busy \ {p}
    BY <1>t, <2>1, <2>2 DEF Writers, Reopeners, Busy, A, B
  <2>5. Cardinality(Busy') <= Cardinality(Busy) - 1
    BY <1>a, <2>4, Counted
  <2>6. Len(log'.lines) + Cardinality(A') <= MostLines + log'.unmoved
    <3>1. CASE log.file = fp[p]
      <4>1. Cardinality(A') <= Cardinality(A) - 1
        BY <1>a, <2>4, <3>1, Counted
      <4>2. Len(log'.lines) = Len(log.lines) + 1
        BY <2>3, <3>1
      <4> QED BY <1>g, <2>2, <4>1, <4>2
    <3>2. CASE log.file # fp[p]
      <4>1. Cardinality(A') <= Cardinality(A)
        BY <1>a, <2>4, Counted
      <4>2. Len(log'.lines) = Len(log.lines)
        BY <1>g, <2>3, <3>2
      <4> QED BY <1>g, <2>2, <4>1, <4>2
    <3> QED BY <3>1, <3>2
  <2>7. Len(bak'.lines) + Cardinality(B') <= MostLines + bak'.unmoved
    <3>1. CASE bak.file = fp[p]
      <4>1. Cardinality(B') <= Cardinality(B) - 1
        BY <1>a, <2>4, <3>1, Counted
      <4>2. Len(bak'.lines) = Len(bak.lines) + 1
        BY <2>3, <3>1
      <4> QED BY <1>h, <2>2, <4>1, <4>2
    <3>2. CASE bak.file # fp[p]
      <4>1. Cardinality(B') <= Cardinality(B)
        BY <1>a, <2>4, Counted
      <4>2. Len(bak'.lines) = Len(bak.lines)
        BY <1>h, <2>3, <3>2
      <4> QED BY <1>h, <2>2, <4>1, <4>2
    <3> QED BY <3>1, <3>2
  <2>8. written' + Cardinality(Busy') <= MaxLines + Cardinality(Programs)
    BY <1>k, <2>1, <2>5
  <2> QED BY <1>e, <2>6, <2>7, <2>8
<1>7. ASSUME NEW p \in Programs, Log!Others(p) PROVE LogCounts'
  <2>1. /\ UNCHANGED <<log, bak, written, fp>>
        /\ pc' = pc \/ (pc' = [pc EXCEPT ![p] = "crashed"] /\ pc[p] = "idle")
    BY <1>7 DEF Log!Others, Log!Calls, Log!debug_logging, Log!log_file_init, Log!write_file,
                Log!log_file_close
  <2>2. A' \subseteq A /\ B' \subseteq B /\ Busy' \subseteq Busy
    BY <1>t, <2>1 DEF Writers, Reopeners, Busy, A, B
  <2> QED BY <1>f, <2>1, <2>2
<1> QED BY <1>1, <1>2, <1>3, <1>4, <1>5, <1>6, <1>7 DEF Log!Next, Log!main_log

(* The lines of a file stay in a row, from those that were lost on.        *)
LEMMA LogRowStep ==
    ASSUME LogInv, [Log!Next]_(Log!vars)
    PROVE  LogRow'
<1> USE DEF Log!At, Log!disk
<1>1. /\ LogType /\ LogRow /\ written \in Nat /\ Limit \in Nat
      /\ log.lines \in Seq(1 .. written) /\ bak.lines \in Seq(1 .. written)
      /\ Len(log.lines) \in Nat /\ Len(bak.lines) \in Nat
  <2>1. LogType /\ LogRow /\ log.lines \in Seq(1 .. written) /\ bak.lines \in Seq(1 .. written)
    BY DEF LogInv, LogType
  <2> QED BY <2>1, LogConstants DEF LogType
<1>n. written \in Nat /\ Len(log.lines) \in Nat /\ Len(bak.lines) \in Nat
  BY <1>1
<1>2. CASE UNCHANGED Log!vars
  BY <1>1, <1>2 DEF Log!vars, LogRow
<1>3. ASSUME NEW p \in Programs, Log!Open(p) \/ Log!Reopen(p) PROVE LogRow'
  <2>1. log'.lines = log.lines /\ UNCHANGED <<bak, written, young, astray>>
    BY <1>1, <1>3, LogOpens DEF Log!Open, Log!Reopen
  <2> QED BY <1>1, <2>1 DEF LogRow
<1>4. ASSUME NEW p \in Programs, Log!Refused(p) \/ Log!Close(p) \/ Log!Others(p)
      PROVE  LogRow'
  <2>1. UNCHANGED <<log, bak, written, young, astray>>
    BY <1>4 DEF Log!Refused, Log!Close, Log!Others, Log!Calls, Log!debug_logging,
                Log!log_file_init, Log!write_file, Log!log_file_close
  <2> QED BY <1>1, <2>1 DEF LogRow
<1>5. ASSUME NEW p \in Programs, Log!Move(p) PROVE LogRow'
  <2>0. UNCHANGED <<written, astray>>
    BY <1>5 DEF Log!Move
  <2>1. CASE Log!NothingToMove
    BY <1>1, <2>0, <2>1 DEF Log!NothingToMove, LogRow
  <2>3. CASE Log!NotMoved
    <3>1. log'.lines = log.lines /\ bak' = bak /\ young' = young
      <4>1. /\ bak' = bak /\ young' = young /\ log' = [log EXCEPT !.unmoved = @ + 1]
            /\ log \in [file : 0 .. files, lines : Seq(1 .. written), unmoved : Fails]
        BY <1>1, <2>3 DEF Log!NotMoved, LogType
      <4> QED BY <4>1
    <3> QED BY <1>1, <2>0, <3>1 DEF LogRow
  <2>2. CASE Log!Moved
    <3>1. /\ bak' = log /\ log'.lines = <<>> /\ UNCHANGED <<written, astray>>
          /\ ~young' => ~young /\ ~(Len(log.lines) < Limit)
      <4>1. bak' = log /\ log' = Log!NoFile /\ UNCHANGED <<written, astray>>
        BY <2>0, <2>2 DEF Log!Moved
      <4>2. young' = (young \/ Len(log.lines) < Limit)
        BY <2>2 DEF Log!Moved
      <4>3. ~young' => ~young /\ ~(Len(log.lines) < Limit)
        BY <4>2, Zenon
      <4> QED BY <4>1, <4>3 DEF Log!NoFile
    <3>2. SUFFICES ASSUME ~young', ~astray'
                   PROVE  /\ \A n \in 1 .. Len(bak'.lines) :
                                bak'.lines[n] = written - 0 - Len(bak'.lines) + n
                          /\ Len(bak'.lines) >= Limit
      <4>1. log.file # 0 /\ bak'.file = log.file /\ Len(log'.lines) = 0
        BY <2>2, <3>1 DEF Log!Moved
      <4> QED BY <3>1, <4>1 DEF LogRow
    <3>3. \A n \in 1 .. Len(log.lines) : log.lines[n] = written - Len(log.lines) + n
      BY <1>1, <3>1, <3>2 DEF LogRow
    <3>4. Len(bak'.lines) = Len(log.lines) /\ bak'.lines = log.lines
      BY <3>1
    <3>5. ASSUME NEW n \in 1 .. Len(log.lines)
          PROVE  bak'.lines[n] = written - 0 - Len(bak'.lines) + n
      <4>1. log.lines[n] = written - Len(log.lines) + n
        BY <3>3, <3>5
      <4> QED BY <1>n, <3>4, <4>1
    <3>6. Len(bak'.lines) >= Limit
      BY <1>1, <1>n, <3>1, <3>2, <3>4
    <3> QED BY <3>4, <3>5, <3>6
  <2> QED BY <1>5, <2>1, <2>2, <2>3 DEF Log!Move
<1>6. ASSUME NEW p \in Programs, Log!Write(p) PROVE LogRow'
  <2>1. SUFFICES ASSUME ~young', ~astray' PROVE LogRow'
    BY DEF LogRow
  <2>2. young' = young /\ ~astray /\ fp[p] = log.file /\ written' = written + 1
    BY <1>6, <2>1, Zenon DEF Log!Write
  <2>3. log.file # 0 /\ bak.file # fp[p]
    BY <1>1, <1>6, <2>2 DEF Log!Write, LogType
  <2>4. /\ log'.lines = Append(log.lines, written + 1) /\ bak'.lines = bak.lines
        /\ bak'.file = bak.file
    BY <1>1, <1>6, <2>2, <2>3, LogAppends DEF Log!Write
  <2>5. /\ Len(log'.lines) = Len(log.lines) + 1 
        /\ \A n \in 1 .. Len(log.lines) : log'.lines[n] = log.lines[n]
        /\ log'.lines[Len(log.lines) + 1] = written + 1
    BY <1>1, <2>4
  <2>6. /\ \A n \in 1 .. Len(log.lines) : log.lines[n] = written - Len(log.lines) + n
        /\ \A n \in 1 .. Len(bak.lines) :
              bak.lines[n] = written - Len(log.lines) - Len(bak.lines) + n
        /\ bak.file = 0 => written = Len(log.lines)
        /\ bak.file # 0 => Len(bak.lines) >= Limit
    BY <1>1, <2>1, <2>2 DEF LogRow
  <2>7. ASSUME NEW n \in 1 .. Len(log'.lines)
        PROVE  log'.lines[n] = written' - Len(log'.lines) + n
    <3>1. n \in 1 .. Len(log.lines) + 1 /\ n \in Nat
      BY <1>1, <2>5, <2>7
    <3>2. CASE n = Len(log.lines) + 1
      <4>1. log'.lines[n] = written + 1 /\ Len(log'.lines) = n /\ written' = written + 1
        BY <2>2, <2>5, <3>2
      <4> QED BY <1>n, <3>1, <4>1
    <3>3. CASE n \in 1 .. Len(log.lines)
      <4>1. log'.lines[n] = written - Len(log.lines) + n
        BY <2>5, <2>6, <3>3
      <4>2. Len(log'.lines) = Len(log.lines) + 1 /\ written' = written + 1
        BY <2>2, <2>5
      <4>3. n \in Nat
        BY <3>1
      <4> QED BY <1>n, <4>1, <4>2, <4>3
    <3> QED BY <1>n, <3>1, <3>2, <3>3
  <2>8. ASSUME NEW n \in 1 .. Len(bak'.lines)
        PROVE  bak'.lines[n] = written' - Len(log'.lines) - Len(bak'.lines) + n
    <3>1. /\ bak'.lines[n] = bak.lines[n] /\ Len(bak'.lines) = Len(bak.lines)
          /\ written' = written + 1 /\ Len(log'.lines) = Len(log.lines) + 1
      BY <2>2, <2>4, <2>5
    <3>2. bak.lines[n] = written - Len(log.lines) - Len(bak.lines) + n
      BY <2>6, <2>8, <3>1
    <3> QED BY <1>n, <2>8, <3>1, <3>2
  <2>9. /\ bak'.file = 0 => written' = Len(log'.lines)
        /\ bak'.file # 0 => Len(bak'.lines) >= Limit
    BY <1>1, <2>2, <2>4, <2>5, <2>6
  <2> QED BY <2>7, <2>8, <2>9 DEF LogRow
<1> QED BY <1>2, <1>3, <1>4, <1>5, <1>6 DEF Log!Next, Log!main_log

(* The descriptors each program holds.                                     *)
LEMMA LogDescriptorsStep ==
    ASSUME LogInv, [Log!Next]_(Log!vars)
    PROVE  Log!DescriptorsAccounted'
<1> USE DEF LogInv, LogType, Log!At, Log!disk, Log!Descriptors, Log!Leaks,
            Log!DescriptorsAccounted
<1>1. CASE UNCHANGED Log!vars
  BY <1>1 DEF Log!vars
<1>a. ASSUME NEW p \in Programs,
             pc' \in [Programs -> {"idle", "close", "move", "reopen", "write", "crashed"}],
             \A q \in Programs \ {p} : /\ pc'[q] = pc[q] /\ descriptors'[q] = descriptors[q]
                                        /\ leaked'[q] = leaked[q] /\ gLogF'[q] = gLogF[q],
             descriptors'[p] = leaked'[p] + (IF gLogF'[p] THEN 1 ELSE 0)
                               + (IF pc'[p] \in {"close", "write"} THEN 1 ELSE 0)
      PROVE  Log!DescriptorsAccounted'
  BY <1>a
<1>2. ASSUME NEW p \in Programs, Log!main_log(p)
      PROVE  Log!DescriptorsAccounted'
  <2> USE DEF Log!main_log
  <2>1. leaked' = leaked /\ gLogF' = gLogF
    BY <1>2 DEF Log!Open, Log!Reopen, Log!Refused, Log!Close, Log!Move, Log!Write
  <2>2. \E to \in {"idle", "close", "move", "reopen", "write", "crashed"} :
          /\ pc' = [pc EXCEPT ![p] = to]
          /\ \/ /\ descriptors' = [descriptors EXCEPT ![p] = @ + 1]
                /\ pc[p] \in {"idle", "reopen"} /\ to \in {"close", "write"}
             \/ /\ descriptors' = [descriptors EXCEPT ![p] = @ + -1]
                /\ pc[p] \in {"close", "write"} /\ to \in {"idle", "move"}
             \/ /\ descriptors' = descriptors
                /\ pc[p] \in {"idle", "move", "reopen"} /\ to \in {"idle", "reopen"}
    <3>1. CASE Log!Open(p)
      BY <3>1 DEF Log!Open, Log!OpensLog
    <3>2. CASE Log!Reopen(p)
      BY <3>2 DEF Log!Reopen, Log!OpensLog
    <3>3. CASE Log!Refused(p) \/ Log!Close(p) \/ Log!Move(p) \/ Log!Write(p)
      BY <3>3 DEF Log!Refused, Log!Close, Log!Move, Log!Write
    <3> QED BY <1>2, <3>1, <3>2, <3>3
  <2>3. descriptors'[p] = leaked'[p] + (IF gLogF'[p] THEN 1 ELSE 0)
                          + (IF pc'[p] \in {"close", "write"} THEN 1 ELSE 0)
    BY <2>1, <2>2
  <2>4. /\ pc' \in [Programs -> {"idle", "close", "move", "reopen", "write", "crashed"}]
        /\ \A q \in Programs \ {p} : pc'[q] = pc[q] /\ descriptors'[q] = descriptors[q]
    BY <2>2
  <2>5. \A q \in Programs \ {p} : leaked'[q] = leaked[q] /\ gLogF'[q] = gLogF[q]
    BY <2>1
  <2> HIDE DEF Log!DescriptorsAccounted
  <2> QED BY <1>a, <2>3, <2>4, <2>5
<1>3. ASSUME NEW p \in Programs, Log!Others(p)
      PROVE  Log!DescriptorsAccounted'
  <2> USE DEF Log!Calls
  <2>1. CASE Log!debug_logging(p)
    <3>1. /\ pc' = pc /\ gLogF' = gLogF
          /\ descriptors' = [descriptors EXCEPT ![p] = @ + 1]
          /\ leaked' = [leaked EXCEPT ![p] = @ + 1]
      BY <2>1 DEF Log!debug_logging
    <3>2. descriptors'[p] = descriptors[p] + 1 /\ leaked'[p] = leaked[p] + 1
      BY <3>1
    <3>3. \A q \in Programs \ {p} : descriptors'[q] = descriptors[q] /\ leaked'[q] = leaked[q]
      BY <3>1
    <3>4. UNCHANGED <<gLogF, pc>>
      BY <3>1
    <3>5. descriptors'[p] = leaked'[p] + (IF gLogF'[p] THEN 1 ELSE 0)
                            + (IF pc'[p] \in {"close", "write"} THEN 1 ELSE 0)
      BY <3>2, <3>4
    <3> QED BY <1>a, <3>3, <3>4, <3>5
  <2>2. CASE Log!log_file_init(p)
    <3>1. /\ pc' = pc /\ pc[p] = "idle"
          /\ \/ /\ descriptors' = [descriptors EXCEPT ![p] = @ + 1]
                /\ gLogF' = [gLogF EXCEPT ![p] = TRUE]
             \/ descriptors' = descriptors /\ gLogF' = [gLogF EXCEPT ![p] = FALSE]
          /\ leaked' = [leaked EXCEPT ![p] = IF gLogF[p] THEN @ + 1 ELSE @]
      BY <2>2 DEF Log!log_file_init
    <3>3. /\ descriptors'[p] = descriptors[p] + (IF gLogF'[p] THEN 1 ELSE 0)
          /\ leaked'[p] = leaked[p] + (IF gLogF[p] THEN 1 ELSE 0)
      BY <3>1
    <3>4. \A q \in Programs \ {p} : /\ descriptors'[q] = descriptors[q] /\ leaked'[q] = leaked[q]
                                    /\ gLogF'[q] = gLogF[q]
      BY <3>1
    <3>5. descriptors'[p] = leaked'[p] + (IF gLogF'[p] THEN 1 ELSE 0)
                            + (IF pc'[p] \in {"close", "write"} THEN 1 ELSE 0)
      <4>2. descriptors[p] \in Int /\ leaked[p] \in Int /\ pc'[p] = "idle"
        BY <3>1
      <4>3. pc[p] \notin {"close", "write"}
        BY <3>1
      <4>4. descriptors[p] = leaked[p] + (IF gLogF[p] THEN 1 ELSE 0) + 0
        BY <4>3
      <4>1. descriptors[p] = leaked[p] + (IF gLogF[p] THEN 1 ELSE 0)
        BY <4>2, <4>4
      <4> QED BY <3>3, <4>1, <4>2
    <3> QED BY <1>a, <3>1, <3>4, <3>5
  <2>3. CASE Log!write_file(p)
    <3>1. /\ pc[p] = "idle" /\ pc' = [pc EXCEPT ![p] = "crashed"]
          /\ UNCHANGED <<descriptors, leaked, gLogF>>
      BY <2>3 DEF Log!write_file
    <3> QED BY <1>a, <3>1
  <2>4. CASE Log!log_file_close(p)
    <3>1. /\ pc' = pc /\ gLogF[p] /\ gLogF' = [gLogF EXCEPT ![p] = FALSE] /\ leaked' = leaked
          /\ descriptors' = [descriptors EXCEPT ![p] = @ + -1]
      BY <2>4 DEF Log!log_file_close
    <3>2. descriptors'[p] = descriptors[p] - 1 /\ ~gLogF'[p]
      BY <3>1
    <3>3. \A q \in Programs \ {p} : descriptors'[q] = descriptors[q] /\ gLogF'[q] = gLogF[q]
      BY <3>1
    <3>4. descriptors'[p] = leaked'[p] + (IF gLogF'[p] THEN 1 ELSE 0)
                            + (IF pc'[p] \in {"close", "write"} THEN 1 ELSE 0)
      BY <3>1, <3>2
    <3> QED BY <1>a, <3>1, <3>3, <3>4
  <2> QED BY <1>3, <2>1, <2>2, <2>3, <2>4 DEF Log!Others
<1> QED BY <1>1, <1>2, <1>3 DEF Log!Next

(* The last Limit lines are at the end of the row, or make up all of it.   *)
LEMMA LogInvImplies ==
    LogInv => Log!LogBounded /\ Log!RecentKept /\ Log!DescriptorsAccounted /\ Log!TypeOK
<1> SUFFICES ASSUME LogInv
             PROVE  Log!LogBounded /\ Log!RecentKept /\ Log!DescriptorsAccounted /\ Log!TypeOK
  OBVIOUS
<1>1. /\ LogType /\ LogCounts /\ LogRow /\ Log!DescriptorsAccounted
      /\ log.lines \in Seq(1 .. written) /\ bak.lines \in Seq(1 .. written)
  BY DEF LogInv, LogType
<1>2. /\ written \in Nat /\ Len(log.lines) \in Nat /\ Len(bak.lines) \in Nat
      /\ Limit \in Nat \ {0} /\ MaxLines \in Nat /\ Cardinality(Programs) \in Nat
      /\ log.unmoved \in Fails /\ bak.unmoved \in Fails
      /\ log.unmoved \in Nat /\ bak.unmoved \in Nat
  BY <1>1, LogConstants DEF LogType, Fails
<1>3. /\ DOMAIN log.lines = 1 .. Len(log.lines) /\ DOMAIN bak.lines = 1 .. Len(bak.lines)
      /\ \A n \in DOMAIN log.lines : log.lines[n] \in 1 .. written
      /\ \A n \in DOMAIN bak.lines : bak.lines[n] \in 1 .. written
  <2>1. ASSUME NEW s \in Seq(1 .. written)
        PROVE  DOMAIN s = 1 .. Len(s) /\ \A n \in DOMAIN s : s[n] \in 1 .. written
    <3>1. DOMAIN s = 1 .. Len(s)
      OBVIOUS
    <3>2. \A n \in 1 .. Len(s) : s[n] \in 1 .. written
      BY ElementOfSeq, Zenon
    <3> QED BY <3>1, <3>2
  <2> QED BY <1>1, <2>1
<1>4. /\ Cardinality(Writers(log.file) \cup Reopeners) \in Nat
      /\ Cardinality(Writers(bak.file)) \in Nat
      /\ Cardinality(Busy) \in Nat
  BY Counted DEF Writers, Reopeners, Busy
<1>5. \A S : Log!Cardinality(S) = Cardinality(S)
  BY DEF Log!Cardinality, Cardinality
<1>6. Log!LogBounded
  <2>1. /\ Len(log.lines) <= MostLines + log.unmoved
        /\ Len(bak.lines) <= MostLines + bak.unmoved
    <3>1. /\ Len(log.lines) + Cardinality(Writers(log.file) \cup Reopeners)
                <= MostLines + log.unmoved
          /\ Len(bak.lines) + Cardinality(Writers(bak.file)) <= MostLines + bak.unmoved
      BY <1>1 DEF LogCounts
    <3>2. MostLines \in Int
      BY <1>2 DEF MostLines
    <3>3. \A l, c, m \in Int : 0 <= c /\ l + c <= m => l <= m
      OBVIOUS
    <3>4. /\ MostLines + log.unmoved \in Int /\ MostLines + bak.unmoved \in Int
          /\ Cardinality(Writers(log.file) \cup Reopeners) >= 0
          /\ Cardinality(Writers(bak.file)) >= 0
      BY <1>2, <1>4, <3>2
    <3> QED BY <1>2, <1>4, <3>1, <3>3, <3>4
  <2> QED BY <1>5, <2>1 DEF Log!LogBounded, MostLines
<1>7. Log!RecentKept
  <2> SUFFICES ASSUME ~young, ~astray, NEW n \in Nat,
                      0 < n, n <= written, written - Limit + 1 <= n
               PROVE  \E f \in {log, bak} : \E k \in DOMAIN f.lines : f.lines[k] = n
    <3>1. \A n \in Log!Recent \cap 1 .. written :
             n \in Nat /\ 0 < n /\ n <= written /\ written - Limit + 1 <= n
      BY <1>2 DEF Log!Recent
    <3> QED BY <3>1 DEF Log!RecentKept
  <2>1. n \in Nat /\ 0 < n /\ n <= written /\ written - Limit + 1 <= n
    OBVIOUS
  <2>2. /\ \A k \in 1 .. Len(log.lines) : log.lines[k] = written - Len(log.lines) + k
        /\ \A k \in 1 .. Len(bak.lines) :
              bak.lines[k] = written - Len(log.lines) - Len(bak.lines) + k
        /\ bak.file = 0 => written = Len(log.lines)
        /\ bak.file # 0 => Len(bak.lines) >= Limit
    BY <1>1 DEF LogRow
  <2>3. CASE n > written - Len(log.lines)
    <3>1. PICK k \in 1 .. Len(log.lines) : written - Len(log.lines) + k = n
      <4> DEFINE a == Len(log.lines)
      <4>1. a \in Nat /\ n > written - a
        BY <1>2, <2>3
      <4> HIDE DEF a
      <4>2. n - written + a \in 1 .. a /\ written - a + (n - written + a) = n
        BY <1>2, <2>1, <4>1
      <4> QED BY <4>2 DEF a
    <3> QED BY <1>3, <2>2, <3>1
  <2>4. CASE n <= written - Len(log.lines)
    <3>1. bak.file # 0 /\ Len(bak.lines) >= Limit
      BY <1>2, <2>1, <2>2, <2>4
    <3>2. PICK k \in 1 .. Len(bak.lines) : written - Len(log.lines) - Len(bak.lines) + k = n
      <4> DEFINE a == Len(log.lines)
                 b == Len(bak.lines)
      <4>1. a \in Nat /\ b \in Nat /\ n <= written - a /\ b >= Limit
        BY <1>2, <2>4, <3>1
      <4> HIDE DEF a, b
      <4>2. /\ n - written + a + b \in 1 .. b
            /\ written - a - b + (n - written + a + b) = n
        BY <1>2, <2>1, <4>1
      <4> QED BY <4>2 DEF a, b
    <3> QED BY <1>3, <2>2, <3>2
  <2> QED BY <1>2, <2>1, <2>3, <2>4
<1>8. Log!TypeOK
  <2>1. written <= MaxLines + Cardinality(Programs)
    BY <1>1, <1>2, <1>4 DEF LogCounts
  <2>2. written \in 0 .. MaxLines + Log!Cardinality(Programs)
    BY <1>2, <1>5, <2>1
  <2>3. \A f \in {log, bak} : f.file \in 0 .. files
    BY <1>1 DEF LogType
  <2>4. \A f \in {log, bak} : \A k \in DOMAIN f.lines : f.lines[k] \in 1 .. written
    BY <1>3
  <2>5. /\ log.file # 0 => log.file # bak.file
        /\ \A p \in Programs :
              /\ pc[p] \in {"idle", "close", "move", "reopen", "write", "crashed"}
              /\ fp[p] \in 0 .. files
    BY <1>1 DEF LogType
  <2>6. \A f \in {log, bak} : f.unmoved \in 0 .. MaxUnmoved
    BY <1>2 DEF Fails
  <2> QED BY <2>2, <2>3, <2>4, <2>5, <2>6 DEF Log!TypeOK
<1> QED BY <1>1, <1>6, <1>7, <1>8

-----------------------------------------------------------------------------
(* Configuration.  While no number is wider than the room for it, the file *)
(* keeps its lines: in an address line there are a key, Width - 2 cells    *)
(* and the line end.  AddressLines are the cells before these lines.       *)
Cells == Cnf!Updated \cup {"option subnet", "option lease", "net", "host", "\n"} \cup Cnf!Digits
Width == room + 4
Size == 3 * Width + 4
AddressLines == {0, Width, 2 * Width + 2}
LineEnds == {Width, 2 * Width, 2 * Width + 2, 3 * Width + 2, Size}
Narrow == \A w \in widths : w <= room

CnfType ==
    /\ file \in Seq(Cells) /\ at \in 0 .. Len(file) /\ conf \in {"idle", "loop", "crashed"}
    /\ netseg \in Netsegs /\ calls \in 0 .. MaxCalls
    /\ room \in Nat \ {0} /\ room \in widths /\ Len(netseg) \in widths /\ IsFiniteSet(widths)

CnfShape ==
    /\ Len(file) = Size
    /\ \A k \in 1 .. Size : file[k] = "\n" <=> k \in LineEnds
    /\ \A k \in 1 .. Size : file[k] \in Cnf!Updated <=> k - 1 \in AddressLines
    /\ file[1] = "start " /\ file[Width + 1] = "end " /\ file[2 * Width + 3] = "opt router "
    /\ file[2 * Width + 1] = "option subnet" /\ file[3 * Width + 3] = "option lease"

(* The line after cell b has the number of this call.                      *)
HasNumber(f, b, v) == \A k \in 1 .. Len(v) : f[b + 1 + k] = v[k]

(* The lines the loop has passed have it; and between two turns it is      *)
(* before a line, or behind a number it has just written.                  *)
CnfDone ==
    \A b \in AddressLines :
        conf = "idle" \/ (conf = "loop" /\ b < at) => HasNumber(file, b, Cnf!val(netseg))

CnfAt ==
    conf = "loop" => at \in {0} \cup LineEnds \cup {b + 3 + Len(netseg) : b \in AddressLines}

CnfInv == CnfType /\ (Narrow => CnfShape /\ CnfDone /\ CnfAt)

(* The cells of an address.                                                *)
LEMMA ValCells ==
    ASSUME NEW s \in Netsegs
    PROVE  /\ Len(s) \in Nat \ {0} /\ s \in Seq(Cnf!Digits)
           /\ Cnf!val(s) \in Seq(Cnf!Digits \cup {"net", "host"})
           /\ Cnf!val(s) \in Seq(Cells) /\ Len(Cnf!val(s)) = Len(s) + 2
<1> DEFINE C == Cnf!Digits \cup {"net", "host"}
<1>1. s \in Seq(Cnf!Digits) /\ s # <<>>
  BY FilesAssumptions DEF Cnf!ConfAssumption
<1>2. Len(s) \in Nat \ {0}
  BY <1>1, EmptySeq
<1>3. ASSUME NEW S, Cnf!Digits \subseteq S, "net" \in S, "host" \in S
      PROVE  Cnf!val(s) \in Seq(S) /\ Len(Cnf!val(s)) = Len(s) + 2
  <2>1. s \in Seq(S)
    BY <1>1, <1>3
  <2>2. <<"net">> \in Seq(S) /\ Len(<<"net">>) = 1 /\ <<"host">> \in Seq(S) /\ Len(<<"host">>) = 1
    BY <1>3
  <2>3. <<"net">> \o s \in Seq(S) /\ Len(<<"net">> \o s) = 1 + Len(s)
    BY <2>1, <2>2, ConcatProperties
  <2>4. Cnf!val(s) \in Seq(S) /\ Len(Cnf!val(s)) = (1 + Len(s)) + 1
    BY <2>2, <2>3, ConcatProperties DEF Cnf!val
  <2> QED BY <2>4, <1>2
<1>4. Cnf!val(s) \in Seq(Cells)
  BY <1>3 DEF Cells
<1>5. Cnf!val(s) \in Seq(C) /\ Len(Cnf!val(s)) = Len(s) + 2
  BY <1>3
<1> QED BY <1>1, <1>2, <1>4, <1>5

(* None of them is the end of a line or a key.                             *)
LEMMA ValIsPlain ==
    ASSUME NEW s \in Netsegs, NEW k \in 1 .. Len(Cnf!val(s))
    PROVE  Cnf!val(s)[k] # "\n" /\ Cnf!val(s)[k] \notin Cnf!Updated
<1>1. Cnf!val(s)[k] \in Cnf!Digits \cup {"net", "host"}
  BY ValCells, ElementOfSeq
<1> QED BY <1>1 DEF Cnf!Digits, Cnf!Updated

(* A line of one cell.                                                     *)
LEMMA OneCell ==
    ASSUME NEW c \in Cells
    PROVE  <<c>> \in Seq(Cells) /\ Len(<<c>>) = 1 /\ <<c>>[1] = c
OBVIOUS

(* A line behind the cells of f.                                           *)
LEMMA LineBehind ==
    ASSUME NEW f \in Seq(Cells), NEW l \in Seq(Cells)
    PROVE  LET g == f \o l \o <<"\n">>
           IN  /\ g \in Seq(Cells) /\ Len(g) = Len(f) + Len(l) + 1
               /\ \A k \in 1 .. Len(f) : g[k] = f[k]
               /\ \A k \in 1 .. Len(l) : g[Len(f) + k] = l[k]
               /\ g[Len(f) + Len(l) + 1] = "\n"
<1> DEFINE h == f \o l
           e == <<"\n">>
<1>1. /\ h \in Seq(Cells) /\ Len(h) = Len(f) + Len(l)
      /\ \A k \in 1 .. Len(f) + Len(l) : h[k] = IF k <= Len(f) THEN f[k] ELSE l[k - Len(f)]
  BY ConcatProperties
<1>2. e \in Seq(Cells) /\ Len(e) = 1 /\ e[1] = "\n"
  <2>1. "\n" \in Cells
    BY DEF Cells
  <2> QED BY <2>1
<1> HIDE DEF h, e
<1>a. h \in Seq(Cells) /\ e \in Seq(Cells)
  BY <1>1, <1>2
<1>3. /\ h \o e \in Seq(Cells) /\ Len(h \o e) = Len(h) + Len(e)
      /\ \A k \in 1 .. Len(h) + Len(e) : (h \o e)[k] = IF k <= Len(h) THEN h[k] ELSE e[k - Len(h)]
  BY <1>a, ConcatProperties
<1>4. Len(f) \in Nat /\ Len(l) \in Nat
  BY LenProperties
<1>5. Len(h \o e) = Len(f) + Len(l) + 1
  BY <1>1, <1>2, <1>3, <1>4
<1>6. \A k \in 1 .. Len(f) : (h \o e)[k] = f[k]
  BY <1>1, <1>2, <1>3, <1>4
<1>7. ASSUME NEW k \in 1 .. Len(l) PROVE (h \o e)[Len(f) + k] = l[k]
  <2>1. /\ Len(f) + k \in 1 .. Len(f) + Len(l) /\ ~(Len(f) + k <= Len(f)) /\ Len(f) + k - Len(f) = k
        /\ Len(f) + k \in 1 .. Len(h) + Len(e) /\ Len(f) + k <= Len(h)
    BY <1>1, <1>2, <1>4
  <2> QED BY <2>1, <1>1, <1>3
<1>8. (h \o e)[Len(f) + Len(l) + 1] = "\n"
  <2>1. /\ Len(f) + Len(l) + 1 \in 1 .. Len(h) + Len(e) /\ ~(Len(f) + Len(l) + 1 <= Len(h))
        /\ Len(f) + Len(l) + 1 - Len(h) = 1
    BY <1>1, <1>2, <1>4
  <2> QED BY <2>1, <1>2, <1>3
<1> QED BY <1>3, <1>5, <1>6, <1>7, <1>8 DEF h, e

(* An address line without its end.                                        *)
LEMMA AddressCells ==
    ASSUME NEW key \in Cells, NEW s \in Netsegs
    PROVE  LET l == <<key>> \o Cnf!val(s)
           IN  /\ l \in Seq(Cells) /\ Len(l) = Len(s) + 3 /\ l[1] = key
               /\ \A k \in 1 .. Len(s) + 2 : l[k + 1] = Cnf!val(s)[k]
<1> DEFINE h == <<key>>
           v == Cnf!val(s)
<1>1. h \in Seq(Cells) /\ Len(h) = 1 /\ h[1] = key
  OBVIOUS
<1>2. v \in Seq(Cells) /\ Len(v) = Len(s) + 2 /\ Len(s) \in Nat
  BY ValCells
<1> HIDE DEF h, v
<1>3. /\ h \o v \in Seq(Cells) /\ Len(h \o v) = Len(h) + Len(v)
      /\ \A k \in 1 .. Len(h) + Len(v) : (h \o v)[k] = IF k <= Len(h) THEN h[k] ELSE v[k - Len(h)]
  <2>1. h \in Seq(Cells) /\ v \in Seq(Cells)
    BY <1>1, <1>2
  <2> QED BY <2>1, ConcatProperties
<1>4. Len(h \o v) = Len(s) + 3 /\ (h \o v)[1] = key
  BY <1>1, <1>2, <1>3
<1>5. ASSUME NEW k \in 1 .. Len(s) + 2 PROVE (h \o v)[k + 1] = v[k]
  <2>1. k + 1 \in 1 .. Len(h) + Len(v) /\ ~(k + 1 <= Len(h)) /\ k + 1 - Len(h) = k
    BY <1>1, <1>2
  <2> QED BY <2>1, <1>3
<1> QED BY <1>3, <1>4, <1>5 DEF h, v

(* Where the cells of the file are if each address fills the room for it.  *)
Layout(f, s, w) ==
    /\ f \in Seq(Cells) /\ Len(f) = 3 * w + 4
    /\ f[1] = "start " /\ f[w + 1] = "end " /\ f[2 * w + 3] = "opt router "
    /\ f[2 * w + 1] = "option subnet" /\ f[3 * w + 3] = "option lease"
    /\ f[w] = "\n" /\ f[2 * w] = "\n" /\ f[2 * w + 2] = "\n" /\ f[3 * w + 2] = "\n"
    /\ f[3 * w + 4] = "\n"
    /\ HasNumber(f, 0, Cnf!val(s)) /\ HasNumber(f, w, Cnf!val(s))
    /\ HasNumber(f, 2 * w + 2, Cnf!val(s))

(* It is the layout of a file made of such lines, cell by cell.            *)
LEMMA TerminatedLayout ==
    ASSUME NEW s \in Netsegs
    PROVE  Layout(Cnf!Terminated(Cnf!Lines(s)), s, Len(s) + 4)
<1> DEFINE v == Cnf!val(s)
           w == Len(s) + 4
           la == <<"start ">> \o v
           lb == <<"end ">> \o v
           lc == <<"option subnet">>
           ld == <<"opt router ">> \o v
           le == <<"option lease">>
           e == <<"\n">>
           fa == la \o e
           fb == fa \o lb \o e
           fc == fb \o lc \o e
           fd == fc \o ld \o e
           f == fd \o le \o e
<1>1. Cnf!Terminated(Cnf!Lines(s)) = f
  BY DEF Cnf!Terminated, Cnf!Lines
<1>2. /\ "start " \in Cells /\ "end " \in Cells /\ "opt router " \in Cells
      /\ "option subnet" \in Cells /\ "option lease" \in Cells
  BY DEF Cells, Cnf!Updated
<1>3. Len(s) \in Nat /\ Len(v) = Len(s) + 2 /\ w \in Nat /\ Len(s) + 3 = w - 1 /\ Len(s) + 2 = w - 2 /\ w > 4
  BY ValCells
<1>4. /\ la \in Seq(Cells) /\ Len(la) = Len(s) + 3 /\ la[1] = "start "
      /\ \A k \in 1 .. Len(s) + 2 : la[k + 1] = v[k]
  BY <1>2, AddressCells
<1>5. /\ lb \in Seq(Cells) /\ Len(lb) = Len(s) + 3 /\ lb[1] = "end "
      /\ \A k \in 1 .. Len(s) + 2 : lb[k + 1] = v[k]
  BY <1>2, AddressCells
<1>6. /\ ld \in Seq(Cells) /\ Len(ld) = Len(s) + 3 /\ ld[1] = "opt router "
      /\ \A k \in 1 .. Len(s) + 2 : ld[k + 1] = v[k]
  <2>1. "opt router " \in Cells
    BY <1>2
  <2> QED BY <2>1, AddressCells
<1>7. /\ lc \in Seq(Cells) /\ Len(lc) = 1 /\ lc[1] = "option subnet"
  <2>1. "option subnet" \in Cells
    BY <1>2
  <2> QED BY <2>1, OneCell
<1>8. /\ le \in Seq(Cells) /\ Len(le) = 1 /\ le[1] = "option lease"
  <2>1. "option lease" \in Cells
    BY <1>2
  <2> QED BY <2>1, OneCell
<1>9. fa = <<>> \o la \o e
  BY <1>4, ConcatEmptySeq
<1>10. <<>> \in Seq(Cells) /\ Len(<<>>) = 0
  OBVIOUS
<1> HIDE DEF v, w, la, lb, lc, ld, le, e
<1>a. Len(la) = w - 1 /\ Len(lb) = w - 1 /\ Len(ld) = w - 1 /\ Len(lc) = 1 /\ Len(le) = 1
  <2>1. Len(la) = Len(s) + 3 /\ Len(lb) = Len(s) + 3 /\ Len(ld) = Len(s) + 3
    BY <1>4, <1>5, <1>6
  <2> QED BY <2>1, <1>3, <1>7, <1>8
<1>b. w \in Nat /\ w > 4
  BY <1>3
<1>11. /\ fa \in Seq(Cells) /\ Len(fa) = w
       /\ \A k \in 1 .. w - 1 : fa[k] = la[k]
       /\ fa[w] = "\n"
  <2>1. LET g == <<>> \o la \o <<"\n">>
        IN  /\ g \in Seq(Cells) /\ Len(g) = Len(<<>>) + Len(la) + 1
            /\ \A k \in 1 .. Len(la) : g[Len(<<>>) + k] = la[k]
            /\ g[Len(<<>>) + Len(la) + 1] = "\n"
    BY <1>4, <1>10, LineBehind
  <2> HIDE DEF fa
  <2>2. /\ fa \in Seq(Cells) /\ Len(fa) = 0 + Len(la) + 1
        /\ \A k \in 1 .. Len(la) : fa[0 + k] = la[k]
        /\ fa[0 + Len(la) + 1] = "\n"
    BY <2>1, <1>9, <1>10 DEF e
  <2>3. Len(la) = w - 1 /\ 0 + Len(la) + 1 = w /\ \A k \in 1 .. w - 1 : 0 + k = k
    BY <1>a, <1>b
  <2> QED BY <2>2, <2>3
<1> HIDE DEF fa
<1>12. /\ fb \in Seq(Cells) /\ Len(fb) = 2 * w
       /\ \A k \in 1 .. w : fb[k] = fa[k]
       /\ \A k \in 1 .. w - 1 : fb[w + k] = lb[k]
       /\ fb[2 * w] = "\n"
  <2>1. /\ fb \in Seq(Cells) /\ Len(fb) = Len(fa) + Len(lb) + 1
        /\ \A k \in 1 .. Len(fa) : fb[k] = fa[k]
        /\ \A k \in 1 .. Len(lb) : fb[Len(fa) + k] = lb[k]
        /\ fb[Len(fa) + Len(lb) + 1] = "\n"
    BY <1>5, <1>11, LineBehind DEF e
  <2>2. Len(fa) = w /\ Len(lb) = w - 1 /\ Len(fa) + Len(lb) + 1 = 2 * w
    <3>1. Len(fa) = w
      BY <1>11
    <3> QED BY <3>1, <1>a, <1>b
  <2> HIDE DEF fb
  <2> QED BY <2>1, <2>2
<1> HIDE DEF fb
<1>13. /\ fc \in Seq(Cells) /\ Len(fc) = 2 * w + 2
       /\ \A k \in 1 .. 2 * w : fc[k] = fb[k]
       /\ fc[2 * w + 1] = "option subnet"
       /\ fc[2 * w + 2] = "\n"
  <2>1. /\ fc \in Seq(Cells) /\ Len(fc) = Len(fb) + Len(lc) + 1
        /\ \A k \in 1 .. Len(fb) : fc[k] = fb[k]
        /\ \A k \in 1 .. Len(lc) : fc[Len(fb) + k] = lc[k]
        /\ fc[Len(fb) + Len(lc) + 1] = "\n"
    BY <1>7, <1>12, LineBehind DEF e
  <2>2. Len(fb) = 2 * w /\ Len(lc) = 1 /\ Len(fb) + Len(lc) + 1 = 2 * w + 2 /\ 1 \in 1 .. Len(lc)
    <3>1. Len(fb) = 2 * w
      BY <1>12
    <3> QED BY <3>1, <1>a, <1>b
  <2> HIDE DEF fc
  <2> QED BY <2>1, <2>2, <1>7
<1> HIDE DEF fc
<1>14. /\ fd \in Seq(Cells) /\ Len(fd) = 3 * w + 2
       /\ \A k \in 1 .. 2 * w + 2 : fd[k] = fc[k]
       /\ \A k \in 1 .. w - 1 : fd[2 * w + 2 + k] = ld[k]
       /\ fd[3 * w + 2] = "\n"
  <2>1. /\ fd \in Seq(Cells) /\ Len(fd) = Len(fc) + Len(ld) + 1
        /\ \A k \in 1 .. Len(fc) : fd[k] = fc[k]
        /\ \A k \in 1 .. Len(ld) : fd[Len(fc) + k] = ld[k]
        /\ fd[Len(fc) + Len(ld) + 1] = "\n"
    BY <1>6, <1>13, LineBehind DEF e
  <2>2. Len(fc) = 2 * w + 2 /\ Len(ld) = w - 1 /\ Len(fc) + Len(ld) + 1 = 3 * w + 2
    <3>1. Len(fc) = 2 * w + 2
      BY <1>13
    <3> QED BY <3>1, <1>a, <1>b
  <2> HIDE DEF fd
  <2> QED BY <2>1, <2>2
<1> HIDE DEF fd
<1>15. /\ f \in Seq(Cells) /\ Len(f) = 3 * w + 4
       /\ \A k \in 1 .. 3 * w + 2 : f[k] = fd[k]
       /\ f[3 * w + 3] = "option lease"
       /\ f[3 * w + 4] = "\n"
  <2>1. /\ f \in Seq(Cells) /\ Len(f) = Len(fd) + Len(le) + 1
        /\ \A k \in 1 .. Len(fd) : f[k] = fd[k]
        /\ \A k \in 1 .. Len(le) : f[Len(fd) + k] = le[k]
        /\ f[Len(fd) + Len(le) + 1] = "\n"
    BY <1>8, <1>14, LineBehind DEF e
  <2>2. Len(fd) = 3 * w + 2 /\ Len(le) = 1 /\ Len(fd) + Len(le) + 1 = 3 * w + 4 /\ 1 \in 1 .. Len(le)
        /\ Len(fd) + 1 = 3 * w + 3
    <3>1. Len(fd) = 3 * w + 2
      BY <1>14
    <3> QED BY <3>1, <1>a, <1>b
  <2> HIDE DEF f
  <2> QED BY <2>1, <2>2, <1>8
<1> HIDE DEF f
<1>16. \A k \in 1 .. w - 1 : f[k] = la[k] /\ f[w + k] = lb[k] /\ f[2 * w + 2 + k] = ld[k]
  <2> TAKE k \in 1 .. w - 1
  <2>1. /\ k \in 1 .. w /\ k \in 1 .. 2 * w /\ k \in 1 .. 2 * w + 2 /\ k \in 1 .. 3 * w + 2
        /\ w + k \in 1 .. 2 * w /\ w + k \in 1 .. 2 * w + 2 /\ w + k \in 1 .. 3 * w + 2
        /\ 2 * w + 2 + k \in 1 .. 3 * w + 2
    BY <1>b
  <2>2. /\ fb[k] = fa[k] /\ fc[k] = fb[k] /\ fd[k] = fc[k] /\ f[k] = fd[k]
        /\ fb[w + k] = lb[k] /\ fc[w + k] = fb[w + k] /\ fd[w + k] = fc[w + k] /\ f[w + k] = fd[w + k]
        /\ fd[2 * w + 2 + k] = ld[k] /\ f[2 * w + 2 + k] = fd[2 * w + 2 + k] /\ fa[k] = la[k]
    BY <2>1, <1>11, <1>12, <1>13, <1>14, <1>15
  <2> QED BY <2>2
<1>17. f[1] = "start " /\ f[w + 1] = "end " /\ f[2 * w + 3] = "opt router "
  <2>1. 1 \in 1 .. w - 1 /\ 2 * w + 2 + 1 = 2 * w + 3
    BY <1>3
  <2> QED BY <2>1, <1>16, <1>4, <1>5, <1>6
<1>18. /\ f[2 * w + 1] = "option subnet"
       /\ f[w] = "\n" /\ f[2 * w] = "\n" /\ f[2 * w + 2] = "\n" /\ f[3 * w + 2] = "\n"
  <2>1. /\ w \in 1 .. w /\ w \in 1 .. 2 * w /\ w \in 1 .. 2 * w + 2 /\ w \in 1 .. 3 * w + 2
        /\ 2 * w \in 1 .. 2 * w /\ 2 * w \in 1 .. 2 * w + 2 /\ 2 * w \in 1 .. 3 * w + 2
        /\ 2 * w + 1 \in 1 .. 2 * w + 2 /\ 2 * w + 1 \in 1 .. 3 * w + 2
        /\ 2 * w + 2 \in 1 .. 2 * w + 2 /\ 2 * w + 2 \in 1 .. 3 * w + 2
        /\ 3 * w + 2 \in 1 .. 3 * w + 2
    BY <1>b
  <2>2. f[2 * w + 1] = fc[2 * w + 1] /\ f[2 * w + 2] = fc[2 * w + 2] /\ f[3 * w + 2] = fd[3 * w + 2]
    BY <2>1, <1>14, <1>15
  <2>3. f[w] = fc[w] /\ f[2 * w] = fc[2 * w]
    BY <2>1, <1>14, <1>15
  <2>4. fc[w] = fa[w] /\ fc[2 * w] = fb[2 * w]
    BY <2>1, <1>12, <1>13
  <2> QED BY <2>2, <2>3, <2>4, <1>11, <1>12, <1>13, <1>14
<1>19. HasNumber(f, 0, v) /\ HasNumber(f, w, v) /\ HasNumber(f, 2 * w + 2, v)
  <2>1. ASSUME NEW k \in 1 .. Len(v)
        PROVE  f[0 + 1 + k] = v[k] /\ f[w + 1 + k] = v[k] /\ f[2 * w + 2 + 1 + k] = v[k]
    <3>1. /\ k \in 1 .. Len(s) + 2 /\ k + 1 \in 1 .. w - 1 /\ 0 + 1 + k = k + 1 /\ w + 1 + k = w + (k + 1)
          /\ 2 * w + 2 + 1 + k = 2 * w + 2 + (k + 1)
      BY <1>3
    <3> QED BY <3>1, <1>16, <1>4, <1>5, <1>6
  <2> QED BY <2>1 DEF HasNumber
<1> QED BY <1>1, <1>15, <1>17, <1>18, <1>19 DEF Layout, v, w

(* A cell is a key, the first of another line, the end of a line or in a   *)
(* number.                                                                 *)
LEMMA CellAt ==
    ASSUME NEW w \in Nat, w > 4, NEW k \in 1 .. 3 * w + 4
    PROVE  \/ k \in {1, w + 1, 2 * w + 3} \/ k \in {2 * w + 1, 3 * w + 3}
           \/ k \in {w, 2 * w, 2 * w + 2, 3 * w + 2, 3 * w + 4}
           \/ \E b \in {0, w, 2 * w + 2} : k \in b + 2 .. b + w - 1
<1>1. \/ k = 1 \/ k = w + 1 \/ k = 2 * w + 3 \/ k = 2 * w + 1 \/ k = 3 * w + 3
      \/ k = w \/ k = 2 * w \/ k = 2 * w + 2 \/ k = 3 * w + 2 \/ k = 3 * w + 4
      \/ k \in 0 + 2 .. 0 + w - 1 \/ k \in w + 2 .. w + w - 1
      \/ k \in 2 * w + 2 + 2 .. 2 * w + 2 + w - 1
  OBVIOUS
<1> QED BY <1>1

(* They are different cells.                                               *)
LEMMA CellsDiffer ==
    ASSUME NEW w \in Nat, w > 4
    PROVE  /\ \A k \in {1, w + 1, 2 * w + 3, 2 * w + 1, 3 * w + 3} :
                 k \notin {w, 2 * w, 2 * w + 2, 3 * w + 2, 3 * w + 4}
           /\ \A k \in {2 * w + 1, 3 * w + 3, w, 2 * w, 2 * w + 2, 3 * w + 2, 3 * w + 4} :
                 k - 1 \notin {0, w, 2 * w + 2}
           /\ \A b \in {0, w, 2 * w + 2} : \A k \in b + 2 .. b + w - 1 :
                 /\ k \notin {w, 2 * w, 2 * w + 2, 3 * w + 2, 3 * w + 4}
                 /\ k - 1 \notin {0, w, 2 * w + 2} /\ k \in 1 .. 3 * w + 4
                 /\ k \notin {1, w + 1, 2 * w + 3, 2 * w + 1, 3 * w + 3}
           /\ \A k \in {1, w + 1, 2 * w + 3} : k - 1 \in {0, w, 2 * w + 2}
           /\ \A b \in {0, w, 2 * w + 2} : b + 1 \in {1, w + 1, 2 * w + 3} /\ b \in Nat
           /\ \A k \in {1, w + 1, 2 * w + 3, 2 * w + 1, 3 * w + 3} : k \in 1 .. 3 * w + 4
OBVIOUS

(* A file laid out like this has the shape.                                *)
LEMMA LayoutShape ==
    ASSUME Len(netseg) = room, netseg \in Netsegs, Layout(file, netseg, Width)
    PROVE  CnfShape
<1> DEFINE v == Cnf!val(netseg)
           w == Width
<1>1. w \in Nat /\ w > 4 /\ Len(v) = w - 2
  BY ValCells DEF Width
<1>2. /\ Len(file) = 3 * w + 4 /\ file[1] = "start " /\ file[w + 1] = "end " /\ file[2 * w + 3] = "opt router "
      /\ file[2 * w + 1] = "option subnet" /\ file[3 * w + 3] = "option lease"
      /\ file[w] = "\n" /\ file[2 * w] = "\n" /\ file[2 * w + 2] = "\n" /\ file[3 * w + 2] = "\n"
      /\ file[3 * w + 4] = "\n"
      /\ HasNumber(file, 0, v) /\ HasNumber(file, w, v) /\ HasNumber(file, 2 * w + 2, v)
  BY DEF Layout
<1>3. \A k \in 1 .. Len(v) : v[k] # "\n" /\ v[k] \notin Cnf!Updated
  BY ValIsPlain
<1> HIDE DEF v, w
<1>4. ASSUME NEW b \in {0, w, 2 * w + 2}, NEW k \in b + 2 .. b + w - 1
      PROVE  file[k] # "\n" /\ file[k] \notin Cnf!Updated
  <2>1. b \in Nat
    BY <1>1
  <2>2. k - b - 1 \in 1 .. Len(v) /\ b + 1 + (k - b - 1) = k
    BY <1>1, <2>1
  <2>3. HasNumber(file, b, v)
    BY <1>2
  <2>4. file[k] = v[k - b - 1]
    BY <2>2, <2>3 DEF HasNumber
  <2> QED BY <2>2, <2>4, <1>3
<1>5. \A k \in {1, w + 1, 2 * w + 3} : file[k] # "\n" /\ file[k] \in Cnf!Updated
  BY <1>2 DEF Cnf!Updated
<1>6. \A k \in {2 * w + 1, 3 * w + 3} : file[k] # "\n" /\ file[k] \notin Cnf!Updated
  BY <1>2 DEF Cnf!Updated
<1>7. \A k \in {w, 2 * w, 2 * w + 2, 3 * w + 2, 3 * w + 4} : file[k] = "\n" /\ file[k] \notin Cnf!Updated
  BY <1>2 DEF Cnf!Updated
<1>8. \A k \in 1 .. 3 * w + 4 : file[k] = "\n" <=> k \in {w, 2 * w, 2 * w + 2, 3 * w + 2, 3 * w + 4}
  <2> TAKE k \in 1 .. 3 * w + 4
  <2>1. CASE k \in {w, 2 * w, 2 * w + 2, 3 * w + 2, 3 * w + 4}
    BY <2>1, <1>7
  <2>2. CASE k \in {1, w + 1, 2 * w + 3} \/ k \in {2 * w + 1, 3 * w + 3}
    <3>1. file[k] # "\n"
      BY <2>2, <1>5, <1>6
    <3>2. k \notin {w, 2 * w, 2 * w + 2, 3 * w + 2, 3 * w + 4}
      BY <2>2, <1>1, CellsDiffer
    <3> QED BY <3>1, <3>2
  <2>3. CASE \E b \in {0, w, 2 * w + 2} : k \in b + 2 .. b + w - 1
    BY <2>3, <1>1, <1>4, CellsDiffer
  <2> QED BY <2>1, <2>2, <2>3, <1>1, CellAt
<1>9. \A k \in 1 .. 3 * w + 4 : file[k] \in Cnf!Updated <=> k - 1 \in {0, w, 2 * w + 2}
  <2> TAKE k \in 1 .. 3 * w + 4
  <2>1. CASE k \in {w, 2 * w, 2 * w + 2, 3 * w + 2, 3 * w + 4} \/ k \in {2 * w + 1, 3 * w + 3}
    <3>1. file[k] \notin Cnf!Updated
      BY <2>1, <1>6, <1>7
    <3>2. k - 1 \notin {0, w, 2 * w + 2}
      BY <2>1, <1>1, CellsDiffer
    <3> QED BY <3>1, <3>2
  <2>2. CASE k \in {1, w + 1, 2 * w + 3}
    <3>1. file[k] \in Cnf!Updated
      BY <2>2, <1>5
    <3>2. k - 1 \in {0, w, 2 * w + 2}
      BY <2>2, <1>1, CellsDiffer
    <3> QED BY <3>1, <3>2
  <2>3. CASE \E b \in {0, w, 2 * w + 2} : k \in b + 2 .. b + w - 1
    BY <2>3, <1>1, <1>4, CellsDiffer
  <2> QED BY <2>1, <2>2, <2>3, <1>1, CellAt
<1> QED BY <1>2, <1>8, <1>9 DEF CnfShape, Size, LineEnds, AddressLines, w

(* And with numbers that fill the room, the shape leaves no choice.        *)
LEMMA ShapeLayout ==
    ASSUME CnfType, CnfShape, Len(netseg) = room,
           \A b \in AddressLines : HasNumber(file, b, Cnf!val(netseg))
    PROVE  Layout(file, netseg, Width)
<1>1. Width \in Nat /\ Width > 4
  BY DEF CnfType, Width
<1>2. \A k \in LineEnds : file[k] = "\n"
  <2>1. LineEnds \subseteq 1 .. Size
    BY <1>1 DEF LineEnds, Size
  <2> QED BY <2>1 DEF CnfShape
<1> QED BY <1>2 DEF CnfType, CnfShape, Layout, AddressLines, LineEnds, Size

(* There is one file of this layout for a number.                          *)
LEMMA LayoutUnique ==
    ASSUME NEW s \in Netsegs, NEW f, NEW g, Layout(f, s, Len(s) + 4), Layout(g, s, Len(s) + 4)
    PROVE  f = g
<1> DEFINE v == Cnf!val(s)
           w == Len(s) + 4
<1>1. w \in Nat /\ w > 4 /\ Len(v) = w - 2
  BY ValCells
<1>2. f \in Seq(Cells) /\ g \in Seq(Cells) /\ Len(f) = 3 * w + 4 /\ Len(g) = 3 * w + 4
  BY DEF Layout
<1>3. \A k \in {1, w + 1, 2 * w + 3} : f[k] = g[k]
  BY DEF Layout
<1>4. \A k \in {2 * w + 1, 3 * w + 3} : f[k] = g[k]
  BY DEF Layout
<1>5. \A k \in {w, 2 * w, 2 * w + 2, 3 * w + 2, 3 * w + 4} : f[k] = g[k]
  BY DEF Layout
<1>6. \A b \in {0, w, 2 * w + 2} : HasNumber(f, b, v) /\ HasNumber(g, b, v)
  BY DEF Layout
<1> HIDE DEF v, w
<1>7. ASSUME NEW b \in {0, w, 2 * w + 2}, NEW k \in b + 2 .. b + w - 1
      PROVE  f[k] = g[k]
  <2>1. b \in Nat
    BY <1>1
  <2>2. k - b - 1 \in 1 .. Len(v) /\ b + 1 + (k - b - 1) = k
    BY <1>1, <2>1
  <2>3. HasNumber(f, b, v) /\ HasNumber(g, b, v)
    BY <1>6
  <2>4. f[k] = v[k - b - 1]
    BY <2>2, <2>3 DEF HasNumber
  <2>5. g[k] = v[k - b - 1]
    BY <2>2, <2>3 DEF HasNumber
  <2> QED BY <2>4, <2>5
<1>8. \A k \in 1 .. 3 * w + 4 : f[k] = g[k]
  BY <1>1, <1>3, <1>4, <1>5, <1>7, CellAt
<1> QED BY <1>2, <1>8, SeqEqual

(* The first file, with its number in it.                                  *)
LEMMA CnfInit == Cnf!Init => CnfInv
<1> SUFFICES ASSUME Cnf!Init PROVE CnfInv
  OBVIOUS
<1>1. /\ netseg \in Netsegs /\ room = Len(netseg) /\ widths = {room}
      /\ file = Cnf!Terminated(Cnf!Lines(netseg)) /\ at = 0 /\ conf = "idle" /\ calls = 0
  BY DEF Cnf!Init
<1>2. Layout(file, netseg, Width)
  BY <1>1, TerminatedLayout DEF Width
<1>3. room \in Nat \ {0} /\ MaxCalls \in Nat
  BY <1>1, ValCells, FilesAssumptions DEF Cnf!ConfAssumption
<1>4. CnfType
  <2>1. IsFiniteSet(widths)
    BY <1>1, FS_Singleton
  <2>2. file \in Seq(Cells) /\ Len(file) \in Nat
    BY <1>2, LenProperties DEF Layout
  <2>3. at \in 0 .. Len(file) /\ calls \in 0 .. MaxCalls
    BY <1>1, <1>3, <2>2
  <2> QED BY <1>1, <1>3, <2>1, <2>2, <2>3 DEF CnfType
<1>5. CnfShape
  BY <1>1, <1>2, LayoutShape
<1>6. CnfDone
  BY <1>2 DEF CnfDone, AddressLines, Layout
<1> QED BY <1>1, <1>4, <1>5, <1>6 DEF CnfInv, CnfAt

(* The end of a line that has one.                                         *)
LEMMA LineEnd ==
    ASSUME file \in Seq(Cells), NEW n \in Nat, NEW e \in n + 1 .. Len(file), file[e] = "\n",
           \A k \in n + 1 .. e - 1 : file[k] # "\n"
    PROVE  Cnf!AfterLine(n) = e
<1> DEFINE E == {k \in n + 1 .. Len(file) : file[k] = "\n"}
<1>1. e \in E /\ e \in Nat
  OBVIOUS
<1>2. \A k \in E : e <= k /\ k \in Nat
  BY <1>1
<1>3. \A m \in E : (\A k \in E : m <= k) => m = e
  BY <1>1, <1>2
<1> HIDE DEF E
<1>4. Cnf!Min(E) = e
  BY <1>1, <1>2, <1>3 DEF Cnf!Min
<1> QED BY <1>1, <1>4 DEF Cnf!AfterLine, E

(* A set of numbers that is not empty has a least one.                     *)
LEMMA Least ==
    ASSUME NEW S \in SUBSET Nat, S # {}
    PROVE  \E n \in S : \A m \in S : n <= m
<1>1. PICK n \in S : \A m \in S : ~ (<<m, n>> \in OpToRel(<, Nat))
  BY NatLessThanWellFounded, WFMin
<1>2. ASSUME NEW m \in S PROVE n <= m
  <2>1. <<m, n>> \in Nat \X Nat
    OBVIOUS
  <2>2. ~ (m < n)
    BY <1>1, <2>1 DEF OpToRel
  <2> QED BY <2>2
<1> QED BY <1>2

(* With or without one, a line does not end before it begins.              *)
LEMMA LineEndType ==
    ASSUME file \in Seq(Cells), NEW n \in 0 .. Len(file)
    PROVE  Cnf!AfterLine(n) \in 0 .. Len(file)
<1> DEFINE E == {k \in n + 1 .. Len(file) : file[k] = "\n"}
<1>1. Len(file) \in Nat /\ n \in Nat
  BY LenProperties
<1>2. \A k \in E : k \in 0 .. Len(file) /\ k \in Nat
  BY <1>1
<1>3. Cnf!AfterLine(n) = IF E = {} THEN Len(file) ELSE Cnf!Min(E)
  BY DEF Cnf!AfterLine
<1> HIDE DEF E
<1>4. CASE E # {}
  <2>1. E \in SUBSET Nat
    BY <1>2
  <2>2. \E m \in E : \A k \in E : m <= k
    BY <2>1, <1>4, Least
  <2>3. Cnf!Min(E) \in E
    BY <2>2 DEF Cnf!Min
  <2> QED BY <1>2, <1>3, <1>4, <2>3
<1> QED BY <1>1, <1>3, <1>4

(* What is written over the file behind cell n.                            *)
LEMMA OverwrittenCells ==
    ASSUME file \in Seq(Cells), NEW n \in 0 .. Len(file), NEW v \in Seq(Cells)
    PROVE  LET g == Cnf!Overwritten(n, v)
           IN  /\ g \in Seq(Cells) /\ n + Len(v) <= Len(g)
               /\ n + Len(v) <= Len(file) => Len(g) = Len(file)
               /\ \A j \in 1 .. Len(g) : j \notin n + 1 .. n + Len(v) => g[j] = file[j]
               /\ \A k \in 1 .. Len(v) : g[n + k] = v[k]
<1> DEFINE l == IF n + Len(v) > Len(file) THEN n + Len(v) ELSE Len(file)
           g == [j \in 1 .. l |-> IF j \in n + 1 .. n + Len(v) THEN v[j - n] ELSE file[j]]
<1>1. Len(file) \in Nat /\ n \in Nat /\ Len(v) \in Nat /\ n <= Len(file)
  BY LenProperties
<1>2. l \in Nat /\ n + Len(v) <= l /\ Len(file) <= l /\ (n + Len(v) <= Len(file) => l = Len(file))
      /\ \A j \in 1 .. l : j \notin n + 1 .. n + Len(v) => j \in 1 .. Len(file)
  BY <1>1
<1> HIDE DEF l
<1>3. \A j \in 1 .. l : j \in n + 1 .. n + Len(v) => j - n \in 1 .. Len(v)
  BY <1>1, <1>2
<1>4. \A j \in 1 .. l : g[j] \in Cells
  BY <1>2, <1>3, ElementOfSeq
<1>5. g \in Seq(Cells) /\ Len(g) = l
  BY <1>2, <1>4
<1>6. \A j \in 1 .. l : j \notin n + 1 .. n + Len(v) => g[j] = file[j]
  OBVIOUS
<1>7. ASSUME NEW k \in 1 .. Len(v) PROVE g[n + k] = v[k]
  <2>1. n + k \in 1 .. l /\ n + k \in n + 1 .. n + Len(v) /\ n + k - n = k
    BY <1>1, <1>2
  <2> QED BY <2>1
<1>8. Cnf!Overwritten(n, v) = g
  BY DEF Cnf!Overwritten, l
<1> HIDE DEF g
<1> QED BY <1>2, <1>5, <1>6, <1>7, <1>8

(* Types: a number may be written behind what was the end of the file.     *)
LEMMA CnfTypeStep ==
    ASSUME CnfType, [Cnf!Next]_(Cnf!vars)
    PROVE  CnfType'
<1>1. /\ file \in Seq(Cells) /\ at \in 0 .. Len(file) /\ conf \in {"idle", "loop", "crashed"}
      /\ netseg \in Netsegs /\ calls \in 0 .. MaxCalls /\ MaxCalls \in Nat /\ Len(file) \in Nat
      /\ room \in Nat \ {0} /\ room \in widths /\ Len(netseg) \in widths /\ IsFiniteSet(widths)
  BY LenProperties, FilesAssumptions DEF CnfType, Cnf!ConfAssumption
<1>2. CASE UNCHANGED Cnf!vars
  BY <1>2 DEF Cnf!vars, CnfType
<1>3. CASE Cnf!Call
  <2>1. /\ at' = 0 /\ file' = file /\ room' = room /\ calls' \in 0 .. MaxCalls
        /\ conf' \in {"loop", "crashed"}
        /\ \/ netseg' \in Netsegs /\ widths' = widths \cup {Len(netseg')}
           \/ UNCHANGED <<netseg, widths>>
    BY <1>1, <1>3 DEF Cnf!Call
  <2>2. \A n : IsFiniteSet(widths \cup {n})
    BY <1>1, FS_AddElement
  <2>3. netseg' \in Netsegs /\ room \in widths' /\ Len(netseg') \in widths' /\ IsFiniteSet(widths')
    BY <1>1, <2>1, <2>2
  <2>4. at' \in 0 .. Len(file)
    BY <1>1, <2>1
  <2> QED BY <1>1, <2>1, <2>3, <2>4 DEF CnfType
<1>4. CASE Cnf!update_conf
  <2>1. /\ at < Len(file) /\ UNCHANGED <<conf, netseg, calls, room, widths>>
        /\ \/ /\ file' = Cnf!Overwritten(at + 1, Cnf!val(netseg))
              /\ at' = at + 1 + Len(Cnf!val(netseg))
           \/ file' = file /\ at' = Cnf!AfterLine(at)
    BY <1>4 DEF Cnf!update_conf, Cnf!FromKey
  <2>2. Cnf!val(netseg) \in Seq(Cells) /\ Len(Cnf!val(netseg)) \in Nat
    BY <1>1, ValCells, LenProperties
  <2>3. at + 1 \in 0 .. Len(file)
    BY <1>1, <2>1
  <2>4. file' \in Seq(Cells) /\ at' \in 0 .. Len(file')
    <3>1. CASE file' = file /\ at' = Cnf!AfterLine(at)
      BY <3>1, <1>1, LineEndType
    <3>2. CASE /\ file' = Cnf!Overwritten(at + 1, Cnf!val(netseg))
               /\ at' = at + 1 + Len(Cnf!val(netseg))
      <4>1. file' \in Seq(Cells) /\ at' <= Len(file')
        BY <1>1, <2>2, <2>3, <3>2, OverwrittenCells
      <4>2. Len(file') \in Nat /\ at' \in Nat
        BY <1>1, <2>2, <3>2, <4>1, LenProperties
      <4> QED BY <4>1, <4>2
    <3> QED BY <2>1, <3>1, <3>2
  <2> QED BY <1>1, <2>1, <2>4 DEF CnfType
<1>5. CASE Cnf!Return
  BY <1>5 DEF Cnf!Return, CnfType
<1> QED BY <1>2, <1>3, <1>4, <1>5 DEF Cnf!Next

(* Address lines do not overlap, and each ends where another line begins.  *)
LEMMA LinesApart ==
    ASSUME CnfType
    PROVE  /\ Width \in Nat /\ Width > 4 /\ Size \in Nat
           /\ \A b \in AddressLines : b \in Nat /\ b + Width \in LineEnds /\ b + Width <= Size
           /\ \A b \in AddressLines : \A c \in AddressLines : b < c => b + Width <= c
           /\ \A b \in AddressLines : b < Size
           /\ LineEnds \ AddressLines = {2 * Width, 3 * Width + 2, Size}
           /\ \A b \in AddressLines : b < 2 * Width + 2 => b < 2 * Width
           /\ \A b \in AddressLines : b < 3 * Width + 2
<1>1. Width \in Nat /\ Width > 4
  BY DEF CnfType, Width
<1> HIDE DEF Width
<1> USE DEF AddressLines, LineEnds, Size
<1>2. \A b \in AddressLines : b \in Nat /\ b + Width \in LineEnds /\ b + Width <= Size
  BY <1>1
<1>3. \A b \in AddressLines : \A c \in AddressLines : b < c => b + Width <= c
  BY <1>1
<1>4. LineEnds \ AddressLines = {2 * Width, 3 * Width + 2, Size}
  BY <1>1
<1>5. Size \in Nat /\ \A b \in AddressLines : b < Size /\ b < 3 * Width + 2 /\ (b < 2 * Width + 2 => b < 2 * Width)
  BY <1>1
<1> QED BY <1>1, <1>2, <1>3, <1>4, <1>5

(* A number that fits is written over the room in its line.                *)
LEMMA WriteKeepsLines ==
    ASSUME CnfInv, Narrow, Cnf!update_conf, file[at + 1] \in Cnf!Updated
    PROVE  CnfShape' /\ CnfDone' /\ CnfAt'
<1> DEFINE v == Cnf!val(netseg)
           Zone == at + 1 + 1 .. at + 1 + Len(v)
<1>1. CnfType /\ CnfShape /\ CnfDone /\ CnfAt
  BY DEF CnfInv
<1>2. /\ conf = "loop" /\ at < Len(file) /\ file' = Cnf!Overwritten(at + 1, v) /\ at' = at + 1 + Len(v)
      /\ UNCHANGED <<conf, netseg, calls, room, widths>>
  BY DEF Cnf!update_conf, Cnf!FromKey
<1>3. /\ file \in Seq(Cells) /\ netseg \in Netsegs /\ Len(file) = Size /\ at \in 0 .. Size
      /\ Len(netseg) <= room /\ room \in Nat
  BY <1>1 DEF CnfType, CnfShape, Narrow
<1>4. /\ v \in Seq(Cells) /\ Len(v) = Len(netseg) + 2 /\ Len(netseg) \in Nat
      /\ \A k \in 1 .. Len(v) : v[k] # "\n" /\ v[k] \notin Cnf!Updated
  BY <1>3, ValCells, ValIsPlain
<1>5. Width \in Nat /\ Width > 4 /\ Size \in Nat /\ Len(v) <= Width - 2 /\ Len(v) \in Nat
  BY <1>1, <1>3, <1>4, LinesApart DEF Width
<1>6. at \in AddressLines /\ at \in Nat /\ at + Width <= Size
  <2>1. at + 1 \in 1 .. Size /\ at + 1 - 1 = at
    BY <1>2, <1>3, <1>5
  <2> DEFINE k == at + 1
  <2>a. k \in 1 .. Size /\ k - 1 = at
    BY <1>2, <1>3, <1>5
  <2> HIDE DEF k
  <2>2. file[k] \in Cnf!Updated <=> at \in AddressLines
    BY <1>1, <2>a DEF CnfShape
  <2>3. at \in AddressLines
    BY <2>2 DEF k
  <2> QED BY <2>3, <1>1, LinesApart
<1> HIDE DEF v
<1>7. /\ Len(file') = Size
      /\ \A k \in 1 .. Size : k \notin Zone => file'[k] = file[k]
      /\ \A k \in 1 .. Len(v) : file'[at + 1 + k] = v[k]
  <2>1. at + 1 \in 0 .. Len(file) /\ at + 1 + Len(v) <= Len(file)
    BY <1>3, <1>5, <1>6
  <2> QED BY <1>2, <1>3, <1>4, <2>1, OverwrittenCells
<1>8. \A k \in Zone : k \in at + 2 .. at + Width - 1 /\ k - (at + 1) \in 1 .. Len(v)
                      /\ at + 1 + (k - (at + 1)) = k
  BY <1>5, <1>6
<1>9. \A k \in Zone : /\ k \notin LineEnds /\ k - 1 \notin AddressLines
                      /\ k \notin {1, Width + 1, 2 * Width + 3, 2 * Width + 1, 3 * Width + 3}
  BY <1>5, <1>6, <1>8, CellsDiffer DEF LineEnds, AddressLines, Size
<1>10. \A k \in Zone : file'[k] # "\n" /\ file'[k] \notin Cnf!Updated
  <2> TAKE k \in Zone
  <2>1. file'[k] = v[k - (at + 1)]
    BY <1>7, <1>8
  <2> QED BY <2>1, <1>4, <1>8
<1> HIDE DEF Zone
<1>11. CnfShape'
  <2>1. \A k \in 1 .. Size : file'[k] = "\n" <=> k \in LineEnds
    BY <1>1, <1>7, <1>9, <1>10 DEF CnfShape
  <2>2. \A k \in 1 .. Size : file'[k] \in Cnf!Updated <=> k - 1 \in AddressLines
    BY <1>1, <1>7, <1>9, <1>10 DEF CnfShape
  <2>3. \A k \in {1, Width + 1, 2 * Width + 3, 2 * Width + 1, 3 * Width + 3} : file'[k] = file[k]
    <3> TAKE k \in {1, Width + 1, 2 * Width + 3, 2 * Width + 1, 3 * Width + 3}
    <3>1. k \in 1 .. Size
      BY <1>5 DEF Size
    <3>2. k \notin Zone
      BY <1>9
    <3> QED BY <3>1, <3>2, <1>7
  <2>4. /\ file'[1] = "start " /\ file'[Width + 1] = "end " /\ file'[2 * Width + 3] = "opt router "
        /\ file'[2 * Width + 1] = "option subnet" /\ file'[3 * Width + 3] = "option lease"
    BY <1>1, <2>3 DEF CnfShape
  <2>5. Width' = Width /\ Size' = Size /\ LineEnds' = LineEnds /\ AddressLines' = AddressLines
    BY <1>2 DEF Width, Size, LineEnds, AddressLines
  <2> QED BY <1>7, <2>1, <2>2, <2>4, <2>5 DEF CnfShape
<1>12. CnfDone'
  <2>1. v' = v /\ AddressLines' = AddressLines
    BY <1>2 DEF v, Cnf!val, AddressLines, Width
  <2>2. ASSUME NEW b \in AddressLines, b < at' PROVE HasNumber(file', b, v)
    <3>1. CASE b = at
      BY <3>1, <1>7 DEF HasNumber
    <3>2. CASE b < at
      <4>1. HasNumber(file, b, v)
        BY <3>2, <1>1, <1>2 DEF CnfDone, v
      <4>2. b \in Nat /\ b + Width <= at
        BY <3>2, <1>1, <1>6, LinesApart
      <4>3. \A k \in 1 .. Len(v) : b + 1 + k \in 1 .. Size /\ b + 1 + k \notin Zone
        BY <4>2, <1>5, <1>6 DEF Zone
      <4> QED BY <4>1, <4>3, <1>7 DEF HasNumber
    <3>3. CASE at < b
      <4>1. b \in Nat /\ at + Width <= b
        BY <3>3, <1>1, <1>6, LinesApart
      <4> QED BY <4>1, <2>2, <1>2, <1>5, <1>6
    <3>4. b \in Nat
      BY <1>1, LinesApart
    <3> QED BY <3>1, <3>2, <3>3, <3>4, <1>6
  <2> QED BY <1>2, <2>1, <2>2 DEF CnfDone, v
<1>13. CnfAt'
  <2>1. at' = at + 3 + Len(netseg)
    BY <1>2, <1>4, <1>6
  <2>2. AddressLines' = AddressLines
    BY <1>2 DEF AddressLines, Width
  <2> QED BY <1>2, <1>6, <2>1, <2>2 DEF CnfAt
<1> QED BY <1>11, <1>12, <1>13

(* The next line end is where fgets stops.                                 *)
LEMMA NextEnd ==
    ASSUME CnfType, CnfShape, NEW n \in Nat, NEW e \in LineEnds, n < e,
           \A k \in LineEnds : n < k => e <= k
    PROVE  Cnf!AfterLine(n) = e
<1>1. file \in Seq(Cells) /\ Len(file) = Size /\ Width \in Nat /\ Width > 4 /\ Size \in Nat
  BY LinesApart DEF CnfType, CnfShape
<1>2. \A k \in LineEnds : k \in 1 .. Size
  BY <1>1 DEF LineEnds, Size
<1>3. e \in n + 1 .. Len(file) /\ e \in Nat
  BY <1>1, <1>2
<1>4. file[e] = "\n"
  BY <1>2 DEF CnfShape
<1>5. ASSUME NEW k \in n + 1 .. e - 1 PROVE file[k] # "\n"
  <2>1. k \in 1 .. Size /\ n < k /\ ~(e <= k)
    BY <1>1, <1>3
  <2>2. k \notin LineEnds
    BY <2>1
  <2> QED BY <2>1, <2>2 DEF CnfShape
<1> QED BY <1>1, <1>3, <1>4, <1>5, LineEnd

(* Every line, and what is left of an address line behind its key.         *)
LEMMA LineEndsAt ==
    ASSUME CnfType, CnfShape
    PROVE  /\ \A b \in AddressLines : \A n \in b .. b + Width - 1 : Cnf!AfterLine(n) = b + Width
           /\ Cnf!AfterLine(2 * Width) = 2 * Width + 2
           /\ Cnf!AfterLine(3 * Width + 2) = Size
<1>1. Width \in Nat /\ Width > 4 /\ \A b \in AddressLines : b \in Nat /\ b + Width \in LineEnds
  BY LinesApart
<1>2. ASSUME NEW b \in AddressLines, NEW n \in b .. b + Width - 1
      PROVE  Cnf!AfterLine(n) = b + Width
  <2>1. n \in Nat /\ n < b + Width
    BY <1>1
  <2>2. \A k \in LineEnds : b < k => b + Width <= k
    BY <1>1 DEF AddressLines, LineEnds, Size
  <2>3. LineEnds \subseteq Nat
    BY <1>1 DEF LineEnds, Size
  <2>4. \A k \in LineEnds : n < k => b + Width <= k
    BY <1>1, <2>1, <2>2, <2>3
  <2> QED BY <1>1, <2>1, <2>4, NextEnd
<1>3. Cnf!AfterLine(2 * Width) = 2 * Width + 2
  <2>1. 2 * Width \in Nat /\ 2 * Width + 2 \in LineEnds /\ 2 * Width < 2 * Width + 2
    BY <1>1 DEF LineEnds
  <2>2. \A k \in LineEnds : 2 * Width < k => 2 * Width + 2 <= k
    BY <1>1 DEF LineEnds, Size
  <2> QED BY <2>1, <2>2, NextEnd
<1>4. Cnf!AfterLine(3 * Width + 2) = Size
  <2>1. 3 * Width + 2 \in Nat /\ Size \in LineEnds /\ 3 * Width + 2 < Size
    BY <1>1 DEF LineEnds, Size
  <2>2. \A k \in LineEnds : 3 * Width + 2 < k => Size <= k
    BY <1>1 DEF LineEnds, Size
  <2> QED BY <2>1, <2>2, NextEnd
<1> QED BY <1>2, <1>3, <1>4

(* A line without a number, or what is left of one behind its number, is   *)
(* read up to its end.                                                     *)
LEMMA ReadKeepsLines ==
    ASSUME CnfInv, Narrow, Cnf!update_conf, file[at + 1] \notin Cnf!Updated
    PROVE  CnfShape' /\ CnfDone' /\ CnfAt'
<1> DEFINE L == Len(netseg)
<1>1. CnfType /\ CnfShape /\ CnfDone /\ CnfAt
  BY DEF CnfInv
<1>2. /\ conf = "loop" /\ at < Len(file) /\ at' = Cnf!AfterLine(at)
      /\ UNCHANGED <<file, conf, netseg, calls, room, widths>>
  BY DEF Cnf!update_conf
<1>3. /\ netseg \in Netsegs /\ Len(file) = Size /\ at \in 0 .. Size /\ L <= room /\ room \in Nat /\ L \in Nat
  BY <1>1, ValCells DEF CnfType, CnfShape, Narrow
<1>4. Width \in Nat /\ Width > 4 /\ Size \in Nat /\ L + 4 <= Width
  BY <1>1, <1>3, LinesApart DEF Width
<1>5. at \in Nat /\ at < Size /\ at \notin AddressLines
  <2>1. at \in Nat /\ at < Size /\ at + 1 \in 1 .. Size /\ at + 1 - 1 = at
    BY <1>2, <1>3, <1>4
  <2> DEFINE k == at + 1
  <2>a. k \in 1 .. Size /\ k - 1 = at
    BY <2>1
  <2> HIDE DEF k
  <2>2. file[k] \in Cnf!Updated <=> at \in AddressLines
    BY <1>1, <2>a DEF CnfShape
  <2> QED BY <2>1, <2>2 DEF k
<1>6. at \in {2 * Width, 3 * Width + 2} \/ \E b \in AddressLines : at = b + 3 + L
  <2>1. at \in {0} \cup LineEnds \cup {b + 3 + L : b \in AddressLines}
    BY <1>1, <1>2 DEF CnfAt
  <2>2. 0 \in AddressLines /\ at # Size
    BY <1>4, <1>5 DEF AddressLines
  <2>3. LineEnds \ AddressLines = {2 * Width, 3 * Width + 2, Size}
    BY <1>1, LinesApart
  <2> QED BY <2>1, <2>2, <2>3, <1>5
<1>7. at' \in LineEnds /\ \A c \in AddressLines : c < at' => c < at
  <2>1. CASE at = 2 * Width
    <3>1. at' = 2 * Width + 2
      BY <2>1, <1>1, <1>2, LineEndsAt
    <3> QED BY <2>1, <3>1, <1>1, LinesApart DEF LineEnds
  <2>2. CASE at = 3 * Width + 2
    <3>1. at' = Size
      BY <2>2, <1>1, <1>2, LineEndsAt
    <3> QED BY <2>2, <3>1, <1>1, LinesApart DEF LineEnds
  <2>3. CASE \E b \in AddressLines : at = b + 3 + L
    <3>1. PICK b \in AddressLines : at = b + 3 + L
      BY <2>3
    <3>2. b \in Nat /\ b + Width \in LineEnds
      BY <1>1, LinesApart
    <3>3. at \in b .. b + Width - 1 /\ b < at
      BY <3>1, <3>2, <1>3, <1>4
    <3>4. at' = b + Width
      BY <3>3, <1>1, <1>2, LineEndsAt
    <3>5. ASSUME NEW c \in AddressLines, c < b + Width PROVE c < at
      <4>1. c \in Nat /\ (b < c => b + Width <= c)
        BY <1>1, LinesApart
      <4>2. c <= b
        BY <4>1, <3>2, <3>5, <1>4
      <4> QED BY <4>1, <4>2, <3>2, <3>3, <1>5
    <3> QED BY <3>2, <3>4, <3>5
  <2> QED BY <1>6, <2>1, <2>2, <2>3
<1>8. CnfShape' /\ LineEnds' = LineEnds /\ AddressLines' = AddressLines
  BY <1>1, <1>2 DEF CnfShape, LineEnds, AddressLines, Size, Width
<1>9. CnfDone'
  <2>1. Cnf!val(netseg)' = Cnf!val(netseg)
    BY <1>2 DEF Cnf!val
  <2>2. \A b \in AddressLines : b < at' => HasNumber(file, b, Cnf!val(netseg))
    BY <1>1, <1>2, <1>7 DEF CnfDone
  <2> QED BY <1>2, <1>8, <2>1, <2>2 DEF CnfDone
<1>10. CnfAt'
  BY <1>7, <1>8 DEF CnfAt
<1> QED BY <1>8, <1>9, <1>10

(* Each step keeps the lines as long as the numbers fit.                   *)
LEMMA CnfStep ==
    ASSUME CnfInv, [Cnf!Next]_(Cnf!vars)
    PROVE  CnfInv'
<1>1. CnfType /\ CnfType' /\ room' = room
  BY CnfTypeStep DEF CnfInv, Cnf!vars, Cnf!Next, Cnf!Call, Cnf!update_conf, Cnf!Return
<1>2. Narrow' => Narrow
  <2>1. widths \subseteq widths'
    BY DEF Cnf!vars, Cnf!Next, Cnf!Call, Cnf!update_conf, Cnf!Return
  <2> QED BY <1>1, <2>1 DEF Narrow
<1>3. SUFFICES ASSUME Narrow, CnfShape, CnfDone, CnfAt PROVE CnfShape' /\ CnfDone' /\ CnfAt'
  BY <1>1, <1>2 DEF CnfInv
<1>4. CASE UNCHANGED Cnf!vars
  BY <1>3, <1>4 DEF Cnf!vars, CnfShape, CnfDone, CnfAt, AddressLines, LineEnds, Size, Width,
                    HasNumber, Cnf!val
<1>5. CASE Cnf!Call
  <2>1. /\ at' = 0 /\ UNCHANGED <<file, room>> /\ conf' \in {"loop", "crashed"}
    BY <1>5 DEF Cnf!Call
  <2>2. CnfShape'
    BY <1>3, <2>1 DEF CnfShape, AddressLines, LineEnds, Size, Width
  <2>3. AddressLines' \subseteq Nat
    BY <1>1, <2>1, LinesApart DEF AddressLines, Width
  <2>4. CnfDone'
    <3>1. \A b \in AddressLines' : ~(b < at') /\ conf' # "idle"
      BY <2>1, <2>3
    <3> QED BY <3>1 DEF CnfDone
  <2>5. CnfAt'
    BY <2>1 DEF CnfAt
  <2> QED BY <2>2, <2>4, <2>5
<1>6. CASE Cnf!update_conf
  BY <1>6, <1>3, WriteKeepsLines, ReadKeepsLines
<1>7. CASE Cnf!Return
  <2>1. conf = "loop" /\ conf' = "idle" /\ at = Len(file) /\ UNCHANGED <<file, at, netseg, calls, room, widths>>
    BY <1>7 DEF Cnf!Return
  <2>2. CnfShape' /\ AddressLines' = AddressLines /\ Cnf!val(netseg)' = Cnf!val(netseg)
    BY <1>3, <2>1 DEF CnfShape, AddressLines, LineEnds, Size, Width, Cnf!val
  <2>3. \A b \in AddressLines : b < at
    BY <1>1, <1>3, <2>1, LinesApart DEF CnfShape
  <2>4. CnfDone'
    BY <1>3, <2>1, <2>2, <2>3 DEF CnfDone
  <2>5. CnfAt'
    BY <2>1 DEF CnfAt
  <2> QED BY <2>2, <2>4, <2>5
<1> QED BY <1>4, <1>5, <1>6, <1>7 DEF Cnf!Next

(* So each line begins where one of this shape does.                       *)
LEMMA Starts ==
    ASSUME CnfType, CnfShape
    PROVE  /\ Cnf!start[1] = 0 /\ Cnf!start[2] = Width /\ Cnf!start[3] = 2 * Width
           /\ Cnf!start[4] = 2 * Width + 2 /\ Cnf!start[5] = 3 * Width + 2 /\ Cnf!start[6] = Size
<1> DEFINE Before(f, j) == IF j = 1 THEN 0 ELSE Cnf!AfterLine(f[j - 1])
           g == [j \in 1 .. 6 |-> IF j = 1 THEN 0 ELSE IF j = 2 THEN Width ELSE IF j = 3 THEN 2 * Width
                   ELSE IF j = 4 THEN 2 * Width + 2 ELSE IF j = 5 THEN 3 * Width + 2 ELSE Size]
<1>1. /\ Cnf!AfterLine(0) = Width /\ Cnf!AfterLine(Width) = 2 * Width
      /\ Cnf!AfterLine(2 * Width) = 2 * Width + 2
      /\ Cnf!AfterLine(2 * Width + 2) = 3 * Width + 2 /\ Cnf!AfterLine(3 * Width + 2) = Size
  <2>1. Width \in Nat /\ Width > 4
    BY LinesApart
  <2>2. \A b \in AddressLines : b \in b .. b + Width - 1
    BY <2>1 DEF AddressLines
  <2>3. \A b \in AddressLines : Cnf!AfterLine(b) = b + Width
    BY <2>2, LineEndsAt
  <2>4. 0 + Width = Width /\ Width + Width = 2 * Width /\ 2 * Width + 2 + Width = 3 * Width + 2
    BY <2>1
  <2>5. /\ Cnf!AfterLine(0) = 0 + Width /\ Cnf!AfterLine(Width) = Width + Width
        /\ Cnf!AfterLine(2 * Width + 2) = 2 * Width + 2 + Width
    BY <2>3 DEF AddressLines
  <2> QED BY <2>4, <2>5, LineEndsAt
<1>2. Cnf!start = CHOOSE f : f = [j \in 1 .. 6 |-> Before(f, j)]
  BY DEF Cnf!start
<1>3. /\ g[1] = 0 /\ g[2] = Width /\ g[3] = 2 * Width /\ g[4] = 2 * Width + 2
      /\ g[5] = 3 * Width + 2 /\ g[6] = Size
  OBVIOUS
<1>4. DOMAIN g = 1 .. 6 /\ g = [j \in 1 .. 6 |-> g[j]]
  OBVIOUS
<1> HIDE DEF g
<1>5. \A j \in 1 .. 6 : g[j] = Before(g, j)
  <2>1. \A j \in 1 .. 6 : j = 1 \/ j = 2 \/ j = 3 \/ j = 4 \/ j = 5 \/ j = 6
    OBVIOUS
  <2>2. 2 - 1 = 1 /\ 3 - 1 = 2 /\ 4 - 1 = 3 /\ 5 - 1 = 4 /\ 6 - 1 = 5
    OBVIOUS
  <2>3. /\ g[1] = Before(g, 1) /\ g[2] = Before(g, 2) /\ g[3] = Before(g, 3)
        /\ g[4] = Before(g, 4) /\ g[5] = Before(g, 5) /\ g[6] = Before(g, 6)
    BY <1>1, <1>3, <2>2
  <2> HIDE DEF Before
  <2> QED BY <2>1, <2>3
<1>6. g = [j \in 1 .. 6 |-> Before(g, j)]
  BY <1>4, <1>5
<1>7. Cnf!start = [j \in 1 .. 6 |-> Before(Cnf!start, j)]
  <2> HIDE DEF Before
  <2> QED BY <1>2, <1>6
<1> DEFINE h == Cnf!start
<1> HIDE DEF h
<1>8. \A j \in 1 .. 6 : h[j] = Before(h, j)
  <2>1. h = [j \in 1 .. 6 |-> Before(h, j)]
    BY <1>7 DEF h
  <2> HIDE DEF Before
  <2> QED BY <2>1
<1>9. h[1] = 0
  BY <1>8
<1>10. h[2] = Width
  <2>1. 2 \in 1 .. 6 /\ 2 # 1 /\ 2 - 1 = 1
    OBVIOUS
  <2> QED BY <2>1, <1>1, <1>8, <1>9
<1>11. h[3] = 2 * Width
  <2>1. 3 \in 1 .. 6 /\ 3 # 1 /\ 3 - 1 = 2
    OBVIOUS
  <2> QED BY <2>1, <1>1, <1>8, <1>10
<1>12. h[4] = 2 * Width + 2
  <2>1. 4 \in 1 .. 6 /\ 4 # 1 /\ 4 - 1 = 3
    OBVIOUS
  <2> QED BY <2>1, <1>1, <1>8, <1>11
<1>13. h[5] = 3 * Width + 2
  <2>1. 5 \in 1 .. 6 /\ 5 # 1 /\ 5 - 1 = 4
    OBVIOUS
  <2> QED BY <2>1, <1>1, <1>8, <1>12
<1>14. h[6] = Size
  <2>1. 6 \in 1 .. 6 /\ 6 # 1 /\ 6 - 1 = 5
    OBVIOUS
  <2> QED BY <2>1, <1>1, <1>8, <1>13
<1> QED BY <1>9, <1>10, <1>11, <1>12, <1>13, <1>14 DEF h

(* An address line of this shape with the number in it.                    *)
LEMMA AddressBegins ==
    ASSUME CnfType, NEW b \in Nat, NEW key \in Cells, file[b + 1] = key,
           HasNumber(file, b, Cnf!val(netseg)),
           NEW k \in 1 .. Len(<<key>> \o Cnf!val(netseg))
    PROVE  file[b + k] = (<<key>> \o Cnf!val(netseg))[k]
<1> DEFINE v == Cnf!val(netseg)
           l == <<key>> \o v
<1>1. netseg \in Netsegs /\ Len(netseg) \in Nat /\ Len(v) = Len(netseg) + 2
  BY ValCells DEF CnfType
<1>2. Len(l) = Len(netseg) + 3 /\ l[1] = key /\ \A m \in 1 .. Len(netseg) + 2 : l[m + 1] = v[m]
  BY <1>1, AddressCells
<1>3. \A m \in 1 .. Len(v) : file[b + 1 + m] = v[m]
  BY DEF HasNumber
<1>4. k \in 1 .. Len(l)
  OBVIOUS
<1> HIDE DEF l, v
<1>5. file[b + k] = l[k]
  <2>1. CASE k = 1
    BY <2>1, <1>2
  <2>2. CASE k # 1
    <3>1. k - 1 \in 1 .. Len(v) /\ b + 1 + (k - 1) = b + k /\ k - 1 + 1 = k
          /\ k - 1 \in 1 .. Len(netseg) + 2
      BY <1>1, <1>2, <1>4, <2>2
    <3>2. file[b + k] = v[k - 1] /\ l[k] = v[k - 1]
      BY <3>1, <1>2, <1>3
    <3> QED BY <3>2
  <2> QED BY <2>1, <2>2
<1> QED BY <1>5 DEF l, v

(* After a call every line begins as it should.                            *)
LEMMA CnfLines ==
    ASSUME CnfInv, Narrow, conf = "idle", NEW j \in 1 .. 5
    PROVE  Cnf!LineBegins(j, Cnf!Lines(netseg)[j])
<1> DEFINE v == Cnf!val(netseg)
<1>1. CnfType /\ CnfShape /\ CnfDone
  BY DEF CnfInv
<1>2. /\ Width \in Nat /\ Width > 4 /\ Len(netseg) + 4 <= Width /\ Len(netseg) \in Nat /\ Size \in Nat
      /\ netseg \in Netsegs
  BY <1>1, ValCells, LinesApart DEF CnfType, Narrow, Width
<1>3. /\ "start " \in Cells /\ "end " \in Cells /\ "opt router " \in Cells
      /\ "option subnet" \in Cells /\ "option lease" \in Cells
  BY DEF Cells, Cnf!Updated
<1>4. /\ Len(<<"start ">> \o v) = Len(netseg) + 3 /\ Len(<<"end ">> \o v) = Len(netseg) + 3
      /\ Len(<<"opt router ">> \o v) = Len(netseg) + 3
  BY <1>2, <1>3, AddressCells
<1>5. \A b \in AddressLines : b \in Nat /\ HasNumber(file, b, v)
  BY <1>1, LinesApart DEF CnfDone
<1>6. /\ Len(<<"option subnet">>) = 1 /\ <<"option subnet">>[1] = "option subnet"
      /\ Len(<<"option lease">>) = 1 /\ <<"option lease">>[1] = "option lease"
  BY <1>3, OneCell
<1>7. /\ Cnf!Lines(netseg)[1] = <<"start ">> \o v /\ Cnf!Lines(netseg)[2] = <<"end ">> \o v
      /\ Cnf!Lines(netseg)[3] = <<"option subnet">> /\ Cnf!Lines(netseg)[4] = <<"opt router ">> \o v
      /\ Cnf!Lines(netseg)[5] = <<"option lease">>
  BY DEF Cnf!Lines
<1> HIDE DEF v
<1>8. /\ file[Width] = "\n" /\ file[2 * Width] = "\n" /\ file[2 * Width + 2] = "\n"
      /\ file[3 * Width + 2] = "\n" /\ file[Size] = "\n"
  <2>1. LineEnds \subseteq 1 .. Size
    BY <1>2 DEF LineEnds, Size
  <2>2. \A k \in LineEnds : file[k] = "\n"
    BY <1>1, <2>1 DEF CnfShape
  <2> QED BY <2>2 DEF LineEnds
<1>9. CASE j = 1
  <2>1. file[0 + 1] = "start " /\ 0 \in AddressLines
    <3>1. 0 + 1 = 1
      OBVIOUS
    <3> QED BY <3>1, <1>1 DEF CnfShape, AddressLines
  <2>2. \A k \in 1 .. Len(<<"start ">> \o v) : file[0 + k] = (<<"start ">> \o v)[k]
    BY <2>1, <1>1, <1>3, <1>5, AddressBegins DEF v
  <2>3. 0 + Len(<<"start ">> \o v) < Width
    <3>1. 0 + (Len(netseg) + 3) < Width
      BY <1>2
    <3> QED BY <3>1, <1>4
  <2>4. Cnf!start[j] = 0 /\ Cnf!start[j + 1] = Width
    BY <1>1, <1>9, Starts
  <2>5. Cnf!Lines(netseg)[j] = <<"start ">> \o v
    BY <1>7, <1>9
  <2>6. file[Cnf!start[j + 1]] = "\n"
    BY <2>4, <1>8
  <2> QED BY <2>2, <2>3, <2>4, <2>5, <2>6 DEF Cnf!LineBegins
<1>10. CASE j = 2
  <2>1. file[Width + 1] = "end " /\ Width \in AddressLines
    BY <1>1 DEF CnfShape, AddressLines
  <2>2. \A k \in 1 .. Len(<<"end ">> \o v) : file[Width + k] = (<<"end ">> \o v)[k]
    BY <2>1, <1>1, <1>3, <1>5, AddressBegins DEF v
  <2>3. Width + Len(<<"end ">> \o v) < 2 * Width
    <3>1. Width + (Len(netseg) + 3) < 2 * Width
      BY <1>2
    <3> QED BY <3>1, <1>4
  <2>4. Cnf!start[j] = Width /\ Cnf!start[j + 1] = 2 * Width
    BY <1>1, <1>10, Starts
  <2>5. Cnf!Lines(netseg)[j] = <<"end ">> \o v
    BY <1>7, <1>10
  <2>6. file[Cnf!start[j + 1]] = "\n"
    BY <2>4, <1>8
  <2> QED BY <2>2, <2>3, <2>4, <2>5, <2>6 DEF Cnf!LineBegins
<1>11. CASE j = 3
  <2>1. file[2 * Width + 1] = "option subnet"
    BY <1>1 DEF CnfShape
  <2>2. \A k \in 1 .. Len(<<"option subnet">>) : file[2 * Width + k] = <<"option subnet">>[k]
    <3>1. \A k \in 1 .. 1 : k = 1
      OBVIOUS
    <3> QED BY <3>1, <2>1, <1>6
  <2>3. 2 * Width + Len(<<"option subnet">>) < 2 * Width + 2
    BY <1>2
  <2>4. Cnf!start[j] = 2 * Width /\ Cnf!start[j + 1] = 2 * Width + 2
    BY <1>1, <1>11, Starts
  <2>5. Cnf!Lines(netseg)[j] = <<"option subnet">>
    BY <1>7, <1>11
  <2>6. file[Cnf!start[j + 1]] = "\n"
    BY <2>4, <1>8
  <2> QED BY <2>2, <2>3, <2>4, <2>5, <2>6 DEF Cnf!LineBegins
<1>12. CASE j = 4
  <2> DEFINE b == 2 * Width + 2
  <2>1. file[b + 1] = "opt router " /\ b \in AddressLines
    <3>1. b + 1 = 2 * Width + 3
      BY <1>2
    <3> QED BY <3>1, <1>1 DEF CnfShape, AddressLines
  <2> HIDE DEF b
  <2>2. \A k \in 1 .. Len(<<"opt router ">> \o v) : file[b + k] = (<<"opt router ">> \o v)[k]
    BY <2>1, <1>1, <1>3, <1>5, AddressBegins DEF v
  <2>3. b + Len(<<"opt router ">> \o v) < 3 * Width + 2
    <3>1. b + (Len(netseg) + 3) < 3 * Width + 2
      BY <1>2 DEF b
    <3> QED BY <3>1, <1>4
  <2>4. Cnf!start[j] = b /\ Cnf!start[j + 1] = 3 * Width + 2
    BY <1>1, <1>12, Starts DEF b
  <2>5. Cnf!Lines(netseg)[j] = <<"opt router ">> \o v
    BY <1>7, <1>12
  <2>6. file[Cnf!start[j + 1]] = "\n"
    BY <2>4, <1>8
  <2> QED BY <2>2, <2>3, <2>4, <2>5, <2>6 DEF Cnf!LineBegins
<1>13. CASE j = 5
  <2>1. file[3 * Width + 2 + 1] = "option lease"
    <3>1. 3 * Width + 2 + 1 = 3 * Width + 3
      BY <1>2
    <3> QED BY <3>1, <1>1 DEF CnfShape
  <2>2. \A k \in 1 .. Len(<<"option lease">>) : file[3 * Width + 2 + k] = <<"option lease">>[k]
    <3>1. \A k \in 1 .. 1 : k = 1
      OBVIOUS
    <3> QED BY <3>1, <2>1, <1>6
  <2>3. 3 * Width + 2 + Len(<<"option lease">>) < Size
    BY <1>2 DEF Size
  <2>4. Cnf!start[j] = 3 * Width + 2 /\ Cnf!start[j + 1] = Size
    BY <1>1, <1>13, Starts
  <2>5. Cnf!Lines(netseg)[j] = <<"option lease">>
    BY <1>7, <1>13
  <2>6. file[Cnf!start[j + 1]] = "\n"
    BY <2>4, <1>8
  <2> QED BY <2>2, <2>3, <2>4, <2>5, <2>6 DEF Cnf!LineBegins
<1> QED BY <1>9, <1>10, <1>11, <1>12, <1>13

(* What the runs check of update_conf.                                     *)
LEMMA CnfInvImplies == CnfInv => Cnf!TypeOK /\ Cnf!ConfIntact
<1> SUFFICES ASSUME CnfInv PROVE Cnf!TypeOK /\ Cnf!ConfIntact
  OBVIOUS
<1>1. CnfType
  BY DEF CnfInv
<1>2. Cnf!TypeOK
  <2>1. \A k \in 1 .. Len(file) : file[k] \in Cells
    BY <1>1, ElementOfSeq DEF CnfType
  <2>2. Cnf!ToSet(file) \subseteq Cells
    <3>1. DOMAIN file = 1 .. Len(file)
      BY <1>1 DEF CnfType
    <3> QED BY <2>1, <3>1 DEF Cnf!ToSet
  <2> QED BY <1>1, <2>2 DEF Cnf!TypeOK, CnfType, Cells
<1>3. ASSUME conf = "idle", Narrow
      PROVE  /\ Cnf!start[6] = Len(file)
             /\ \A j \in 1 .. 5 : Cnf!LineBegins(j, Cnf!Lines(netseg)[j])
             /\ \A j \in {3, 5} : Cnf!start[j + 1] = Cnf!start[j] + 2
  <2>1. CnfShape /\ Width \in Nat
    BY <1>1, <1>3, LinesApart DEF CnfInv
  <2>2. Cnf!start[6] = Len(file)
    BY <1>1, <2>1, Starts DEF CnfShape
  <2>3. Cnf!start[3 + 1] = Cnf!start[3] + 2
    BY <1>1, <2>1, Starts
  <2>4. Cnf!start[5 + 1] = Cnf!start[5] + 2
    BY <1>1, <2>1, Starts DEF Size
  <2> QED BY <1>3, <2>2, <2>3, <2>4, CnfLines
<1>4. ASSUME conf = "idle", Cnf!Cardinality(widths) = 1
      PROVE  file = Cnf!Terminated(Cnf!Lines(netseg))
  <2>1. Cardinality(widths) = 1
    BY <1>4 DEF Cnf!Cardinality, Cardinality
  <2>2. \E w : widths = {w}
    BY <1>1, <2>1, FS_Singleton DEF CnfType
  <2>3. Len(netseg) = room /\ netseg \in Netsegs /\ room \in Nat
    BY <1>1, <2>2 DEF CnfType
  <2>4. Narrow
    BY <1>1, <2>2, <2>3 DEF CnfType, Narrow
  <2>5. CnfShape /\ CnfDone
    BY <2>4 DEF CnfInv
  <2>6. \A b \in AddressLines : HasNumber(file, b, Cnf!val(netseg))
    BY <1>4, <2>5 DEF CnfDone
  <2>7. Layout(file, netseg, Width)
    BY <1>1, <2>3, <2>5, <2>6, ShapeLayout
  <2>8. Layout(Cnf!Terminated(Cnf!Lines(netseg)), netseg, Len(netseg) + 4)
    BY <2>3, TerminatedLayout
  <2>9. Width = Len(netseg) + 4
    BY <2>3 DEF Width
  <2>10. Layout(file, netseg, Len(netseg) + 4)
    BY <2>7, <2>9
  <2> QED BY <2>3, <2>8, <2>10, LayoutUnique
<1>5. Cnf!ConfIntact
  BY <1>3, <1>4 DEF Cnf!ConfIntact, Narrow
<1> QED BY <1>2, <1>5

-----------------------------------------------------------------------------
(* A behaviour of Files is one of each part.                               *)
LEMMA ColRuns == Spec => Col!Spec
<1>1. Init => Col!Init
  BY DEF Init
<1>2. [Next]_vars => [Col!Next]_(Col!vars)
  <2>1. UNCHANGED colVars => UNCHANGED Col!vars
    BY DEF colVars, Col!vars, Col!shared, Col!thread, Col!main
  <2>2. Next => Col!Next \/ UNCHANGED colVars
    BY DEF Next, Runs
  <2>3. UNCHANGED vars => UNCHANGED colVars
    BY DEF vars
  <2> QED BY <2>1, <2>2, <2>3
<1> QED BY <1>1, <1>2, PTL DEF Spec, Col!Spec

(* A behaviour of Files is one of Logging.                                 *)
LEMMA LogRuns == Spec => Log!Spec
<1>1. Init => Log!Init
  BY DEF Init
<1>2. [Next]_vars => [Log!Next]_(Log!vars)
  <2>1. UNCHANGED logVars => UNCHANGED Log!vars
    BY DEF logVars, Log!vars, Log!disk
  <2>2. Next => Log!Next \/ UNCHANGED logVars
    BY DEF Next, Runs
  <2>3. UNCHANGED vars => UNCHANGED logVars
    BY DEF vars
  <2> QED BY <2>1, <2>2, <2>3
<1> QED BY <1>1, <1>2, PTL DEF Spec, Log!Spec

(* The same of update_conf.                                                *)
LEMMA CnfRuns == Spec => Cnf!Spec
<1>1. Init => Cnf!Init
  BY DEF Init
<1>2. [Next]_vars => [Cnf!Next]_(Cnf!vars)
  <2>1. UNCHANGED cnfVars => UNCHANGED Cnf!vars
    BY DEF cnfVars, Cnf!vars
  <2>2. Next => Cnf!Next \/ UNCHANGED cnfVars
    BY DEF Next, Runs
  <2>3. UNCHANGED vars => UNCHANGED cnfVars
    BY DEF vars
  <2> QED BY <2>1, <2>2, <2>3
<1> QED BY <1>1, <1>2, PTL DEF Spec, Cnf!Spec

(* No block is written to the file before it is filled, and short of a     *)
(* decrement that finds the counter at 0 the main thread appends at most   *)
(* N (N + 1) / 2 blocks, for which there is room, whatever decrements are  *)
(* lost.                                                                   *)
THEOREM CollectSafeCorrect == Spec => []CollectSafe
<1>1. ColInv => CollectSafe
  <2> SUFFICES ASSUME ColInv PROVE CollectSafe
    OBVIOUS
  <2>1. CASE wrapped
    BY <2>1 DEF ColInv, CollectSafe, Col!BlocksBounded
  <2>2. CASE ~wrapped
    <3>1. /\ Budget \in Nat /\ len \in Nat /\ count \in Nat /\ tload \in Nat /\ mload \in Nat
          /\ 2 ^ WIDTH \in Nat /\ DataBlocks \in Nat
      BY SqFacts, FilesAssumptions DEF ColInv, Col!TypeOK, Col!CollectAssumption
    <3>2. Sq(count) \in Nat /\ Sq(tload) \in Nat /\ Sq(mload) \in Nat
      BY <3>1, SqFacts
    <3>3. 2 * len <= Budget
      BY <2>2, <3>1, <3>2 DEF ColInv, Col!TypeOK, ColRoom, Room, MainHas
    <3> QED BY <2>2, <3>3 DEF ColInv, CollectSafe, Col!BlocksBounded, Budget
  <2> QED BY <2>1, <2>2
<1> QED BY <1>1, ColRuns, ColInit, ColStep, PTL DEF Col!Spec

(* Neither file grows beyond the limit by more than a line per program and *)
(* one per failed move of it, the last lines are kept unless a named race  *)
(* happened, and main_log loses no descriptor, whichever fopen fails.      *)
THEOREM LogKeptCorrect == Spec => []LogKept
<1>1. LogInv => LogKept
  BY LogInvImplies DEF LogKept
<1>2. LogInv /\ [Log!Next]_(Log!vars) => LogInv'
  BY LogTypeStep, LogCountsStep, LogRowStep, LogDescriptorsStep DEF LogInv
<1> QED BY <1>1, <1>2, LogRuns, LogInit, PTL DEF Log!Spec

(* The file is what it should be after a call of update_conf, as long as   *)
(* no number written had other digits than the first; with fewer, no key   *)
(* and no other line is touched, however many calls there are.             *)
THEOREM ConfIntactCorrect == Spec => []ConfIntact
<1>1. CnfInv => ConfIntact
  BY CnfInvImplies DEF ConfIntact
<1> QED BY <1>1, CnfRuns, CnfInit, CnfStep, PTL DEF Cnf!Spec

(* All three keep to their types: no count leaves its width, no file its   *)
(* lines or cells, no position the file.                                   *)
THEOREM TypeCorrect == Spec => []TypeOK
<1>1. ColInv /\ LogInv /\ CnfInv => TypeOK
  BY LogInvImplies, CnfInvImplies DEF ColInv, TypeOK
<1>2. LogInv /\ [Log!Next]_(Log!vars) => LogInv'
  BY LogTypeStep, LogCountsStep, LogRowStep, LogDescriptorsStep DEF LogInv
<1>3. Spec => []ColInv
  BY ColRuns, ColInit, ColStep, PTL DEF Col!Spec
<1>4. Spec => []LogInv
  BY <1>2, LogRuns, LogInit, PTL DEF Log!Spec
<1>5. Spec => []CnfInv
  BY CnfRuns, CnfInit, CnfStep, PTL DEF Cnf!Spec
<1> QED BY <1>1, <1>3, <1>4, <1>5, PTL
=============================================================================
