---------------------- MODULE ProcessInteractiveProofs ----------------------
(***************************************************************************)
(* Safety of the programs of ProcessInteractive, for any lengths, bounds,  *)
(* senders and instances.  Each program is proved correct from an          *)
(* inductive invariant of its own (ShmInv, SemInv, MapInv, ...), and a     *)
(* last part shows that a behaviour of ProcessInteractive is one of each.  *)
(***************************************************************************)
EXTENDS ProcessInteractive, FiniteSetTheorems, SequenceTheorems, WellFoundedInduction, TLAPS

(* A set of numbers that is not empty has a least element.                 *)
LEMMA LeastExists ==
    ASSUME NEW S \in SUBSET Nat, S # {}
    PROVE  \E n \in S : \A k \in S : n <= k
<1>1. \E n \in S : \A k \in S : <<k, n>> \notin OpToRel(<, Nat)
  BY NatLessThanWellFounded, WFMin, Zenon
<1>2. PICK n \in S : \A k \in S : <<k, n>> \notin OpToRel(<, Nat)
  BY <1>1
<1>3. ASSUME NEW k \in S PROVE n <= k
  <2>1. <<k, n>> \in Nat \X Nat /\ <<k, n>>[1] = k /\ <<k, n>>[2] = n
    OBVIOUS
  <2>2. ~(k < n)
    BY <1>2, <2>1 DEF OpToRel
  <2> QED BY <2>2
<1> QED BY <1>3

-----------------------------------------------------------------------------
(* Shared memory, whenever the customer starts.  What the flag protects is *)
(* the segment: while the producer works on it the flag is 0, and while    *)
(* the customer may print from it the segment holds the line written last. *)

(* The producer's line and the lines it has flagged.                       *)
ProducerInv ==
    /\ written \in Seq(Shm!Lines) /\ \A n \in 1 .. Len(written) : written[n].no = n
    /\ written_by_you \in {0, 1} /\ some_text \in Shm!Lines \cup {Shm!NoLine}
    /\ buffer \in Shm!Lines \cup {Shm!NoLine} /\ (buffer.no = TypedLines => buffer.end)
    /\ ppc \in {"wait", "copy", "copying", "flag", "done"}
    /\ ppc \in {"copy", "copying", "flag"} =>
          buffer.no = Len(written) + 1 /\ written_by_you = 0
    /\ ppc \in {"wait", "done"} => buffer.no = Len(written)
    /\ ppc = "wait" => ~buffer.end
    /\ ppc = "done" => buffer.end

(* The segment holds the line written last, or, once it is copied, the     *)
(* next one.                                                               *)
SegmentInv ==
    /\ ppc \in {"wait", "done"} => some_text = buffer
    /\ ppc = "flag" => some_text = buffer
    /\ ppc \in {"copy", "copying"} => ~some_text.end
    /\ ppc \in {"wait", "done"} /\ Len(written) > 0 => buffer = written[Len(written)]
    /\ written_by_you = 1 => Len(written) > 0

(* What is printed was written, in order, and the line flagged was not.    *)
CustomerInv ==
    /\ shmPrinted \in Seq(Shm!Lines)
    /\ cpc \in {"attach", "poll", "clear", "check", "done"}
    /\ \A j \in 1 .. Len(shmPrinted) :
          /\ shmPrinted[j].no \in j .. Len(written)
          /\ shmPrinted[j] = written[shmPrinted[j].no]
          /\ cpc \in {"poll", "check"} /\ written_by_you = 1 => shmPrinted[j].no < Len(written)
    /\ \A j \in 1 .. Len(shmPrinted) - 1 : shmPrinted[j].no < shmPrinted[j + 1].no
    /\ cpc = "clear" => written_by_you = 1
    /\ cpc = "attach" => Len(shmPrinted) = 0

(* The rendezvous, with the customer there first.  A customer that is done *)
(* has seen "end", which the producer may still be about to flag.          *)
RendezvousInv ==
    customerFirst /\ ~tornEnd =>
        /\ \A j \in 1 .. Len(shmPrinted) : shmPrinted[j].no = j
        /\ cpc = "attach" => ppc = "wait" /\ Len(written) = 0
        /\ cpc = "clear" => Len(written) = Len(shmPrinted)
        /\ cpc \in {"attach", "poll", "check"} =>
              Len(written) = Len(shmPrinted) + written_by_you
        /\ cpc = "done" =>
              \/ ppc \in {"copying", "flag"} /\ buffer.end /\ Len(written) = Len(shmPrinted)
              \/ ppc = "done" /\ Len(written) - Len(shmPrinted) \in {0, 1}

ShmInv == ProducerInv /\ SegmentInv /\ CustomerInv /\ RendezvousInv

(* No line was read, the segment is empty.                                 *)
LEMMA ShmInit ==
    ASSUME Shm!SharedMemAssumption, Shm!Init
    PROVE  ShmInv
BY DEF Shm!SharedMemAssumption, Shm!Init, ShmInv, ProducerInv, SegmentInv, CustomerInv, RendezvousInv,
       Shm!Lines, Shm!NoLine

(* The next line is read when the flag is 0.                               *)
LEMMA ReadsKeepsShmInv ==
    ASSUME Shm!SharedMemAssumption, ShmInv, Shm!ProducerReads, UNCHANGED Shm!circumstances
    PROVE  ShmInv'
<1>1. PICK end \in BOOLEAN :
         /\ buffer.no + 1 = TypedLines => end
         /\ buffer' = [no |-> buffer.no + 1, end |-> end]
  BY DEF Shm!ProducerReads
<1>2. /\ ppc = "wait" /\ written_by_you # 1 /\ (customerFirst => cpc # "attach")
      /\ ppc' = "copy"
      /\ written_by_you' = written_by_you /\ some_text' = some_text /\ written' = written
      /\ cpc' = cpc /\ shmPrinted' = shmPrinted
      /\ customerFirst' = customerFirst /\ tornEnd' = tornEnd
  BY DEF Shm!ProducerReads, Shm!MayWrite, Shm!customerVars, Shm!circumstances
<1>3. buffer.no \in 0 .. TypedLines - 1 /\ TypedLines \in Nat \ {0}
  BY <1>2 DEF ShmInv, ProducerInv, Shm!Lines, Shm!NoLine, Shm!SharedMemAssumption
<1>4. buffer' \in Shm!Lines /\ buffer'.no = buffer.no + 1 /\ buffer'.end = end
  BY <1>1, <1>3 DEF Shm!Lines
<1>5. ProducerInv'
  BY <1>1, <1>2, <1>3, <1>4 DEF ShmInv, ProducerInv
<1>6. SegmentInv'
  BY <1>2 DEF ShmInv, SegmentInv, ProducerInv
<1>7. CustomerInv'
  BY <1>2 DEF ShmInv, CustomerInv
<1>8. RendezvousInv'
  BY <1>2 DEF ShmInv, RendezvousInv, CustomerInv
<1> QED BY <1>5, <1>6, <1>7, <1>8 DEF ShmInv

(* It is copied over one that was printed, or need not be.                 *)
LEMMA CopyKeepsShmInv ==
    ASSUME ShmInv, Shm!ProducerCopies \/ Shm!ProducerCopied, UNCHANGED Shm!circumstances
    PROVE  ShmInv'
<1>1. /\ written_by_you' = written_by_you /\ written' = written /\ buffer' = buffer
      /\ cpc' = cpc /\ shmPrinted' = shmPrinted
      /\ customerFirst' = customerFirst /\ tornEnd' = tornEnd
      /\ \/ ppc = "copy" /\ ppc' = "copying" /\ some_text' = some_text
         \/ ppc = "copying" /\ ppc' = "flag" /\ some_text' = buffer
  BY DEF Shm!ProducerCopies, Shm!ProducerCopied, Shm!customerVars, Shm!circumstances
<1>2. ProducerInv' /\ SegmentInv'
  BY <1>1 DEF ShmInv, ProducerInv, SegmentInv
<1>3. CustomerInv' /\ RendezvousInv'
  BY <1>1 DEF ShmInv, CustomerInv, RendezvousInv
<1> QED BY <1>2, <1>3 DEF ShmInv

(* The line in the segment is the one flagged.                             *)
LEMMA FlagsKeepsShmInv ==
    ASSUME ShmInv, Shm!ProducerFlags, UNCHANGED Shm!circumstances
    PROVE  ShmInv'
<1>1. /\ ppc = "flag" /\ written_by_you' = 1 /\ written' = Append(written, buffer)
      /\ ppc' = IF buffer.end THEN "done" ELSE "wait"
      /\ some_text' = some_text /\ buffer' = buffer /\ cpc' = cpc /\ shmPrinted' = shmPrinted
      /\ customerFirst' = customerFirst /\ tornEnd' = tornEnd
  BY DEF Shm!ProducerFlags, Shm!customerVars, Shm!circumstances
<1>2. /\ written \in Seq(Shm!Lines) /\ Len(written) \in Nat /\ buffer.no = Len(written) + 1
      /\ buffer \in Shm!Lines /\ written_by_you = 0
  BY <1>1 DEF ShmInv, ProducerInv, Shm!NoLine
<1>3. /\ written' \in Seq(Shm!Lines) /\ Len(written') = Len(written) + 1
      /\ written'[Len(written) + 1] = buffer
      /\ \A n \in 1 .. Len(written) : written'[n] = written[n]
  BY <1>1, <1>2
<1>4. ProducerInv'
  BY <1>1, <1>2, <1>3 DEF ShmInv, ProducerInv, Shm!Lines
<1>5. SegmentInv'
  BY <1>1, <1>2, <1>3 DEF ShmInv, SegmentInv
<1>6. CustomerInv'
  BY <1>1, <1>2, <1>3 DEF ShmInv, CustomerInv
<1>7. RendezvousInv'
  BY <1>1, <1>2, <1>3 DEF ShmInv, RendezvousInv, CustomerInv
<1> QED BY <1>4, <1>5, <1>6, <1>7 DEF ShmInv

(* What is printed is the line flagged last.                               *)
LEMMA PrintsKeepsShmInv ==
    ASSUME ShmInv, Shm!CustomerPrints, UNCHANGED Shm!circumstances
    PROVE  ShmInv'
<1>1. /\ cpc = "poll" /\ written_by_you # 0 /\ cpc' = "clear"
      /\ shmPrinted' = Append(shmPrinted, some_text)
      /\ written_by_you' = written_by_you /\ some_text' = some_text
      /\ ppc' = ppc /\ buffer' = buffer /\ written' = written
      /\ customerFirst' = customerFirst /\ tornEnd' = tornEnd
  BY DEF Shm!CustomerPrints, Shm!producerVars, Shm!circumstances
<1>2. /\ written_by_you = 1 /\ ppc \in {"wait", "done"} /\ Len(written) > 0
      /\ written \in Seq(Shm!Lines) /\ Len(written) \in Nat
      /\ some_text = written[Len(written)] /\ some_text.no = Len(written)
      /\ some_text \in Shm!Lines
  BY <1>1 DEF ShmInv, ProducerInv, SegmentInv
<1>3. /\ shmPrinted \in Seq(Shm!Lines) /\ Len(shmPrinted) \in Nat
      /\ shmPrinted' \in Seq(Shm!Lines) /\ Len(shmPrinted') = Len(shmPrinted) + 1
      /\ shmPrinted'[Len(shmPrinted) + 1] = some_text
      /\ \A j \in 1 .. Len(shmPrinted) : shmPrinted'[j] = shmPrinted[j]
  BY <1>1, <1>2 DEF ShmInv, CustomerInv
<1>4. \A j \in 1 .. Len(shmPrinted) : shmPrinted[j].no \in j .. Len(written) - 1
  BY <1>1, <1>2, <1>3 DEF ShmInv, CustomerInv
<1>5. Len(shmPrinted) + 1 <= Len(written)
  BY <1>2, <1>3, <1>4
<1>6. ProducerInv' /\ SegmentInv'
  BY <1>1 DEF ShmInv, ProducerInv, SegmentInv
<1>7. CustomerInv'
  <2>1. ASSUME NEW j \in 1 .. Len(shmPrinted')
        PROVE  /\ shmPrinted'[j].no \in j .. Len(written') /\ shmPrinted'[j] = written'[shmPrinted'[j].no]
    BY <1>1, <1>2, <1>3, <1>4, <1>5 DEF ShmInv, CustomerInv
  <2>2. ASSUME NEW j \in 1 .. Len(shmPrinted') - 1 PROVE shmPrinted'[j].no < shmPrinted'[j + 1].no
    <3>1. CASE j = Len(shmPrinted)
      BY <1>2, <1>3, <1>4, <3>1
    <3>2. CASE j # Len(shmPrinted)
      <4>1. j \in 1 .. Len(shmPrinted) - 1 /\ j \in 1 .. Len(shmPrinted) /\ j + 1 \in 1 .. Len(shmPrinted)
        BY <1>3, <3>2
      <4>2. shmPrinted'[j] = shmPrinted[j] /\ shmPrinted'[j + 1] = shmPrinted[j + 1]
        BY <1>3, <4>1
      <4>3. shmPrinted[j].no < shmPrinted[j + 1].no
        BY <4>1 DEF ShmInv, CustomerInv
      <4> QED BY <4>2, <4>3
    <3> QED BY <3>1, <3>2
  <2> QED BY <1>1, <1>2, <1>3, <2>1, <2>2 DEF CustomerInv
<1>8. RendezvousInv'
  BY <1>1, <1>2, <1>3 DEF ShmInv, RendezvousInv
<1> QED BY <1>6, <1>7, <1>8 DEF ShmInv

(* Taking the flag back also takes back an unprinted line's.               *)
LEMMA ClearsKeepsShmInv ==
    ASSUME ShmInv, Shm!CustomerAttaches \/ Shm!CustomerClears, UNCHANGED Shm!circumstances
    PROVE  ShmInv'
<1>1. /\ written_by_you' = 0 /\ some_text' = some_text /\ shmPrinted' = shmPrinted
      /\ ppc' = ppc /\ buffer' = buffer /\ written' = written
      /\ customerFirst' = customerFirst /\ tornEnd' = tornEnd
      /\ \/ cpc = "attach" /\ cpc' = "poll"
         \/ cpc = "clear" /\ cpc' = "check"
  BY DEF Shm!CustomerAttaches, Shm!CustomerClears, Shm!Taken, Shm!producerVars, Shm!circumstances
<1>2. ProducerInv' /\ SegmentInv'
  BY <1>1 DEF ShmInv, ProducerInv, SegmentInv
<1>3. CustomerInv'
  BY <1>1 DEF ShmInv, CustomerInv
<1>4. RendezvousInv'
  BY <1>1 DEF ShmInv, RendezvousInv, CustomerInv
<1> QED BY <1>2, <1>3, <1>4 DEF ShmInv

(* A line read as "end" is one, unless it is torn.                         *)
LEMMA ChecksKeepsShmInv ==
    ASSUME ShmInv, Shm!CustomerChecks, UNCHANGED Shm!circumstances
    PROVE  ShmInv'
<1>1. /\ cpc = "check"
      /\ written_by_you' = written_by_you /\ some_text' = some_text /\ shmPrinted' = shmPrinted
      /\ ppc' = ppc /\ buffer' = buffer /\ written' = written
      /\ customerFirst' = customerFirst /\ tornEnd' = tornEnd
      /\ \E end \in Shm!SeesEnd : cpc' = IF end THEN "done" ELSE "poll"
  BY DEF Shm!CustomerChecks, Shm!producerVars, Shm!circumstances
<1>2. ProducerInv' /\ SegmentInv' /\ CustomerInv'
  BY <1>1 DEF ShmInv, ProducerInv, SegmentInv, CustomerInv
<1>3. ASSUME cpc' = "done", ~tornEnd
      PROVE  \/ ppc = "copying" /\ buffer.end
             \/ ppc \in {"flag", "done"} /\ buffer.end
  BY <1>1, <1>3 DEF Shm!SeesEnd, ShmInv, ProducerInv, SegmentInv
<1>4. RendezvousInv'
  BY <1>1, <1>3 DEF ShmInv, RendezvousInv, CustomerInv, ProducerInv
<1> QED BY <1>2, <1>4 DEF ShmInv

(* Together.                                                               *)
LEMMA ShmStep ==
    ASSUME Shm!SharedMemAssumption, ShmInv, [Shm!Next]_(Shm!vars)
    PROVE  ShmInv'
<1>1. CASE UNCHANGED Shm!vars
  BY <1>1 DEF Shm!vars, Shm!producerVars, Shm!customerVars, Shm!circumstances, ShmInv, ProducerInv, SegmentInv,
              CustomerInv, RendezvousInv
<1>2. CASE Shm!Producer
  BY <1>2, ReadsKeepsShmInv, CopyKeepsShmInv, FlagsKeepsShmInv DEF Shm!Producer
<1>3. CASE Shm!Customer
  BY <1>3, PrintsKeepsShmInv, ClearsKeepsShmInv, ChecksKeepsShmInv DEF Shm!Customer
<1> QED BY <1>1, <1>2, <1>3 DEF Shm!Next

(* So it holds in every behaviour.                                         *)
LEMMA ShmRunsInv ==
    ASSUME Shm!SharedMemAssumption
    PROVE  Shm!Spec => []ShmInv
<1>1. Shm!Init => ShmInv
  BY ShmInit
<1>2. ShmInv /\ [Shm!Next]_(Shm!vars) => ShmInv'
  BY ShmStep
<1> QED BY <1>1, <1>2, PTL DEF Shm!Spec

(* The flag has two values, and no more lines are printed than typed.      *)
LEMMA ShmTypeCorrect ==
    ASSUME Shm!SharedMemAssumption
    PROVE  Shm!Spec => []Shm!TypeOK
<1>1. ShmInv => Shm!TypeOK
  <2> SUFFICES ASSUME ShmInv PROVE Shm!TypeOK
    OBVIOUS
  <2>1. buffer.no \in 0 .. TypedLines /\ Len(written) \in Nat /\ TypedLines \in Nat
    BY DEF ShmInv, ProducerInv, Shm!Lines, Shm!NoLine, Shm!SharedMemAssumption
  <2>2. Len(written) <= TypedLines
    BY <2>1 DEF ShmInv, ProducerInv
  <2>3. Len(shmPrinted) <= Len(written) /\ Len(shmPrinted) \in Nat
    BY <2>1 DEF ShmInv, CustomerInv
  <2> QED BY <2>1, <2>2, <2>3 DEF ShmInv, ProducerInv, CustomerInv, Shm!TypeOK
<1> QED BY <1>1, ShmRunsInv, PTL

(* customer prints lines in the order they were typed, none twice and none *)
(* half written, whenever it starts.                                       *)
LEMMA ShmPrintedInOrderCorrect ==
    ASSUME Shm!SharedMemAssumption
    PROVE  Shm!Spec => []Shm!PrintedInOrder
<1>1. ShmInv => Shm!PrintedInOrder
  <2> SUFFICES ASSUME ShmInv PROVE Shm!PrintedInOrder
    OBVIOUS
  <2>1. /\ DOMAIN shmPrinted = 1 .. Len(shmPrinted) /\ DOMAIN written = 1 .. Len(written)
        /\ Len(shmPrinted) \in Nat /\ Len(written) \in Nat
    BY DEF ShmInv, ProducerInv, CustomerInv
  <2>2. ASSUME NEW j \in DOMAIN shmPrinted PROVE \E n \in DOMAIN written : shmPrinted[j] = written[n]
    <3>1. shmPrinted[j].no \in 1 .. Len(written) /\ shmPrinted[j] = written[shmPrinted[j].no]
      BY <2>1 DEF ShmInv, CustomerInv
    <3> QED BY <2>1, <3>1
  <2>3. \A j \in 1 .. Len(shmPrinted) - 1 : shmPrinted[j].no < shmPrinted[j + 1].no
    BY DEF ShmInv, CustomerInv
  <2> QED BY <2>2, <2>3 DEF Shm!PrintedInOrder
<1> QED BY <1>1, ShmRunsInv, PTL

(* With the customer there first the producer is one line ahead at most.   *)
LEMMA ShmOneInFlightCorrect ==
    ASSUME Shm!SharedMemAssumption
    PROVE  Shm!Spec => []Shm!OneInFlight
<1>1. ShmInv => Shm!OneInFlight
  <2> SUFFICES ASSUME ShmInv, customerFirst, ~tornEnd
               PROVE  /\ Len(written) - Len(shmPrinted) \in {0, 1}
                      /\ \A j \in DOMAIN shmPrinted : shmPrinted[j] = written[j]
    BY DEF Shm!OneInFlight
  <2>1. /\ DOMAIN shmPrinted = 1 .. Len(shmPrinted)
        /\ Len(shmPrinted) \in Nat /\ Len(written) \in Nat
        /\ written_by_you \in {0, 1}
    BY DEF ShmInv, ProducerInv, CustomerInv
  <2>2. Len(written) - Len(shmPrinted) \in {0, 1}
    BY <2>1 DEF ShmInv, CustomerInv, RendezvousInv
  <2>3. \A j \in DOMAIN shmPrinted : shmPrinted[j] = written[j]
    BY <2>1 DEF ShmInv, CustomerInv, RendezvousInv
  <2> QED BY <2>2, <2>3
<1> QED BY <1>1, ShmRunsInv, PTL

(* Then, when both have ended, only the line "end" may be unprinted.       *)
LEMMA ShmOnlyEndUnprintedCorrect ==
    ASSUME Shm!SharedMemAssumption
    PROVE  Shm!Spec => []Shm!OnlyEndUnprinted
<1>1. ShmInv => Shm!OnlyEndUnprinted
  <2> SUFFICES ASSUME ShmInv, customerFirst, ~tornEnd, ppc = "done", cpc = "done",
                      NEW n \in DOMAIN written, ~written[n].end
               PROVE  \E j \in DOMAIN shmPrinted : shmPrinted[j] = written[n]
    BY DEF Shm!OnlyEndUnprinted
  <2>1. /\ DOMAIN shmPrinted = 1 .. Len(shmPrinted) /\ DOMAIN written = 1 .. Len(written)
        /\ Len(shmPrinted) \in Nat /\ Len(written) \in Nat
    BY DEF ShmInv, ProducerInv, CustomerInv
  <2>2. n # Len(written)
    BY <2>1 DEF ShmInv, ProducerInv, SegmentInv
  <2>3. n \in DOMAIN shmPrinted
    <3>1. Len(shmPrinted) >= Len(written) - 1
      <4>1. Len(written) - Len(shmPrinted) \in {0, 1}
        BY DEF ShmInv, RendezvousInv
      <4>2. Len(shmPrinted) \in Int /\ Len(written) \in Int
        BY <2>1
      <4> QED BY <4>1, <4>2
    <3>2. n \in 1 .. Len(written) - 1
      BY <2>1, <2>2
    <3>3. n \in 1 .. Len(shmPrinted)
      BY <2>1, <3>1, <3>2
    <3> QED BY <2>1, <3>3
  <2>4. shmPrinted[n] = written[n]
    BY <2>1, <2>3 DEF ShmInv, CustomerInv, RendezvousInv
  <2> QED BY <2>3, <2>4
<1> QED BY <1>1, ShmRunsInv, PTL

-----------------------------------------------------------------------------
(* Mapping.  A reader polls a mapping of a file that was there when it     *)
(* opened it, and which is never empty again once it was not.              *)
MapInv ==
    /\ Map!TypeOK /\ Map!KilledOnlyAtCreation
    /\ mapReader = "poll" => sizeAtOpen \in {"empty", "int"}
    /\ mapReader = "poll" /\ sizeAtOpen = "int" => size = "int"

(* No run of either program has begun.                                     *)
LEMMA MapInit == Map!Init => MapInv
BY ProgramAssumptions
   DEF Map!Init, MapInv, Map!TypeOK, Map!KilledOnlyAtCreation, Map!MmapAssumption

(* Each system call of writer and reader.                                  *)
LEMMA MapStep ==
    ASSUME MapInv, [Map!Next]_(Map!vars)
    PROVE  MapInv'
<1> USE DEF MapInv, Map!TypeOK, Map!KilledOnlyAtCreation
<1>a. MaxRuns \in Nat
  BY ProgramAssumptions DEF Map!MmapAssumption
<1> USE DEF Map!file, Map!reader
<1>1. CASE UNCHANGED Map!vars
  BY <1>1 DEF Map!vars
<1>2. CASE Map!WriterStarts
  BY <1>2, <1>a DEF Map!WriterStarts
<1>3. CASE Map!WriterOpens
  BY <1>3 DEF Map!WriterOpens, Map!Opened
<1>4. CASE Map!WriterFails \/ Map!WriterMaps \/ Map!WriterFlags
  BY <1>4 DEF Map!WriterFails, Map!WriterMaps, Map!WriterFlags
<1>5. CASE Map!WriterStats
  BY <1>5 DEF Map!WriterStats, Map!Base
<1>6. CASE Map!ReaderStarts
  BY <1>6, <1>a DEF Map!ReaderStarts
<1>7. CASE Map!ReaderOpens
  BY <1>7 DEF Map!ReaderOpens
<1>8. CASE Map!ReaderPolls
  BY <1>8 DEF Map!ReaderPolls
<1> QED BY <1>1, <1>2, <1>3, <1>4, <1>5, <1>6, <1>7, <1>8
        DEF Map!Next, Map!Writer, Map!Reader

-----------------------------------------------------------------------------
(* Process tree.  Only the first process is ever in the loop or waits, and *)
(* it has forked all others, each with an index the loop has passed.       *)
SubInv ==
    /\ Sub!TypeOK
    /\ subpc[Sub!Parent] \in {"loop", "wait", "zombie"} /\ ppid[Sub!Parent] = 0
    /\ \A p \in Sub!Pids \ {Sub!Parent} :
          subpc[p] # "none" => /\ subpc[p] \in {"exec", "timer", "zombie"}
                               /\ ppid[p] = Sub!Parent /\ i[p] < i[Sub!Parent]
    /\ \A p, q \in Sub!Children(Sub!Parent) : i[p] = i[q] => p = q
    /\ Sub!ParentLast

(* Only the parent runs.                                                   *)
LEMMA SubInit == Sub!Init => SubInv
BY ProgramAssumptions
   DEF Sub!Init, SubInv, Sub!TypeOK, Sub!Parent, Sub!Pids, Sub!Children, Sub!ParentLast,
       Sub!SubProcAssumption

(* fork, by the parent.                                                    *)
LEMMA ForkKeepsSubInv ==
    ASSUME SubInv, NEW p \in Sub!Pids, Sub!Fork(p)
    PROVE  SubInv'
<1>1. /\ MaxPid \in Nat \ {0} /\ SUB_PROC_NUM \in 1 .. 5
      /\ subpc \in [Sub!Pids -> {"none", "loop", "exec", "timer", "wait", "zombie"}]
      /\ i \in [Sub!Pids -> 0 .. SUB_PROC_NUM] /\ ppid \in [Sub!Pids -> 0 .. MaxPid]
      /\ Sub!Parent = 1 /\ Sub!Parent \in Sub!Pids /\ Sub!Pids = 1 .. MaxPid
  BY ProgramAssumptions
     DEF Sub!SubProcAssumption, SubInv, Sub!TypeOK, Sub!Parent, Sub!Pids
<1>2. p = Sub!Parent /\ subpc[p] = "loop" /\ i[p] < SUB_PROC_NUM
  BY <1>1 DEF Sub!Fork, Sub!InLoop, SubInv
<1>3. PICK c \in Sub!Free :
         /\ subpc' = [subpc EXCEPT ![c] = "exec"]
         /\ i' = [i EXCEPT ![c] = i[p], ![p] = @ + 1]
         /\ ppid' = [ppid EXCEPT ![c] = p]
  <2> DEFINE least == CHOOSE q \in Sub!Free : \A r \in Sub!Free : q <= r
  <2>1. Sub!Free # {} /\ Sub!Free \in SUBSET Nat
    <3>1. Sub!Free # {}
      BY DEF Sub!Fork
    <3>2. Sub!Free \in SUBSET Nat
      BY <1>1 DEF Sub!Free
    <3> QED BY <3>1, <3>2
  <2>2. \E q \in Sub!Free : \A r \in Sub!Free : q <= r
    BY <2>1, LeastExists
  <2>3. least \in Sub!Free
    BY <2>2
  <2>4. /\ subpc' = [subpc EXCEPT ![least] = "exec"]
        /\ i' = [i EXCEPT ![least] = i[p], ![p] = @ + 1]
        /\ ppid' = [ppid EXCEPT ![least] = p]
    BY DEF Sub!Fork, Sub!ChildStart
  <2> QED BY <2>3, <2>4
<1>4. c \in Sub!Pids /\ subpc[c] = "none" /\ c # p
  BY <1>2 DEF Sub!Free
<1>5. /\ \A q \in Sub!Pids : subpc'[q] = IF q = c THEN "exec" ELSE subpc[q]
      /\ \A q \in Sub!Pids : ppid'[q] = IF q = c THEN p ELSE ppid[q]
      /\ \A q \in Sub!Pids : i'[q] = IF q = c THEN i[p] ELSE IF q = p THEN i[p] + 1 ELSE i[q]
  BY <1>1, <1>3, <1>4
<1>6. Sub!TypeOK'
  BY <1>1, <1>2, <1>3, <1>4 DEF Sub!TypeOK
<1>7. \A q \in Sub!Pids \ {Sub!Parent} :
         subpc'[q] # "none" => /\ subpc'[q] \in {"exec", "timer", "zombie"}
                               /\ ppid'[q] = Sub!Parent /\ i'[q] < i'[Sub!Parent]
  BY <1>1, <1>2, <1>4, <1>5 DEF SubInv
<1>8. ASSUME NEW q, NEW r, q \in Sub!Children(Sub!Parent)', r \in Sub!Children(Sub!Parent)',
             i'[q] = i'[r]
      PROVE  q = r
  <2>1. /\ q \in Sub!Pids /\ subpc'[q] # "none" /\ ppid'[q] = Sub!Parent
        /\ r \in Sub!Pids /\ subpc'[r] # "none" /\ ppid'[r] = Sub!Parent
    BY <1>8 DEF Sub!Children, Sub!Pids, Sub!Parent
  <2>2. q # Sub!Parent /\ r # Sub!Parent
    BY <1>1, <1>2, <1>4, <1>5, <2>1 DEF SubInv
  <2>3. \A x \in Sub!Pids : subpc[x] # "none" /\ ppid[x] = Sub!Parent
                               => x \in Sub!Children(Sub!Parent)
    BY DEF Sub!Children
  <2>4. \A x \in Sub!Pids \ {Sub!Parent} : subpc[x] # "none" => i[x] # i[p]
    BY <1>1, <1>2 DEF SubInv
  <2> QED BY <1>2, <1>5, <1>8, <2>1, <2>2, <2>3, <2>4 DEF SubInv
<1>9. Sub!ParentLast'
  BY <1>1, <1>2, <1>4, <1>5 DEF Sub!ParentLast, Sub!Parent, Sub!Pids
<1>10. /\ subpc'[Sub!Parent] \in {"loop", "wait", "zombie"} /\ ppid'[Sub!Parent] = 0
  BY <1>1, <1>2, <1>4, <1>5 DEF SubInv
<1>11. \A q, r \in Sub!Children(Sub!Parent)' : i'[q] = i'[r] => q = r
  BY <1>8
<1> QED BY <1>6, <1>7, <1>9, <1>10, <1>11 DEF SubInv, Sub!Parent, Sub!Pids

(* Only fork makes a process, and only the parent collects one.            *)
LEMMA OtherStepKeepsSubInv ==
    ASSUME SubInv, NEW p \in Sub!Pids,
           \/ Sub!ForkFails(p) \/ Sub!LoopEnds(p) \/ Sub!Exec(p)
           \/ Sub!TimerExits(p) \/ Sub!Reap(p) \/ Sub!WaitEnds(p)
    PROVE  SubInv'
<1>1. /\ MaxPid \in Nat \ {0} /\ SUB_PROC_NUM \in 1 .. 5
      /\ subpc \in [Sub!Pids -> {"none", "loop", "exec", "timer", "wait", "zombie"}]
      /\ i \in [Sub!Pids -> 0 .. SUB_PROC_NUM] /\ ppid \in [Sub!Pids -> 0 .. MaxPid]
      /\ Sub!Parent = 1 /\ Sub!Parent \in Sub!Pids /\ Sub!Pids = 1 .. MaxPid
  BY ProgramAssumptions
     DEF Sub!SubProcAssumption, SubInv, Sub!TypeOK, Sub!Parent, Sub!Pids
<1>2. CASE Sub!ForkFails(p)
  <2>1. /\ p = Sub!Parent /\ i[p] < SUB_PROC_NUM /\ subpc' = subpc /\ ppid' = ppid
        /\ i' = [i EXCEPT ![p] = i[p] + 1] /\ subpc[p] = "loop"
    BY <1>1, <1>2 DEF Sub!ForkFails, Sub!InLoop, SubInv
  <2>2. Sub!TypeOK'
    BY <1>1, <2>1 DEF Sub!TypeOK
  <2>3. /\ \A q \in Sub!Pids \ {Sub!Parent} : i'[q] = i[q]
        /\ i'[Sub!Parent] = i[Sub!Parent] + 1
    BY <1>1, <2>1
  <2>4. \A q \in Sub!Children(Sub!Parent) : q \in Sub!Pids \ {Sub!Parent}
    BY <1>1 DEF SubInv, Sub!Children
  <2>5. \A q, r \in Sub!Children(Sub!Parent)' : i'[q] = i'[r] => q = r
    <3>1. Sub!Children(Sub!Parent)' = Sub!Children(Sub!Parent)
      BY <2>1 DEF Sub!Children, Sub!Parent, Sub!Pids
    <3> QED BY <2>3, <2>4, <3>1 DEF SubInv
  <2>6. \A q \in Sub!Pids \ {Sub!Parent} :
           subpc'[q] # "none" => /\ subpc'[q] \in {"exec", "timer", "zombie"}
                                 /\ ppid'[q] = Sub!Parent /\ i'[q] < i'[Sub!Parent]
    BY <1>1, <2>1, <2>3 DEF SubInv
  <2> QED BY <2>1, <2>2, <2>5, <2>6 DEF SubInv, Sub!ParentLast, Sub!Parent, Sub!Pids
<1>3. ASSUME NEW c \in Sub!Pids, NEW state \in {"none", "exec", "timer", "wait", "zombie"},
             i' = i, ppid' = ppid, subpc' = [subpc EXCEPT ![c] = state], subpc[c] # "none",
             c = Sub!Parent => state \in {"wait", "zombie"},
             c = Sub!Parent /\ state = "zombie" => Sub!Children(Sub!Parent) = {},
             c # Sub!Parent => state \notin {"wait"} /\ subpc[Sub!Parent] # "zombie"
      PROVE  SubInv'
  <2>1. \A q \in Sub!Pids : subpc'[q] = IF q = c THEN state ELSE subpc[q]
    BY <1>1, <1>3
  <2>2. Sub!TypeOK'
    BY <1>1, <1>3 DEF Sub!TypeOK
  <2>3. \A q \in Sub!Pids \ {Sub!Parent} :
           subpc'[q] # "none" => /\ subpc'[q] \in {"exec", "timer", "zombie"}
                                 /\ ppid'[q] = Sub!Parent /\ i'[q] < i'[Sub!Parent]
    BY <1>1, <1>3, <2>1 DEF SubInv
  <2>4. \A q, r \in Sub!Children(Sub!Parent)' : i'[q] = i'[r] => q = r
    <3>1. \A q \in Sub!Children(Sub!Parent)' : q \in Sub!Children(Sub!Parent)
      BY <1>1, <1>3, <2>1 DEF Sub!Children, Sub!Parent, Sub!Pids
    <3> QED BY <1>3, <3>1 DEF SubInv
  <2>5. Sub!ParentLast'
    <3>1. Sub!Children(Sub!Parent) = {} =>
             \A q \in Sub!Pids \ {Sub!Parent} : subpc[q] = "none"
      BY DEF Sub!Children, SubInv
    <3> QED BY <1>1, <1>3, <2>1, <3>1 DEF SubInv, Sub!ParentLast, Sub!Parent, Sub!Pids
  <2>6. subpc'[Sub!Parent] \in {"loop", "wait", "zombie"} /\ ppid'[Sub!Parent] = 0
    BY <1>1, <1>3, <2>1 DEF SubInv
  <2> QED BY <2>2, <2>3, <2>4, <2>5, <2>6 DEF SubInv, Sub!Parent, Sub!Pids
<1>4. \A q \in Sub!Pids : q # Sub!Parent /\ subpc[q] # "none" => subpc[Sub!Parent] # "zombie"
  BY DEF SubInv, Sub!ParentLast
<1>5. CASE Sub!LoopEnds(p)
  <2>1. p = Sub!Parent /\ subpc[p] = "loop"
    BY <1>1, <1>5 DEF Sub!LoopEnds, SubInv
  <2> QED BY <1>3, <1>5, <2>1 DEF Sub!LoopEnds
<1>6. CASE Sub!Exec(p) \/ Sub!TimerExits(p)
  <2>1. p # Sub!Parent /\ subpc[p] # "none"
    BY <1>1, <1>6 DEF Sub!Exec, Sub!TimerExits, SubInv
  <2> QED BY <1>3, <1>4, <1>6, <2>1 DEF Sub!Exec, Sub!TimerExits
<1>7. CASE Sub!Reap(p)
  <2>1. p = Sub!Parent /\ subpc[p] = "wait"
    BY <1>1, <1>7 DEF Sub!Reap, SubInv
  <2>2. PICK c \in Sub!Children(p) :
           subpc[c] = "zombie" /\ subpc' = [subpc EXCEPT ![c] = "none"] /\ i' = i /\ ppid' = ppid
    BY <1>7 DEF Sub!Reap
  <2>3. c \in Sub!Pids /\ c # Sub!Parent
    BY <1>1, <2>1, <2>2 DEF Sub!Children, SubInv
  <2> QED BY <1>3, <1>4, <2>2, <2>3
<1>8. CASE Sub!WaitEnds(p)
  <2>1. p = Sub!Parent /\ Sub!Children(p) = {} /\ subpc[p] = "wait"
    BY <1>1, <1>8 DEF Sub!WaitEnds, Sub!WaitFails, SubInv
  <2> QED BY <1>3, <1>8, <2>1 DEF Sub!WaitEnds
<1> QED BY <1>2, <1>5, <1>6, <1>7, <1>8

(* Forks, ends and waits.                                                  *)
LEMMA SubStep ==
    ASSUME SubInv, [Sub!Next]_(Sub!vars)
    PROVE  SubInv'
<1>1. CASE UNCHANGED Sub!vars
  BY <1>1 DEF Sub!vars, SubInv, Sub!TypeOK, Sub!Children, Sub!ParentLast, Sub!Parent, Sub!Pids
<1>2. CASE Sub!Next
  BY <1>2, ForkKeepsSubInv, OtherStepKeepsSubInv DEF Sub!Next, Sub!Step
<1> QED BY <1>1, <1>2

(* The promises of the process tree.                                       *)
LEMMA SubProperties == SubInv => Sub!NoGrandchildren /\ Sub!ParentLast
<1> SUFFICES ASSUME SubInv PROVE Sub!NoGrandchildren
  BY DEF SubInv
<1>1. ASSUME NEW p \in Sub!Pids, p # Sub!Parent PROVE Sub!Children(p) = {}
  <2>1. ASSUME NEW c \in Sub!Pids, subpc[c] # "none" PROVE ppid[c] \in {0, Sub!Parent}
    BY <2>1 DEF SubInv
  <2>2. p # 0
    BY DEF Sub!Pids
  <2> QED BY <1>1, <2>1, <2>2 DEF Sub!Children
<1> QED BY <1>1 DEF SubInv, Sub!NoGrandchildren

-----------------------------------------------------------------------------
(* Pipe.  Who lives and is not through has the end it needs open, and the  *)
(* parent that waits has no writing end of its own.                        *)
PipInv ==
    /\ Pip!TypeOK
    /\ parent = "pipe" => ends = {}
    /\ parent = "fork" => ends = Pip!Both("parent")
    /\ parent \in {"pipe", "fork"} => child = "none"
    /\ parent \in {"close", "read"} => child # "none" /\ <<"parent", "read">> \in ends
    /\ parent = "read" => <<"parent", "write">> \notin ends
    /\ child \in {"close", "write", "done"} => <<"child", "write">> \in ends
    /\ child \in {"none", "close", "write"} => ~message /\ got # "message"
    /\ parent = "done" /\ child # "none" => got # "nothing"
    /\ got = "end" => child = "killed"
    /\ ~mortal => child # "killed" /\ parent # "killed"

(* Before the fork.                                                        *)
LEMMA PipInit == Pip!Init => PipInv
BY DEF Pip!Init, PipInv, Pip!TypeOK, Pip!Both

(* Each call of the two processes, and a kill.                             *)
LEMMA PipStep ==
    ASSUME PipInv, [Pip!Next]_(Pip!vars)
    PROVE  PipInv'
<1> USE DEF PipInv, Pip!TypeOK, Pip!Both
<1>1. CASE UNCHANGED Pip!vars
  BY <1>1 DEF Pip!vars
<1>2. CASE Pip!Pipe
  BY <1>2 DEF Pip!Pipe
<1>3. CASE Pip!Fork
  BY <1>3 DEF Pip!Fork
<1>4. CASE Pip!ParentCloseEnd
  BY <1>4 DEF Pip!ParentCloseEnd, Pip!ParentKeeps
<1>5. CASE Pip!ParentReads
  BY <1>5 DEF Pip!ParentReads, Pip!Writers
<1>6. CASE Pip!ChildCloseEnd
  BY <1>6 DEF Pip!ChildCloseEnd, Pip!ChildKeeps
<1>7. CASE Pip!ChildWrites
  BY <1>7 DEF Pip!ChildWrites, Pip!Readers
<1>8. CASE Pip!Dies
  BY <1>8 DEF Pip!Dies
<1> QED BY <1>1, <1>2, <1>3, <1>4, <1>5, <1>6, <1>7, <1>8
        DEF Pip!Next, Pip!Parent, Pip!Child

(* The promise of the pipe.                                                *)
LEMMA PipProperty == PipInv => Pip!MessageOrDeath
BY DEF PipInv, Pip!MessageOrDeath

-----------------------------------------------------------------------------
(* Signals.  A handler that was installed is in place, or runs, or has     *)
(* printed its trace; so has that of a fault that comes again.             *)
Frame == [sig : Sig!Sigs, step : {"enter", "backtrace", "malloc"}]
SigsOf(fs) == {fs[j].sig : j \in DOMAIN fs}
DistinctSigs(fs) == \A j, k \in DOMAIN fs : fs[j].sig = fs[k].sig => j = k

Answered(s) == handler[s] = "own" \/ s \in traced \/ s \in Sig!Blocked

SigInv ==
    /\ Sig!TypeOK /\ Sig!TracedBeforeDeath
    /\ dumps \in BOOLEAN /\ undefined \in BOOLEAN
    /\ frames \in Seq(Frame) /\ pending \subseteq Sig!Sent /\ SigsOf(frames) \subseteq Sig!Sent
    /\ dumps => /\ installed >= 1 => Answered("SEGV")
                /\ installed >= 2 => Answered("ABRT")
                /\ installed >= 3 => Answered("FPE")
    /\ ~dumps => (installed >= 1 => handler["INT"] = "own")
    /\ faulting # "none" /\ fate = "alive" =>
          faulting \in {"SEGV", "FPE", "ABRT"} /\ (faulting \in traced \/ faulting \in Sig!Blocked)

(* A signal that is delivered adds a frame.                                *)
LEMMA PushFrame ==
    ASSUME NEW fs \in Seq(Frame), NEW s \in Sig!Sigs
    PROVE  LET gs == <<[sig |-> s, step |-> "enter"]>> \o fs
           IN  /\ gs \in Seq(Frame) /\ SigsOf(gs) = SigsOf(fs) \cup {s}
               /\ DistinctSigs(fs) /\ s \notin SigsOf(fs) => DistinctSigs(gs)
<1> DEFINE f == [sig |-> s, step |-> "enter"]
           gs == <<f>> \o fs
<1>1. f \in Frame /\ f.sig = s
  BY DEF Frame
<1> HIDE DEF f
<1>2. <<f>> \in Seq(Frame) /\ Len(<<f>>) = 1 /\ <<f>>[1] = f
  BY <1>1
<1>3. /\ gs \in Seq(Frame) /\ Len(gs) = Len(fs) + 1 /\ Len(fs) \in Nat
      /\ DOMAIN fs = 1 .. Len(fs)
  BY <1>2
<1>4. \A n \in 1 .. 1 + Len(fs) : gs[n] = IF n <= 1 THEN f ELSE fs[n - 1]
  <2>1. \A n \in 1 .. Len(<<f>>) + Len(fs) :
           (<<f>> \o fs)[n] = IF n <= Len(<<f>>) THEN <<f>>[n] ELSE fs[n - Len(<<f>>)]
    BY <1>2, ConcatProperties, Zenon
  <2> QED BY <1>2, <1>3, <2>1
<1> HIDE DEF gs
<1>5. DOMAIN gs = 1 .. Len(fs) + 1 /\ gs[1] = f /\ \A n \in DOMAIN fs : gs[n + 1] = fs[n]
  BY <1>3, <1>4
<1>6. SigsOf(gs) = SigsOf(fs) \cup {s}
  <2>1. \A n \in DOMAIN gs : n = 1 \/ (n - 1 \in DOMAIN fs /\ gs[n] = fs[n - 1])
    BY <1>3, <1>4, <1>5
  <2>2. \A n \in DOMAIN fs : n + 1 \in DOMAIN gs
    BY <1>3, <1>5
  <2>3. 1 \in DOMAIN gs
    BY <1>3, <1>5
  <2> QED BY <1>1, <1>5, <2>1, <2>2, <2>3 DEF SigsOf
<1>7. ASSUME DistinctSigs(fs), s \notin SigsOf(fs) PROVE DistinctSigs(gs)
  <2> SUFFICES ASSUME NEW j \in DOMAIN gs, NEW k \in DOMAIN gs, gs[j].sig = gs[k].sig
               PROVE  j = k
    BY DEF DistinctSigs
  <2>1. \A n \in DOMAIN gs : n = 1 \/ (n - 1 \in DOMAIN fs /\ gs[n] = fs[n - 1])
    BY <1>3, <1>4, <1>5
  <2>2. \A n \in DOMAIN fs : fs[n].sig # s
    BY <1>7 DEF SigsOf
  <2>3. j = 1 <=> k = 1
    BY <1>1, <1>5, <2>1, <2>2
  <2>4. CASE j # 1 /\ k # 1
    <3>1. j - 1 = k - 1
      BY <1>7, <2>1, <2>4 DEF DistinctSigs
    <3>2. j \in Nat /\ k \in Nat
      BY <1>3, <1>5
    <3> QED BY <3>1, <3>2
  <2> QED BY <2>3, <2>4
<1> QED BY <1>3, <1>6, <1>7 DEF gs, f

(* A handler that returns takes its frame off.                             *)
LEMMA PopFrame ==
    ASSUME NEW fs \in Seq(Frame), fs # <<>>, DistinctSigs(fs)
    PROVE  /\ Tail(fs) \in Seq(Frame) /\ DistinctSigs(Tail(fs))
           /\ SigsOf(Tail(fs)) \subseteq SigsOf(fs)
           /\ SigsOf(fs) \subseteq SigsOf(Tail(fs)) \cup {fs[1].sig}
<1> DEFINE gs == Tail(fs)
<1>1. /\ gs \in Seq(Frame) /\ DOMAIN gs = 1 .. Len(fs) - 1
      /\ DOMAIN fs = 1 .. Len(fs) /\ Len(fs) \in Nat \ {0}
      /\ \A n \in 1 .. Len(fs) - 1 : gs[n] = fs[n + 1]
  <2>1. /\ gs \in Seq(Frame) /\ Len(gs) = Len(fs) - 1
        /\ \A n \in 1 .. Len(gs) : gs[n] = fs[n + 1]
    BY HeadTailProperties, Zenon
  <2>2. Len(fs) \in Nat \ {0} /\ DOMAIN fs = 1 .. Len(fs) /\ DOMAIN gs = 1 .. Len(gs)
    BY <2>1
  <2> QED BY <2>1, <2>2
<1> HIDE DEF gs
<1>2. \A n \in DOMAIN gs : n + 1 \in DOMAIN fs
  BY <1>1
<1>3. \A n \in DOMAIN fs : n = 1 \/ (n - 1 \in DOMAIN gs /\ gs[n - 1] = fs[n])
  BY <1>1
<1>4. SigsOf(gs) \subseteq SigsOf(fs) /\ SigsOf(fs) \subseteq SigsOf(gs) \cup {fs[1].sig}
  <2>1. \A n \in DOMAIN gs : gs[n] = fs[n + 1]
    BY <1>1
  <2> QED BY <1>2, <1>3, <2>1 DEF SigsOf
<1>5. DistinctSigs(gs)
  <2> SUFFICES ASSUME NEW j \in DOMAIN gs, NEW k \in DOMAIN gs, gs[j].sig = gs[k].sig
               PROVE  j = k
    BY DEF DistinctSigs
  <2>1. j + 1 = k + 1
    BY <1>1, <1>2 DEF DistinctSigs
  <2> QED BY <1>1, <2>1
<1> QED BY <1>1, <1>4, <1>5 DEF gs

(* A step within a handler changes the top frame only.                     *)
LEMMA StepFrame ==
    ASSUME NEW fs \in Seq(Frame), fs # <<>>, DistinctSigs(fs),
           NEW step \in {"enter", "backtrace", "malloc"}
    PROVE  LET gs == [fs EXCEPT ![1].step = step]
           IN  gs \in Seq(Frame) /\ DistinctSigs(gs) /\ SigsOf(gs) = SigsOf(fs)
<1> DEFINE f == [sig |-> fs[1].sig, step |-> step]
           gs == [fs EXCEPT ![1] = f]
<1>1. fs[1] \in Frame /\ 1 \in 1 .. Len(fs) /\ DOMAIN fs = 1 .. Len(fs)
  BY EmptySeq
<1>2. f \in Frame /\ f.sig = fs[1].sig /\ [fs EXCEPT ![1].step = step] = gs
  <2>1. [fs[1] EXCEPT !.step = step] = f
    BY <1>1 DEF Frame
  <2> QED BY <1>1, <2>1 DEF Frame
<1> HIDE DEF f
<1>3. /\ gs \in Seq(Frame) /\ Len(gs) = Len(fs)
      /\ \A j \in 1 .. Len(fs) : gs[j] = IF j = 1 THEN f ELSE fs[j]
  BY <1>1, <1>2, ExceptSeq
<1> HIDE DEF gs
<1>4. DOMAIN gs = DOMAIN fs /\ \A j \in DOMAIN fs : gs[j].sig = fs[j].sig
  <2>1. DOMAIN gs = 1 .. Len(gs)
    BY <1>3
  <2> QED BY <1>1, <1>2, <1>3, <2>1
<1>5. DistinctSigs(gs) /\ SigsOf(gs) = SigsOf(fs)
  BY <1>4 DEF DistinctSigs, SigsOf
<1> QED BY <1>2, <1>3, <1>5

(* The program runs, and no signal came.                                   *)
LEMMA SigInit == Sig!Init => SigInv
<1> SUFFICES ASSUME Sig!Init PROVE SigInv
  OBVIOUS
<1>1. frames = <<>> /\ frames \in Seq(Frame) /\ DOMAIN frames = {} /\ SigsOf(frames) = {}
  BY DEF Sig!Init, SigsOf
<1>2. installed \in 0 .. Len(Sig!Registered)
  BY DEF Sig!Init, Sig!Registered
<1>3. Sig!TypeOK
  <2>1. signalsSent \in 0 .. MaxSignals
    BY ProgramAssumptions DEF Sig!Init, Sig!SignalsAssumption
  <2>2. \A j, k \in DOMAIN frames : frames[j].sig = frames[k].sig => j = k
    BY <1>1
  <2>3. handler \in [Sig!Sigs -> {"default", "own"}]
    BY DEF Sig!Init
  <2> QED BY <1>2, <2>1, <2>2, <2>3 DEF Sig!Init, Sig!TypeOK
<1>4. /\ dumps \in BOOLEAN /\ undefined \in BOOLEAN /\ installed = 0 /\ fate = "alive"
      /\ pending = {} /\ faulting = "none"
  BY DEF Sig!Init
<1> QED BY <1>1, <1>3, <1>4 DEF SigInv, Sig!TracedBeforeDeath

(* What the invariant says of one registered signal, whatever is installed *)
(* later: a step that ends its handler has printed its trace.              *)
LEMMA ComesKeeps ==
    ASSUME SigInv, fate = "alive", NEW s \in Sig!Sent, s \notin Sig!Blocked,
           Sig!Comes(s, frames), handler' = handler, traced' = traced
    PROVE  /\ frames' \in Seq(Frame) /\ DistinctSigs(frames)' /\ SigsOf(frames)' \subseteq Sig!Sent
           /\ SigsOf(frames) \subseteq SigsOf(frames)'
           /\ \/ fate' = "alive" /\ killer' = killer /\ s \in SigsOf(frames)'
              \/ fate' = "killed" /\ killer' = s /\ handler[s] = "default"
<1>1. /\ frames \in Seq(Frame) /\ DistinctSigs(frames) /\ s \notin SigsOf(frames) /\ s \in Sig!Sigs
      /\ SigsOf(frames) \subseteq Sig!Sent /\ handler[s] \in {"default", "own"}
  BY DEF SigInv, Sig!TypeOK, DistinctSigs, SigsOf, Sig!Blocked, Sig!Sent, Sig!Sigs, Sig!Faults
<1>2. CASE handler[s] = "default"
  BY <1>1, <1>2 DEF Sig!Comes, Sig!Killed, DistinctSigs, SigsOf
<1>3. CASE handler[s] # "default"
  <2>1. frames' = <<[sig |-> s, step |-> "enter"]>> \o frames /\ fate' = fate /\ killer' = killer
    BY <1>3 DEF Sig!Comes
  <2>2. /\ frames' \in Seq(Frame) /\ SigsOf(frames') = SigsOf(frames) \cup {s}
        /\ DistinctSigs(frames')
    BY <1>1, <2>1, PushFrame
  <2>3. SigsOf(frames)' = SigsOf(frames') /\ DistinctSigs(frames)' = DistinctSigs(frames')
    BY DEF SigsOf, DistinctSigs
  <2> QED BY <1>1, <2>1, <2>2, <2>3
<1> QED BY <1>2, <1>3

(* A step that takes no handler away nor ends one keeps the invariant, if  *)
(* what it kills with was not blocked and had no handler.                  *)
LEMMA CameKeepsSigInv ==
    ASSUME SigInv, UNCHANGED <<dumps, installed, handler, traced, undefined>>,
           frames' \in Seq(Frame), DistinctSigs(frames)', SigsOf(frames)' \subseteq Sig!Sent,
           SigsOf(frames) \subseteq SigsOf(frames)',
           pending' \subseteq Sig!Sent, signalsSent' \in 0 .. MaxSignals,
           faulting' = faulting \/ (faulting' \in {"SEGV", "FPE", "ABRT"} /\
              (fate' = "alive" => faulting' \in SigsOf(frames)')),
           NEW s \in Sig!Sent,
           \/ fate' = "alive" /\ fate = "alive" /\ killer' = killer
           \/ fate' = "killed" /\ killer' = s /\ fate = "alive"
              /\ handler[s] = "default" /\ s \notin SigsOf(frames)
    PROVE  SigInv'
<1>1. SigsOf(frames) = Sig!Blocked /\ SigsOf(frames)' = Sig!Blocked'
  BY DEF SigsOf, Sig!Blocked
<1>2. Sig!Sent \subseteq Sig!Sigs /\ {"SEGV", "FPE", "ABRT"} \subseteq Sig!Sigs /\ "none" \notin Sig!Sigs
  BY DEF Sig!Sent, Sig!Sigs, Sig!Faults
<1>3. Sig!TypeOK'
  BY <1>2 DEF SigInv, Sig!TypeOK, DistinctSigs, Sig!Registered
<1>4. /\ dumps => /\ installed >= 1 => Answered("SEGV")'
                  /\ installed >= 2 => Answered("ABRT")'
                  /\ installed >= 3 => Answered("FPE")'
      /\ ~dumps => (installed >= 1 => handler'["INT"] = "own")
  BY <1>1 DEF SigInv, Answered
<1>5. Sig!TracedBeforeDeath'
  <2> SUFFICES ASSUME fate' = "killed", installed = Len(Sig!Registered) PROVE dumps /\ s \in traced
    BY <1>1 DEF Sig!TracedBeforeDeath, Sig!Registered
  <2>1. s \notin SigsOf(frames) /\ handler[s] = "default"
    BY DEF SigInv
  <2>2. CASE dumps
    BY <1>1, <2>1, <2>2 DEF SigInv, Answered, Sig!Sent, Sig!Registered
  <2>3. CASE ~dumps
    BY <2>1, <2>3 DEF SigInv, Sig!Sent, Sig!Registered
  <2> QED BY <2>2, <2>3
<1>6. faulting' # "none" /\ fate' = "alive" =>
          faulting' \in {"SEGV", "FPE", "ABRT"} /\ (faulting' \in traced' \/ faulting' \in Sig!Blocked')
  BY <1>1 DEF SigInv
<1>7. UNCHANGED Sig!Sent
  BY DEF Sig!Sent
<1> QED BY <1>3, <1>4, <1>5, <1>6, <1>7 DEF SigInv

(* Signals, faults and the steps of handlers.                              *)
LEMMA SigStep ==
    ASSUME SigInv, [Sig!Next]_(Sig!vars)
    PROVE  SigInv'
<1>1. CASE UNCHANGED Sig!vars
  BY <1>1 DEF Sig!vars, Sig!program, SigInv, Sig!TypeOK, Sig!TracedBeforeDeath, Sig!Blocked,
              Sig!Registered, Sig!Sent, SigsOf, Answered
<1>2. /\ frames \in Seq(Frame) /\ DistinctSigs(frames) /\ SigsOf(frames) \subseteq Sig!Sent
      /\ pending \subseteq Sig!Sent /\ SigsOf(frames) = Sig!Blocked
      /\ signalsSent \in 0 .. MaxSignals /\ MaxSignals \in Nat
  BY ProgramAssumptions
     DEF SigInv, Sig!TypeOK, DistinctSigs, SigsOf, Sig!Blocked, Sig!SignalsAssumption
<1>3. CASE \E s \in Sig!Sent : Sig!Send(s)
  <2>1. PICK s \in Sig!Sent : Sig!Send(s)
    BY <1>3
  <2>2. /\ UNCHANGED <<dumps, installed, handler, traced, undefined, faulting>>
        /\ fate = "alive" /\ signalsSent' \in 0 .. MaxSignals
    BY <1>2, <2>1 DEF Sig!Send, Sig!program
  <2>3. CASE s \in Sig!Blocked
    <3>1. /\ UNCHANGED <<fate, killer, frames>> /\ pending' \subseteq Sig!Sent
      BY <1>2, <2>1, <2>3 DEF Sig!Send
    <3>2. SigsOf(frames)' = SigsOf(frames) /\ DistinctSigs(frames)' /\ frames' \in Seq(Frame)
      BY <1>2, <3>1 DEF SigsOf, DistinctSigs
    <3> QED BY <1>2, <2>2, <3>1, <3>2, CameKeepsSigInv
  <2>4. CASE s \notin Sig!Blocked
    <3>1. Sig!Comes(s, frames) /\ pending' = pending
      BY <2>1, <2>4 DEF Sig!Send
    <3> QED BY <1>2, <2>2, <2>4, <3>1, ComesKeeps, CameKeepsSigInv
  <2> QED BY <2>3, <2>4
<1>4. CASE Sig!Delivered
  <2>1. PICK s \in pending \ Sig!Blocked : Sig!Comes(s, frames) /\ pending' = pending \ {s}
    BY <1>4 DEF Sig!Delivered
  <2>2. /\ UNCHANGED <<dumps, installed, handler, traced, undefined, faulting, signalsSent>>
        /\ fate = "alive"
    BY <1>4 DEF Sig!Delivered, Sig!program
  <2>3. s \in Sig!Sent /\ s \notin Sig!Blocked /\ pending' \subseteq Sig!Sent
    BY <1>2, <2>1
  <2> QED BY <1>2, <2>1, <2>2, <2>3, ComesKeeps, CameKeepsSigInv
<1>5. CASE \E s \in Sig!Faults \cup {"ABRT"} : Sig!Fault(s)
  <2>1. PICK s \in Sig!Faults \cup {"ABRT"} : Sig!Fault(s)
    BY <1>5
  <2>2. /\ UNCHANGED <<dumps, installed, handler, traced, undefined, signalsSent, pending>>
        /\ fate = "alive" /\ faulting' = s /\ dumps /\ frames = <<>>
        /\ s \in Sig!Sent /\ faulting' \in {"SEGV", "FPE", "ABRT"}
    BY <2>1 DEF Sig!Fault, Sig!program, Sig!Resumes, Sig!Sent, Sig!Faults
  <2>3. SigsOf(frames) = {} /\ s \notin Sig!Blocked
    BY <1>2, <2>2 DEF SigsOf
  <2>4. CASE Sig!Comes(s, frames)
    BY <1>2, <2>2, <2>3, <2>4, ComesKeeps, CameKeepsSigInv
  <2>5. CASE faulting = "ABRT" /\ Sig!Killed(s) /\ UNCHANGED frames
    <3>1. "ABRT" \in traced /\ s = "ABRT"
      BY <1>2, <2>1, <2>2, <2>3, <2>5 DEF SigInv, Sig!Fault
    <3>2. Sig!TypeOK' /\ Sig!TracedBeforeDeath'
      BY <2>2, <2>5, <3>1 DEF SigInv, Sig!TypeOK, Sig!TracedBeforeDeath, Sig!Killed, Sig!Registered,
                              Sig!Sigs, Sig!Faults
    <3> QED BY <2>2, <2>5, <3>2 DEF SigInv, Sig!Killed, Sig!Sent, SigsOf, Answered, Sig!Blocked
  <2> QED BY <2>1, <2>4, <2>5 DEF Sig!Fault
<1>6. CASE Sig!Mallocs
  <2>1. UNCHANGED <<dumps, installed, handler, faulting, frames, pending, traced, fate, killer,
                    undefined, signalsSent>>
    BY <1>6 DEF Sig!Mallocs
  <2> QED BY <2>1 DEF SigInv, Sig!TypeOK, Sig!TracedBeforeDeath, Sig!Blocked,
                      Sig!Registered, Sig!Sent, SigsOf, Answered
<1>7. CASE Sig!Install
  <2>1. /\ UNCHANGED <<dumps, faulting, frames, pending, traced, fate, killer, undefined, signalsSent>>
        /\ fate = "alive" /\ installed \in 0 .. Len(Sig!Registered) - 1 /\ installed' = installed + 1
        /\ handler' = [handler EXCEPT ![Sig!Registered[installed']] = "own"]
    BY <1>7 DEF Sig!Install, Sig!Resumes, SigInv, Sig!TypeOK, Sig!Registered
  <2>2. handler \in [Sig!Sigs -> {"default", "own"}] /\ Sig!Registered[installed'] \in Sig!Sigs
    BY <2>1 DEF SigInv, Sig!TypeOK, Sig!Registered, Sig!Sigs, Sig!Faults
  <2>3. Sig!TypeOK'
    BY <2>1, <2>2 DEF SigInv, Sig!TypeOK, Sig!Registered
  <2>4. UNCHANGED <<Sig!Blocked, Sig!Sent, SigsOf(frames)>> /\ ~(fate' = "killed")
    BY <2>1 DEF Sig!Blocked, Sig!Sent, SigsOf
  <2>5. \A s \in Sig!Sigs : /\ handler[s] = "own" => handler'[s] = "own"
                            /\ s = Sig!Registered[installed'] => handler'[s] = "own"
    BY <2>1, <2>2
  <2>6. /\ dumps => /\ installed' >= 1 => Answered("SEGV")'
                    /\ installed' >= 2 => Answered("ABRT")'
                    /\ installed' >= 3 => Answered("FPE")'
        /\ ~dumps => (installed' >= 1 => handler'["INT"] = "own")
    <3>1. {"SEGV", "ABRT", "FPE", "INT"} \subseteq Sig!Sigs
      BY DEF Sig!Sigs, Sig!Faults
    <3>2. CASE dumps
      BY <2>1, <2>4, <2>5, <3>1, <3>2 DEF SigInv, Answered, Sig!Registered
    <3>3. CASE ~dumps
      BY <2>1, <2>4, <2>5, <3>1, <3>3 DEF SigInv, Answered, Sig!Registered
    <3> QED BY <3>2, <3>3
  <2> QED BY <2>1, <2>3, <2>4, <2>6 DEF SigInv, Sig!TracedBeforeDeath
<1>8. ASSUME frames # <<>>
      PROVE  /\ frames[1] \in Frame /\ frames[1].sig \in SigsOf(frames)
             /\ Tail(frames) \in Seq(Frame) /\ DistinctSigs(Tail(frames))
             /\ SigsOf(Tail(frames)) \subseteq SigsOf(frames)
             /\ SigsOf(frames) \subseteq SigsOf(Tail(frames)) \cup {frames[1].sig}
  <2>1. frames[1] \in Frame /\ 1 \in DOMAIN frames
    BY <1>2, <1>8, EmptySeq
  <2> QED BY <1>2, <1>8, <2>1, PopFrame DEF SigsOf
<1>9. CASE Sig!sig_alarm
  <2>1. /\ UNCHANGED <<dumps, installed, handler, faulting, pending, traced, fate, killer, undefined,
                       signalsSent>>
        /\ frames # <<>> /\ frames[1].sig = "INT" /\ frames' = Tail(frames) /\ fate = "alive"
    BY <1>9 DEF Sig!sig_alarm, Sig!program, Sig!Returns, Sig!Resumes
  <2>2. /\ frames' \in Seq(Frame) /\ DistinctSigs(frames') /\ SigsOf(frames') \subseteq Sig!Sent
        /\ SigsOf(frames) \subseteq SigsOf(frames') \cup {"INT"}
        /\ SigsOf(frames') = Sig!Blocked' /\ SigsOf(frames') = SigsOf(frames)'
    BY <1>2, <1>8, <2>1 DEF SigsOf, Sig!Blocked
  <2>3. Sig!TypeOK'
    BY <2>1, <2>2 DEF SigInv, Sig!TypeOK, DistinctSigs, Sig!Registered
  <2> QED BY <1>2, <2>1, <2>2, <2>3 DEF SigInv, Sig!TracedBeforeDeath, Sig!Sent, Answered
<1>10. CASE Sig!dump_backtrace
  <2> DEFINE s == frames[1].sig
  <2>1. /\ UNCHANGED <<dumps, installed, faulting, pending, traced, fate, killer, undefined,
                       signalsSent>>
        /\ frames # <<>> /\ s # "INT" /\ fate = "alive"
        /\ handler' = [handler EXCEPT ![s] = "default"]
        /\ frames' = [frames EXCEPT ![1].step = "backtrace"]
    BY <1>10 DEF Sig!dump_backtrace, Sig!program, Sig!Resumes, Sig!DefaultRestored
  <2>2. /\ frames' \in Seq(Frame) /\ DistinctSigs(frames') /\ SigsOf(frames') = SigsOf(frames)
        /\ SigsOf(frames') = Sig!Blocked' /\ SigsOf(frames') = SigsOf(frames)'
    BY <1>2, <2>1, StepFrame DEF SigsOf, Sig!Blocked
  <2>3. s \in Sig!Blocked /\ s \in Sig!Sent
    BY <1>2, <1>8, <2>1
  <2> HIDE DEF s
  <2>4. Sig!TypeOK'
    BY <2>1, <2>2 DEF SigInv, Sig!TypeOK, DistinctSigs, Sig!Registered
  <2>5. dumps /\ \A r \in Sig!Sigs : r # s => handler'[r] = handler[r]
    BY <2>1, <2>3 DEF Sig!Sent, SigInv, Sig!TypeOK
  <2>6. {"SEGV", "ABRT", "FPE", "INT"} \subseteq Sig!Sigs
    BY DEF Sig!Sigs, Sig!Faults
  <2>7. \A r \in Sig!Sigs : Answered(r) => Answered(r)'
    BY <1>2, <2>1, <2>2, <2>3, <2>5 DEF Answered
  <2> QED BY <1>2, <2>1, <2>2, <2>4, <2>5, <2>6, <2>7 DEF SigInv, Sig!TracedBeforeDeath, Sig!Sent
<1>11. CASE Sig!EntersMalloc
  <2>1. /\ UNCHANGED <<dumps, installed, handler, faulting, pending, traced, signalsSent>>
        /\ frames # <<>> /\ fate = "alive" /\ undefined' \in BOOLEAN
        /\ fate' \in {"alive", "stuck", "killed"} /\ (killer' # "none" <=> fate' = "killed")
        /\ fate' = "killed" => undefined'
        /\ frames' \in {frames, [frames EXCEPT ![1].step = "malloc"]}
    <3>1. killer = "none" /\ undefined \in BOOLEAN
      BY <1>11 DEF Sig!EntersMalloc, Sig!Resumes, SigInv, Sig!TypeOK
    <3>2. Sig!Interrupted \in BOOLEAN
      BY DEF Sig!Interrupted
    <3> QED BY <1>11, <3>1, <3>2
            DEF Sig!EntersMalloc, Sig!program, Sig!Resumes, Sig!Killed
  <2>2. /\ frames' \in Seq(Frame) /\ DistinctSigs(frames') /\ SigsOf(frames') = SigsOf(frames)
        /\ SigsOf(frames') = Sig!Blocked' /\ SigsOf(frames') = SigsOf(frames)'
    <3>1. SigsOf(frames') = Sig!Blocked' /\ SigsOf(frames') = SigsOf(frames)'
      BY DEF SigsOf, Sig!Blocked
    <3>2. CASE frames' = frames
      BY <1>2, <3>1, <3>2
    <3>3. CASE frames' = [frames EXCEPT ![1].step = "malloc"]
      BY <1>2, <2>1, <3>1, <3>3, StepFrame
    <3> QED BY <2>1, <3>2, <3>3
  <2>3. Sig!TypeOK'
    BY <2>1, <2>2 DEF SigInv, Sig!TypeOK, DistinctSigs, Sig!Registered
  <2> QED BY <1>2, <2>1, <2>2, <2>3 DEF SigInv, Sig!TracedBeforeDeath, Sig!Sent, Answered
<1>12. CASE Sig!myfunc3
  <2>1. /\ UNCHANGED <<dumps, installed, handler, faulting, pending, killer, undefined, signalsSent>>
        /\ frames # <<>> /\ fate = "alive"
        /\ \/ traced' = traced \cup {frames[1].sig} /\ frames' = Tail(frames) /\ fate' = "alive"
           \/ traced' = traced /\ frames' = frames /\ fate' = "exited"
    BY <1>12 DEF Sig!myfunc3, Sig!program, Sig!Resumes, Sig!Returns
  <2>2. /\ frames' \in Seq(Frame) /\ DistinctSigs(frames') /\ SigsOf(frames') \subseteq Sig!Sent
        /\ SigsOf(frames) \subseteq SigsOf(frames') \cup traced'
        /\ SigsOf(frames') = Sig!Blocked' /\ SigsOf(frames') = SigsOf(frames)'
        /\ traced \subseteq traced' /\ traced' \subseteq Sig!Sigs
    <3>1. SigsOf(frames') = Sig!Blocked' /\ SigsOf(frames') = SigsOf(frames)'
      BY DEF SigsOf, Sig!Blocked
    <3>2. traced \subseteq Sig!Sigs /\ Sig!Sent \subseteq Sig!Sigs
      BY DEF SigInv, Sig!TypeOK, Sig!Sent, Sig!Sigs, Sig!Faults
    <3> QED BY <1>2, <1>8, <2>1, <3>1, <3>2
  <2>3. Sig!TypeOK'
    BY <2>1, <2>2 DEF SigInv, Sig!TypeOK, DistinctSigs, Sig!Registered
  <2> QED BY <1>2, <2>1, <2>2, <2>3 DEF SigInv, Sig!TracedBeforeDeath, Sig!Sent, Answered
<1> QED BY <1>1, <1>3, <1>4, <1>5, <1>6, <1>7, <1>9, <1>10, <1>11, <1>12
        DEF Sig!Next, Sig!Program

-----------------------------------------------------------------------------
(* Message queue.  MsgState is about where everybody is, MsgOrder about    *)
(* the lines that are around, MsgEnds about who sent the line "end", and   *)
(* MsgLoss about what is gone.                                             *)
Holding == msgReceiver \in {"print", "remove"}
QueueGone == created > 0 /\ (current = 0 \/ created > 1)

MsgState ==
    /\ Msg!TypeOK
    /\ current = 0 => msgs = <<>>
    /\ \A k \in DOMAIN msgs : msgs[k].queue = current
    /\ msgReceiver \in {"receive", "print", "remove"} => current # 0 /\ rmsgid = current
    /\ Holding => some_data \in Msg!Messages /\ some_data.queue = current
    /\ msgReceiver = "remove" => some_data.end
    /\ \A s \in Senders : /\ line[s].no = MaxLines => line[s].end
                          /\ spc[s] \in {"get", "read"} => ~line[s].end
                          /\ spc[s] = "send" => line[s].no >= 1
                          /\ spc[s] # "get" => smsgid[s] >= 1

(* In the sequence ss, x comes before y.                                   *)
Before(ss, x, y) == \E m, n \in DOMAIN ss : m < n /\ ss[m] = x /\ ss[n] = y
Among(ss, x) == \E n \in DOMAIN ss : ss[n] = x

(* With the lines ss sent, those printed, then the line d if the receiver  *)
(* is at r with it, then those in the queue come in the order of ss.       *)
Ordered(ss, ms, ps, r, d) ==
    /\ \A k \in DOMAIN ps : Among(ss, ps[k])
    /\ \A k \in DOMAIN ms : Among(ss, ms[k])
    /\ \A k, l \in DOMAIN ps : k < l => Before(ss, ps[k], ps[l])
    /\ \A k, l \in DOMAIN ms : k < l => Before(ss, ms[k], ms[l])
    /\ \A k \in DOMAIN ps, l \in DOMAIN ms : Before(ss, ps[k], ms[l])
    /\ r \in {"print", "remove"} => Among(ss, d) /\ \A l \in DOMAIN ms : Before(ss, d, ms[l])
    /\ r = "print" => \A k \in DOMAIN ps : Before(ss, ps[k], d)

MsgOrder == Ordered(sent, msgs, msgPrinted, msgReceiver, some_data)

MsgEnds ==
    /\ \A n \in DOMAIN sent : sent[n].end => spc[sent[n].sender] = "done"
    /\ QueueGone => \E n \in DOMAIN sent : sent[n].end
    /\ Msg!RefusedOnlyAfterEnd

MsgLoss ==
    \E crashed \in SUBSET Msg!Lost :
        /\ IsFiniteSet(crashed) /\ Cardinality(crashed) <= kills
        /\ \A item \in Msg!Lost \ crashed : Msg!Behind(item)

(* Taking the first message leaves the rest of the queue.                  *)
LEMMA RemoveFirst ==
    ASSUME NEW S, NEW s \in Seq(S), s # <<>>
    PROVE  /\ Msg!RemoveAt(s, 1) \in Seq(S) /\ Len(Msg!RemoveAt(s, 1)) = Len(s) - 1
           /\ \A j \in 1 .. Len(s) - 1 : Msg!RemoveAt(s, 1)[j] = s[j + 1]
<1> DEFINE s2 == SubSeq(s, 2, Len(s))
<1>1. Len(s) \in Nat \ {0} /\ DOMAIN s = 1 .. Len(s)
  BY EmptySeq
<1>2. s2 \in Seq(S) /\ Len(s2) = Len(s) - 1 /\ \A j \in 1 .. Len(s) - 1 : s2[j] = s[j + 1]
  BY <1>1
<1>3. Msg!RemoveAt(s, 1) = <<>> \o s2
  BY <1>1 DEF Msg!RemoveAt
<1> HIDE DEF s2
<1>4. <<>> \o s2 = s2
  BY <1>2
<1> QED BY <1>2, <1>3, <1>4

(* A sequence over a set is one over a larger set.                         *)
LEMMA SeqMonotone ==
    ASSUME NEW S, NEW T, S \subseteq T, NEW s \in Seq(S)
    PROVE  s \in Seq(T)
OBVIOUS

(* There is no queue yet.                                                  *)
LEMMA MsgInit == Msg!Init => MsgState /\ MsgOrder /\ MsgEnds /\ MsgLoss
<1> SUFFICES ASSUME Msg!Init PROVE MsgState /\ MsgOrder /\ MsgEnds /\ MsgLoss
  OBVIOUS
<1>1. /\ msgs = <<>> /\ sent = <<>> /\ msgPrinted = <<>>
      /\ DOMAIN msgs = {} /\ DOMAIN sent = {} /\ DOMAIN msgPrinted = {}
  BY DEF Msg!Init
<1>2. created = 0 /\ current = 0 /\ msgReceiver = "get" /\ kills = 0
  BY DEF Msg!Init
<1>3. MsgState
  BY <1>1, <1>2, ProgramAssumptions
     DEF Msg!Init, MsgState, Msg!TypeOK, Msg!NoLine, Holding, Msg!MsgAssumption
<1>4. MsgOrder
  BY <1>1, <1>2 DEF MsgOrder, Ordered
<1>5. MsgEnds
  BY <1>1, <1>2 DEF MsgEnds, QueueGone, Msg!RefusedOnlyAfterEnd, Msg!Init
<1>6. MsgLoss
  <2>1. Msg!Lost = {}
    BY <1>1 DEF Msg!Lost, Msg!ToSet
  <2>2. IsFiniteSet({}) /\ Cardinality({}) = 0
    BY FS_EmptySet
  <2> QED BY <1>2, <2>1, <2>2 DEF MsgLoss
<1> QED BY <1>3, <1>4, <1>5, <1>6

(* msgget makes a queue when there is none, an empty one.                  *)
LEMMA MsggetFacts ==
    ASSUME MsgState, Msg!msgget
    PROVE  /\ created' \in Nat /\ created <= created' /\ current' = created' /\ current' >= 1
           /\ msgs' = msgs /\ (\A k \in DOMAIN msgs : current' = current)
           /\ current # 0 => current' = current /\ created' = created
           /\ current = 0 => created' = created + 1
<1>1. created \in Nat /\ current \in {0, created}
  BY DEF MsgState, Msg!TypeOK
<1>2. CASE current = 0
  BY <1>1, <1>2 DEF MsgState, Msg!msgget
<1>3. CASE current # 0
  BY <1>1, <1>3 DEF MsgState, Msg!msgget, Msg!queue
<1> QED BY <1>2, <1>3

(* Types, and who has the queue.                                           *)
LEMMA MsgStateStep ==
    ASSUME MsgState, [Msg!Next]_(Msg!vars)
    PROVE  MsgState'
<1>a. Capacity \in Nat \ {0} /\ MaxLines \in Nat \ {0} /\ MaxKills \in Nat
  BY ProgramAssumptions DEF Msg!MsgAssumption
<1>b. /\ created \in Nat /\ current \in {0, created}
      /\ msgs \in Seq(Msg!Messages) /\ Len(msgs) <= Capacity
      /\ spc \in [Senders -> {"get", "read", "send", "done", "failed"}]
      /\ smsgid \in [Senders -> 0 .. created]
      /\ line \in [Senders -> [no : 0 .. MaxLines, end : BOOLEAN]]
      /\ msgReceiver \in {"get", "receive", "print", "remove", "done"} /\ rmsgid \in 0 .. created
      /\ some_data \in Msg!Messages \cup {Msg!NoLine}
      /\ sent \in Seq(Msg!Messages) /\ msgPrinted \in Seq(Msg!Messages)
      /\ kills \in 0 .. MaxKills
  BY DEF MsgState, Msg!TypeOK
<1>1. CASE UNCHANGED Msg!vars
  BY <1>1 DEF Msg!vars, Msg!queue, Msg!sender, Msg!receiver, MsgState, Msg!TypeOK, Msg!Messages, Holding
<1>2. ASSUME Msg!msgget
      PROVE  /\ Msg!Messages \subseteq Msg!Messages' /\ msgs' \in Seq(Msg!Messages')
             /\ sent \in Seq(Msg!Messages') /\ msgPrinted \in Seq(Msg!Messages')
             /\ 0 .. created \subseteq 0 .. created' /\ current' \in 0 .. created'
             /\ \A k \in DOMAIN msgs' : msgs'[k].queue = current'
  <2>1. Msg!Messages \subseteq Msg!Messages' /\ 0 .. created \subseteq 0 .. created'
    <3>1. created \in Nat /\ created' \in Nat /\ created <= created'
      BY <1>b, <1>2, MsggetFacts
    <3>2. 0 .. created \subseteq 0 .. created' /\ 1 .. created \subseteq 1 .. created'
      BY <3>1
    <3> QED BY <3>2 DEF Msg!Messages
  <2> QED BY <1>b, <1>2, <2>1, MsggetFacts, SeqMonotone DEF MsgState
<1>3. ASSUME NEW s \in Senders, Msg!SenderGets(s) PROVE MsgState'
  <2>1. /\ UNCHANGED <<line, msgReceiver, rmsgid, some_data, sent, msgPrinted, kills>> /\ Msg!msgget
        /\ spc[s] = "get" /\ spc' = [spc EXCEPT ![s] = "read"]
        /\ smsgid' = [smsgid EXCEPT ![s] = current']
    BY <1>3 DEF Msg!SenderGets, Msg!receiver
  <2>2. Msg!TypeOK'
    BY <1>b, <1>2, <2>1, MsggetFacts DEF Msg!TypeOK
  <2>3. \A r \in Senders : /\ spc'[r] = IF r = s THEN "read" ELSE spc[r]
                           /\ smsgid'[r] = IF r = s THEN current' ELSE smsgid[r]
    BY <1>b, <2>1
  <2> QED BY <1>2, <2>1, <2>2, <2>3, MsggetFacts DEF MsgState, Holding
<1>4. CASE Msg!ReceiverGets
  <2>1. /\ UNCHANGED <<spc, smsgid, line, some_data, sent, msgPrinted, kills>> /\ Msg!msgget
        /\ msgReceiver = "get" /\ msgReceiver' = "receive" /\ rmsgid' = current'
    BY <1>4 DEF Msg!ReceiverGets, Msg!sender
  <2>2. smsgid \in [Senders -> 0 .. created']
    BY <1>b, <1>2, <2>1
  <2>3. Msg!TypeOK'
    BY <1>b, <1>2, <2>1, <2>2, MsggetFacts DEF Msg!TypeOK
  <2> QED BY <1>2, <2>1, <2>3, MsggetFacts DEF MsgState, Holding
<1>5. ASSUME NEW s \in Senders, Msg!SenderReads(s) PROVE MsgState'
  <2>1. /\ UNCHANGED <<current, created, msgs, smsgid, msgReceiver, rmsgid, some_data, sent,
                       msgPrinted, kills>>
        /\ spc[s] = "read" /\ spc' = [spc EXCEPT ![s] = "send"]
    BY <1>5 DEF Msg!SenderReads, Msg!receiver, Msg!queue
  <2>2. PICK end \in BOOLEAN :
           /\ line[s].no + 1 = MaxLines => end
           /\ line' = [line EXCEPT ![s] = [no |-> line[s].no + 1, end |-> end]]
    BY <1>b, <1>5 DEF Msg!SenderReads
  <2>3. line[s].no \in 0 .. MaxLines - 1
    BY <1>a, <1>b, <2>1 DEF MsgState
  <2>4. line' \in [Senders -> [no : 0 .. MaxLines, end : BOOLEAN]]
    BY <1>a, <1>b, <2>2, <2>3
  <2>5. Msg!TypeOK'
    BY <1>b, <2>1, <2>4 DEF Msg!TypeOK, Msg!Messages
  <2>6. /\ \A r \in Senders : spc'[r] = IF r = s THEN "send" ELSE spc[r]
        /\ \A r \in Senders \ {s} : line'[r] = line[r]
        /\ line'[s].no = line[s].no + 1 /\ line'[s].end = end
    BY <1>b, <2>1, <2>2
  <2>7. Msg!Messages' = Msg!Messages
    BY <2>1 DEF Msg!Messages
  <2> QED BY <2>1, <2>2, <2>3, <2>5, <2>6, <2>7 DEF MsgState, Holding
<1>6. ASSUME NEW s \in Senders, Msg!SenderSends(s) PROVE MsgState'
  <2> DEFINE item == [sender |-> s, no |-> line[s].no, end |-> line[s].end, queue |-> current]
  <2>1. /\ UNCHANGED <<current, created, smsgid, line, msgReceiver, rmsgid, some_data, msgPrinted,
                       kills>>
        /\ spc[s] = "send" /\ spc' = [spc EXCEPT ![s] = Msg!AfterSend(s)] /\ smsgid[s] = current
        /\ msgs' = Append(msgs, item) /\ sent' = Append(sent, item) /\ Len(msgs) < Capacity
    BY <1>6 DEF Msg!SenderSends, Msg!Room, Msg!receiver
  <2>2. item \in Msg!Messages /\ item.queue = current /\ Msg!Messages' = Msg!Messages
    <3>1. line[s].no \in 1 .. MaxLines /\ line[s].end \in BOOLEAN /\ current \in 1 .. created
      BY <1>a, <1>b, <2>1 DEF MsgState
    <3> QED BY <2>1, <3>1 DEF Msg!Messages
  <2> HIDE DEF item
  <2>3. /\ msgs' \in Seq(Msg!Messages) /\ Len(msgs') <= Capacity /\ sent' \in Seq(Msg!Messages)
        /\ \A k \in DOMAIN msgs' : msgs'[k].queue = current
    BY <1>a, <1>b, <2>1, <2>2 DEF MsgState
  <2>4. /\ Msg!AfterSend(s) \in {"read", "done"} /\ (Msg!AfterSend(s) = "read" => ~line[s].end)
        /\ spc' \in [Senders -> {"get", "read", "send", "done", "failed"}]
        /\ \A r \in Senders : spc'[r] = IF r = s THEN Msg!AfterSend(s) ELSE spc[r]
    BY <1>b, <2>1 DEF Msg!AfterSend
  <2>5. Msg!TypeOK'
    BY <1>b, <2>1, <2>2, <2>3, <2>4 DEF Msg!TypeOK
  <2>6. current # 0
    <3>1. smsgid[s] >= 1
      BY <2>1 DEF MsgState
    <3> QED BY <2>1, <3>1
  <2> QED BY <2>1, <2>2, <2>3, <2>4, <2>5, <2>6 DEF MsgState, Holding
<1>7. ASSUME NEW s \in Senders, Msg!SenderFails(s) PROVE MsgState'
  <2>1. /\ UNCHANGED <<current, created, msgs, smsgid, line, msgReceiver, rmsgid, some_data, sent,
                       msgPrinted, kills>>
        /\ spc' = [spc EXCEPT ![s] = "failed"] /\ spc[s] = "send"
    BY <1>7 DEF Msg!SenderFails, Msg!queue, Msg!receiver
  <2>2. Msg!TypeOK' /\ Msg!Messages' = Msg!Messages
    BY <1>b, <2>1 DEF Msg!TypeOK, Msg!Messages
  <2>3. \A r \in Senders : spc'[r] = IF r = s THEN "failed" ELSE spc[r]
    BY <1>b, <2>1
  <2> QED BY <2>1, <2>2, <2>3 DEF MsgState, Holding
<1>8. CASE Msg!ReceiverReceives
  <2>1. /\ UNCHANGED <<current, created, spc, smsgid, line, rmsgid, sent, msgPrinted, kills>>
        /\ msgReceiver = "receive" /\ msgReceiver' = "print" /\ msgs # <<>> /\ rmsgid = current
        /\ some_data' = msgs[1] /\ msgs' = Msg!RemoveAt(msgs, 1)
    BY <1>8 DEF Msg!ReceiverReceives, Msg!sender, Msg!Taken
  <2>2. /\ msgs' \in Seq(Msg!Messages) /\ Len(msgs') = Len(msgs) - 1 /\ 1 \in DOMAIN msgs
        /\ \A j \in 1 .. Len(msgs) - 1 : msgs'[j] = msgs[j + 1]
    BY <1>b, <2>1, RemoveFirst, EmptySeq
  <2>3. /\ \A k \in DOMAIN msgs' : msgs'[k].queue = current
        /\ some_data' \in Msg!Messages /\ some_data'.queue = current
    <3>1. \A k \in DOMAIN msgs' : k + 1 \in DOMAIN msgs /\ msgs'[k] = msgs[k + 1]
      BY <1>b, <2>2
    <3>2. \A k \in DOMAIN msgs : msgs[k] \in Msg!Messages /\ msgs[k].queue = current
      BY <1>b DEF MsgState
    <3> QED BY <2>1, <2>2, <3>1, <3>2
  <2>4. Msg!Messages' = Msg!Messages /\ current # 0
    BY <2>1 DEF Msg!Messages, MsgState
  <2>5. Msg!TypeOK'
    BY <1>a, <1>b, <2>1, <2>2, <2>3, <2>4 DEF Msg!TypeOK
  <2> QED BY <2>1, <2>3, <2>4, <2>5 DEF MsgState, Holding
<1>9. CASE Msg!ReceiverPrints
  <2>1. /\ UNCHANGED <<current, created, msgs, spc, smsgid, line, rmsgid, some_data, sent, kills>>
        /\ msgReceiver = "print" /\ msgPrinted' = Append(msgPrinted, some_data)
        /\ msgReceiver' = IF some_data.end THEN "remove" ELSE "receive"
    BY <1>9 DEF Msg!ReceiverPrints, Msg!queue, Msg!sender
  <2>2. Msg!Messages' = Msg!Messages /\ some_data \in Msg!Messages
    BY <2>1 DEF Msg!Messages, MsgState, Holding
  <2>3. msgPrinted' \in Seq(Msg!Messages)
    BY <1>b, <2>1, <2>2
  <2>4. Msg!TypeOK'
    BY <1>b, <2>1, <2>2, <2>3 DEF Msg!TypeOK
  <2> QED BY <2>1, <2>2, <2>4 DEF MsgState, Holding
<1>10. CASE Msg!ReceiverRemoves
  <2>1. /\ UNCHANGED <<created, spc, smsgid, line, rmsgid, some_data, sent, msgPrinted, kills>>
        /\ msgReceiver' = "done" /\ current' = 0 /\ msgs' = <<>>
    BY <1>10 DEF Msg!ReceiverRemoves, Msg!sender, Msg!NoQueue
  <2>2. Msg!Messages' = Msg!Messages /\ msgs' \in Seq(Msg!Messages) /\ Len(msgs') = 0 /\ DOMAIN msgs' = {}
    BY <2>1 DEF Msg!Messages
  <2>3. Msg!TypeOK'
    BY <1>a, <1>b, <2>1, <2>2 DEF Msg!TypeOK
  <2> QED BY <2>1, <2>2, <2>3 DEF MsgState, Holding
<1>11. CASE Msg!ReceiverIsKilled
  <2>1. /\ UNCHANGED <<current, created, msgs, spc, smsgid, line, sent, msgPrinted>>
        /\ msgReceiver' = "get" /\ rmsgid' = 0 /\ some_data' = Msg!NoLine
        /\ kills' \in 0 .. MaxKills
    BY <1>a, <1>b, <1>11 DEF Msg!ReceiverIsKilled, Msg!queue, Msg!sender
  <2>2. Msg!Messages' = Msg!Messages
    BY <2>1 DEF Msg!Messages
  <2>3. Msg!TypeOK'
    BY <1>b, <2>1, <2>2 DEF Msg!TypeOK, Msg!NoLine
  <2> QED BY <2>1, <2>2, <2>3 DEF MsgState, Holding
<1> QED BY <1>1, <1>3, <1>4, <1>5, <1>6, <1>7, <1>8, <1>9, <1>10, <1>11
        DEF Msg!Next, Msg!Send, Msg!Receive

(* A step that moves no line.                                              *)
IdleStep ==
    /\ UNCHANGED <<msgs, sent, msgPrinted, kills>>
    /\ Holding' => Holding /\ some_data' = some_data
    /\ msgReceiver' = "print" <=> msgReceiver = "print"

(* What each step does to the lines of one sender.                         *)
LEMMA MsgSteps ==
    ASSUME MsgState, [Msg!Next]_(Msg!vars)
    PROVE  \/ IdleStep
           \/ \E s \in Senders : Msg!SenderSends(s)
           \/ Msg!ReceiverReceives \/ Msg!ReceiverPrints \/ Msg!ReceiverRemoves
           \/ Msg!ReceiverIsKilled
<1>1. UNCHANGED Msg!vars => IdleStep
  BY DEF Msg!vars, Msg!queue, Msg!sender, Msg!receiver, IdleStep, Holding
<1>2. ASSUME NEW s \in Senders, Msg!SenderGets(s) PROVE IdleStep
  <2>1. Msg!msgget /\ UNCHANGED <<msgReceiver, some_data, sent, msgPrinted, kills>>
    BY <1>2 DEF Msg!SenderGets, Msg!receiver
  <2> QED BY <2>1, MsggetFacts DEF IdleStep, Holding
<1>3. ASSUME NEW s \in Senders, Msg!SenderReads(s) \/ Msg!SenderFails(s) PROVE IdleStep
  BY <1>3 DEF Msg!SenderReads, Msg!SenderFails, Msg!receiver, Msg!queue, IdleStep, Holding
<1>4. ASSUME Msg!ReceiverGets PROVE IdleStep
  <2>1. /\ Msg!msgget /\ UNCHANGED <<sent, msgPrinted, kills>>
        /\ msgReceiver = "get" /\ msgReceiver' = "receive"
    BY <1>4 DEF Msg!ReceiverGets
  <2> QED BY <2>1, MsggetFacts DEF IdleStep, Holding
<1> QED BY <1>1, <1>2, <1>3, <1>4 DEF Msg!Next, Msg!Send, Msg!Receive

(* What the lines that were sent have become when one more is sent.        *)
LEMMA SendFacts ==
    ASSUME MsgState, NEW s \in Senders, Msg!SenderSends(s)
    PROVE  \E item \in Msg!Messages :
        /\ item.sender = s /\ item.end = line[s].end
        /\ msgs' = Append(msgs, item) /\ sent' = Append(sent, item)
        /\ DOMAIN sent' = 1 .. Len(sent) + 1 /\ DOMAIN sent = 1 .. Len(sent) /\ Len(sent) \in Nat
        /\ sent'[Len(sent) + 1] = item /\ \A n \in DOMAIN sent : sent'[n] = sent[n]
        /\ DOMAIN msgs' = 1 .. Len(msgs) + 1 /\ DOMAIN msgs = 1 .. Len(msgs) /\ Len(msgs) \in Nat
        /\ msgs'[Len(msgs) + 1] = item /\ \A n \in DOMAIN msgs : msgs'[n] = msgs[n]
<1> DEFINE item == [sender |-> s, no |-> line[s].no, end |-> line[s].end, queue |-> current]
<1>1. /\ msgs' = Append(msgs, item) /\ sent' = Append(sent, item)
      /\ item.sender = s /\ item.end = line[s].end
  BY DEF Msg!SenderSends
<1>2. msgs \in Seq(Msg!Messages) /\ sent \in Seq(Msg!Messages)
  BY DEF MsgState, Msg!TypeOK
<1>3. item \in Msg!Messages
  <2>1. /\ spc[s] = "send" /\ smsgid[s] = current /\ line[s] \in [no : 0 .. MaxLines, end : BOOLEAN]
        /\ created \in Nat /\ current \in {0, created}
    BY DEF Msg!SenderSends, MsgState, Msg!TypeOK
  <2>2. line[s].no \in 1 .. MaxLines /\ line[s].end \in BOOLEAN /\ current >= 1
    <3>1. line[s].no >= 1 /\ smsgid[s] >= 1
      BY <2>1 DEF MsgState
    <3>2. MaxLines \in Nat
      BY ProgramAssumptions DEF Msg!MsgAssumption
    <3> QED BY <2>1, <3>1, <3>2
  <2> QED BY <2>1, <2>2 DEF Msg!Messages
<1> HIDE DEF item
<1> QED BY <1>1, <1>2, <1>3

(* What is left of the queue when the first line is taken.                 *)
LEMMA ReceiveFacts ==
    ASSUME MsgState, Msg!ReceiverReceives
    PROVE  /\ 1 \in DOMAIN msgs /\ some_data' = msgs[1] /\ DOMAIN msgs = 1 .. Len(msgs)
           /\ Len(msgs) \in Nat
           /\ \A k \in DOMAIN msgs' : k + 1 \in DOMAIN msgs /\ msgs'[k] = msgs[k + 1] /\ 1 < k + 1
           /\ \A k \in DOMAIN msgs : k = 1 \/ (k - 1 \in DOMAIN msgs' /\ msgs'[k - 1] = msgs[k])
           /\ \A k, l \in DOMAIN msgs' : k < l => k + 1 < l + 1
<1>1. msgs \in Seq(Msg!Messages) /\ msgs # <<>>
  BY DEF MsgState, Msg!TypeOK, Msg!ReceiverReceives
<1>2. msgs' = Msg!RemoveAt(msgs, 1) /\ some_data' = msgs[1]
  BY DEF Msg!ReceiverReceives, Msg!Taken
<1>3. /\ msgs' \in Seq(Msg!Messages) /\ Len(msgs') = Len(msgs) - 1
      /\ \A j \in 1 .. Len(msgs) - 1 : msgs'[j] = msgs[j + 1]
  BY <1>1, <1>2, RemoveFirst
<1>4. /\ Len(msgs) \in Nat \ {0} /\ DOMAIN msgs = 1 .. Len(msgs)
      /\ DOMAIN msgs' = 1 .. Len(msgs) - 1
  BY <1>1, <1>3, EmptySeq
<1>5. \A k \in DOMAIN msgs' : k + 1 \in DOMAIN msgs /\ msgs'[k] = msgs[k + 1] /\ 1 < k + 1
  BY <1>3, <1>4
<1>6. \A k \in DOMAIN msgs : k = 1 \/ (k - 1 \in DOMAIN msgs' /\ msgs'[k - 1] = msgs[k])
  BY <1>3, <1>4
<1>7. \A k, l \in DOMAIN msgs' : k < l => k + 1 < l + 1
  BY <1>4
<1>8. 1 \in DOMAIN msgs /\ DOMAIN msgs = 1 .. Len(msgs) /\ Len(msgs) \in Nat
  BY <1>4
<1> QED BY <1>2, <1>5, <1>6, <1>7, <1>8

(* One more line is sent.                                                  *)
LEMMA OrderedSend ==
    ASSUME NEW S, NEW ss \in Seq(S), NEW ms \in Seq(S), NEW x \in S, NEW ps, NEW r, NEW d,
           Ordered(ss, ms, ps, r, d)
    PROVE  Ordered(Append(ss, x), Append(ms, x), ps, r, d)
<1> DEFINE ss1 == Append(ss, x)
           ms1 == Append(ms, x)
<1>1. /\ DOMAIN ss1 = 1 .. Len(ss) + 1 /\ DOMAIN ss = 1 .. Len(ss) /\ Len(ss) \in Nat
      /\ ss1[Len(ss) + 1] = x /\ \A n \in DOMAIN ss : ss1[n] = ss[n]
      /\ DOMAIN ms1 = 1 .. Len(ms) + 1 /\ DOMAIN ms = 1 .. Len(ms) /\ Len(ms) \in Nat
      /\ ms1[Len(ms) + 1] = x /\ \A n \in DOMAIN ms : ms1[n] = ms[n]
  OBVIOUS
<1> HIDE DEF ss1, ms1
<1>2. /\ \A n \in DOMAIN ss : n \in DOMAIN ss1 /\ n < Len(ss) + 1
      /\ Len(ss) + 1 \in DOMAIN ss1
      /\ \A k \in DOMAIN ms1 : k \in DOMAIN ms \/ (k = Len(ms) + 1 /\ ms1[k] = x)
      /\ \A k, l \in DOMAIN ms1 : k < l => k \in DOMAIN ms
  BY <1>1
<1>3. /\ \A y, z : Before(ss, y, z) => Before(ss1, y, z)
      /\ \A y : Among(ss, y) => Among(ss1, y) /\ Before(ss1, y, x)
      /\ Among(ss1, x)
  BY <1>1, <1>2 DEF Before, Among
<1>4. \A k, l \in DOMAIN ms1 : k < l => Before(ss1, ms1[k], ms1[l])
  <2> SUFFICES ASSUME NEW k \in DOMAIN ms1, NEW l \in DOMAIN ms1, k < l
               PROVE  Before(ss1, ms1[k], ms1[l])
    OBVIOUS
  <2>1. k \in DOMAIN ms /\ ms1[k] = ms[k] /\ Among(ss, ms[k])
    BY <1>1, <1>2 DEF Ordered
  <2>2. CASE l \in DOMAIN ms
    <3>1. ms1[l] = ms[l] /\ Before(ss, ms[k], ms[l])
      BY <1>1, <2>1, <2>2 DEF Ordered
    <3> QED BY <1>3, <2>1, <3>1
  <2>3. CASE l \notin DOMAIN ms
    BY <1>2, <1>3, <2>1, <2>3
  <2> QED BY <2>2, <2>3
<1>5. ASSUME NEW y, Among(ss, y), \A l \in DOMAIN ms : Before(ss, y, ms[l])
      PROVE  \A l \in DOMAIN ms1 : Before(ss1, y, ms1[l])
  BY <1>1, <1>2, <1>3, <1>5
<1>6. \A k \in DOMAIN ms1 : Among(ss1, ms1[k])
  BY <1>1, <1>2, <1>3 DEF Ordered
<1>7. \A k \in DOMAIN ps, l \in DOMAIN ms1 : Before(ss1, ps[k], ms1[l])
  BY <1>5 DEF Ordered
<1>8. r \in {"print", "remove"} => Among(ss1, d) /\ \A l \in DOMAIN ms1 : Before(ss1, d, ms1[l])
  BY <1>3, <1>5 DEF Ordered
<1>9. Ordered(ss1, ms1, ps, r, d)
  BY <1>3, <1>4, <1>6, <1>7, <1>8 DEF Ordered
<1> QED BY <1>9 DEF ss1, ms1

(* The first line in the queue is taken.                                   *)
LEMMA OrderedReceive ==
    ASSUME NEW ss, NEW ms, NEW ms1, NEW ps, NEW r, NEW d, Ordered(ss, ms, ps, r, d),
           1 \in DOMAIN ms,
           \A k \in DOMAIN ms1 : k + 1 \in DOMAIN ms /\ ms1[k] = ms[k + 1] /\ 1 < k + 1,
           \A k, l \in DOMAIN ms1 : k < l => k + 1 < l + 1
    PROVE  Ordered(ss, ms1, ps, "print", ms[1])
BY DEF Ordered

(* A line is printed.                                                      *)
LEMMA OrderedPrint ==
    ASSUME NEW S, NEW ps \in Seq(S), NEW d \in S, NEW ss, NEW ms, Ordered(ss, ms, ps, "print", d),
           NEW r \in {"receive", "remove"}
    PROVE  Ordered(ss, ms, Append(ps, d), r, d)
<1> DEFINE ps1 == Append(ps, d)
<1>1. /\ DOMAIN ps1 = 1 .. Len(ps) + 1 /\ DOMAIN ps = 1 .. Len(ps) /\ Len(ps) \in Nat
      /\ ps1[Len(ps) + 1] = d /\ \A n \in DOMAIN ps : ps1[n] = ps[n]
  OBVIOUS
<1> HIDE DEF ps1
<1>2. /\ \A k \in DOMAIN ps1 : (k \in DOMAIN ps /\ ps1[k] = ps[k]) \/ (k = Len(ps) + 1 /\ ps1[k] = d)
      /\ \A k, l \in DOMAIN ps1 : k < l => k \in DOMAIN ps
  BY <1>1
<1>3. Ordered(ss, ms, ps1, r, d)
  BY <1>2 DEF Ordered
<1> QED BY <1>3 DEF ps1

(* Lines stay in order on their way.                                       *)
LEMMA MsgOrderStep ==
    ASSUME MsgState, MsgOrder, [Msg!Next]_(Msg!vars)
    PROVE  MsgOrder'
<1>1. /\ sent \in Seq(Msg!Messages) /\ msgs \in Seq(Msg!Messages)
      /\ msgPrinted \in Seq(Msg!Messages)
  BY DEF MsgState, Msg!TypeOK
<1>2. CASE IdleStep
  BY <1>2 DEF IdleStep, MsgOrder, Ordered, Holding
<1>3. CASE \E s \in Senders : Msg!SenderSends(s)
  <2>1. PICK s \in Senders : Msg!SenderSends(s)
    BY <1>3
  <2>2. UNCHANGED <<msgPrinted, msgReceiver, some_data>>
    BY <2>1 DEF Msg!SenderSends, Msg!receiver
  <2>3. PICK item \in Msg!Messages :
           msgs' = Append(msgs, item) /\ sent' = Append(sent, item)
    BY <2>1, SendFacts
  <2>4. Ordered(sent', msgs', msgPrinted', msgReceiver', some_data')
    BY <1>1, <2>2, <2>3, OrderedSend DEF MsgOrder
  <2> QED BY <2>4 DEF MsgOrder
<1>4. CASE Msg!ReceiverReceives
  <2>1. UNCHANGED <<sent, msgPrinted>> /\ msgReceiver' = "print"
    BY <1>4 DEF Msg!ReceiverReceives
  <2>2. Ordered(sent, msgs', msgPrinted, "print", msgs[1]) /\ some_data' = msgs[1]
    BY <1>4, ReceiveFacts, OrderedReceive DEF MsgOrder
  <2> QED BY <2>1, <2>2 DEF MsgOrder
<1>5. CASE Msg!ReceiverPrints
  <2>1. /\ UNCHANGED <<sent, msgs, some_data>> /\ msgReceiver = "print"
        /\ msgPrinted' = Append(msgPrinted, some_data) /\ msgReceiver' \in {"receive", "remove"}
        /\ some_data \in Msg!Messages
    BY <1>5 DEF Msg!ReceiverPrints, Msg!queue, MsgState, Holding
  <2>2. Ordered(sent, msgs, Append(msgPrinted, some_data), msgReceiver', some_data)
    BY <1>1, <2>1, OrderedPrint DEF MsgOrder
  <2> QED BY <2>1, <2>2 DEF MsgOrder
<1>6. CASE Msg!ReceiverRemoves
  <2>1. UNCHANGED <<sent, msgPrinted>> /\ msgReceiver' = "done" /\ DOMAIN msgs' = {}
    BY <1>6 DEF Msg!ReceiverRemoves
  <2> QED BY <2>1 DEF MsgOrder, Ordered
<1>7. CASE Msg!ReceiverIsKilled
  <2>1. UNCHANGED <<sent, msgs, msgPrinted>> /\ msgReceiver' = "get"
    BY <1>7 DEF Msg!ReceiverIsKilled, Msg!queue
  <2> QED BY <2>1 DEF MsgOrder, Ordered
<1> QED BY <1>2, <1>3, <1>4, <1>5, <1>6, <1>7, MsgSteps

(* Who has ended had a reason to.                                          *)
LEMMA MsgEndsStep ==
    ASSUME MsgState, MsgOrder, MsgEnds, [Msg!Next]_(Msg!vars)
    PROVE  MsgEnds'
<1>1. /\ spc \in [Senders -> {"get", "read", "send", "done", "failed"}]
      /\ created \in Nat /\ current \in {0, created} /\ smsgid \in [Senders -> 0 .. created]
      /\ sent \in Seq(Msg!Messages)
  BY DEF MsgState, Msg!TypeOK
<1>2. \A n \in DOMAIN sent : sent[n].sender \in Senders
  <2>1. \A n \in DOMAIN sent : sent[n] \in Msg!Messages
    BY <1>1
  <2> QED BY <2>1 DEF Msg!Messages
<1>3. ASSUME sent' = sent, QueueGone' => QueueGone,
             \A s \in Senders : /\ spc[s] = "done" => spc'[s] = "done"
                                /\ spc'[s] = "failed" => spc[s] = "failed"
      PROVE  MsgEnds'
  BY <1>2, <1>3 DEF MsgEnds, Msg!RefusedOnlyAfterEnd
<1>4. CASE UNCHANGED Msg!vars
  BY <1>3, <1>4 DEF Msg!vars, Msg!queue, Msg!sender, QueueGone
<1>5. ASSUME Msg!msgget PROVE QueueGone' => QueueGone
  BY <1>1, <1>5, MsggetFacts DEF QueueGone
<1>6. ASSUME NEW s \in Senders, Msg!SenderGets(s) \/ Msg!SenderReads(s) PROVE MsgEnds'
  <2>1. sent' = sent /\ spc[s] \in {"get", "read"} /\ \E to \in {"read", "send"} : spc' = [spc EXCEPT ![s] = to]
    BY <1>6 DEF Msg!SenderGets, Msg!SenderReads
  <2>2. QueueGone' => QueueGone
    BY <1>5, <1>6 DEF Msg!SenderGets, Msg!SenderReads, Msg!queue, QueueGone
  <2> QED BY <1>1, <1>3, <2>1, <2>2
<1>7. CASE Msg!ReceiverGets \/ Msg!ReceiverReceives \/ Msg!ReceiverPrints \/ Msg!ReceiverIsKilled
  <2>1. sent' = sent /\ spc' = spc
    BY <1>7 DEF Msg!ReceiverGets, Msg!ReceiverReceives, Msg!ReceiverPrints, Msg!ReceiverIsKilled,
                Msg!sender
  <2>2. QueueGone' => QueueGone
    BY <1>5, <1>7 DEF Msg!ReceiverGets, Msg!ReceiverReceives, Msg!ReceiverPrints,
                      Msg!ReceiverIsKilled, Msg!queue, QueueGone
  <2> QED BY <1>3, <2>1, <2>2
<1>8. CASE Msg!ReceiverRemoves
  <2>1. sent' = sent /\ spc' = spc /\ msgReceiver = "remove"
    BY <1>8 DEF Msg!ReceiverRemoves, Msg!sender
  <2>2. \E n \in DOMAIN sent : sent[n].end
    <3>1. Among(sent, some_data) /\ some_data.end
      BY <2>1 DEF MsgOrder, Ordered, MsgState
    <3> QED BY <3>1 DEF Among
  <2> QED BY <2>1, <2>2 DEF MsgEnds, Msg!RefusedOnlyAfterEnd
<1>9. ASSUME NEW s \in Senders, Msg!SenderFails(s) PROVE MsgEnds'
  <2>1. /\ UNCHANGED <<sent, created, current>> /\ spc[s] = "send" /\ smsgid[s] # current
        /\ \A r \in Senders : spc'[r] = IF r = s THEN "failed" ELSE spc[r]
    BY <1>1, <1>9 DEF Msg!SenderFails, Msg!queue
  <2>2. QueueGone
    <3>1. smsgid[s] >= 1
      BY <2>1 DEF MsgState
    <3> QED BY <1>1, <2>1, <3>1 DEF QueueGone
  <2>3. \E n \in DOMAIN sent : sent[n].sender # s /\ sent[n].end
    BY <2>1, <2>2 DEF MsgEnds
  <2> QED BY <1>2, <2>1, <2>2, <2>3 DEF MsgEnds, Msg!RefusedOnlyAfterEnd
<1>10. ASSUME NEW s \in Senders, Msg!SenderSends(s) PROVE MsgEnds'
  <2>1. /\ UNCHANGED <<created, current>> /\ spc[s] = "send"
        /\ \A r \in Senders : spc'[r] = IF r = s THEN Msg!AfterSend(s) ELSE spc[r]
        /\ Msg!AfterSend(s) = IF line[s].end THEN "done" ELSE "read"
    BY <1>1, <1>10 DEF Msg!SenderSends, Msg!AfterSend
  <2>2. PICK item \in Msg!Messages :
        /\ item.sender = s /\ item.end = line[s].end
        /\ DOMAIN sent' = 1 .. Len(sent) + 1 /\ DOMAIN sent = 1 .. Len(sent) /\ Len(sent) \in Nat
        /\ sent'[Len(sent) + 1] = item /\ \A n \in DOMAIN sent : sent'[n] = sent[n]
    BY <1>10, SendFacts
  <2>3. /\ \A n \in DOMAIN sent : n \in DOMAIN sent'
        /\ \A n \in DOMAIN sent' : n \in DOMAIN sent \/ sent'[n] = item
    BY <2>2
  <2>4. \A n \in DOMAIN sent' : sent'[n].end => spc'[sent'[n].sender] = "done"
    <3>1. \A n \in DOMAIN sent : sent[n].sender = s => ~sent[n].end
      BY <2>1 DEF MsgEnds
    <3> QED BY <1>2, <2>1, <2>2, <2>3, <3>1 DEF MsgEnds
  <2>5. QueueGone' => \E n \in DOMAIN sent' : sent'[n].end
    BY <2>1, <2>2, <2>3 DEF MsgEnds, QueueGone
  <2>6. Msg!RefusedOnlyAfterEnd'
    <3>1. Msg!RefusedOnlyAfterEnd
      BY DEF MsgEnds
    <3> QED BY <2>1, <2>2, <2>3, <3>1 DEF Msg!RefusedOnlyAfterEnd
  <2> QED BY <2>4, <2>5, <2>6 DEF MsgEnds
<1> QED BY <1>4, <1>6, <1>7, <1>8, <1>9, <1>10 DEF Msg!Next, Msg!Send, Msg!Receive

(* The lines that are lost, now and after a step.                          *)
LEMMA LostFacts ==
    /\ \A x : x \in Msg!Lost <=>
          /\ Among(sent, x) /\ ~Among(msgPrinted, x) /\ ~Among(msgs, x)
          /\ ~(msgReceiver = "print" /\ x = some_data)
    /\ \A x : x \in Msg!Lost' <=>
          /\ Among(sent', x) /\ ~Among(msgPrinted', x) /\ ~Among(msgs', x)
          /\ ~(msgReceiver' = "print" /\ x = some_data')
BY DEF Msg!Lost, Msg!OnTheWay, Msg!ToSet, Among

(* A line that is lost was removed with the queue.                         *)
LEMMA MsgLossStep ==
    ASSUME MsgState, MsgOrder, MsgLoss, [Msg!Next]_(Msg!vars)
    PROVE  MsgLoss'
<1>1. PICK crashed \in SUBSET Msg!Lost :
         /\ IsFiniteSet(crashed) /\ Cardinality(crashed) <= kills
         /\ \A item \in Msg!Lost \ crashed : Msg!Behind(item)
  BY DEF MsgLoss
<1>2. Cardinality(crashed) \in Nat /\ kills \in Nat
  BY <1>1, FS_CardinalityType DEF MsgState, Msg!TypeOK
(* What is lost now was lost, or is behind a line "end", and what was      *)
(* behind one still is.                                                    *)
<1>3. ASSUME kills' = kills, \A m \in Msg!Lost : Msg!Behind(m) => Msg!Behind(m)',
             \A m \in Msg!Lost' : m \in Msg!Lost \/ Msg!Behind(m)'
      PROVE  MsgLoss'
  <2> DEFINE left == crashed \cap Msg!Lost'
  <2>1. IsFiniteSet(left) /\ Cardinality(left) <= Cardinality(crashed) /\ Cardinality(left) \in Nat
    BY <1>1, FS_Subset, FS_CardinalityType
  <2>2. Cardinality(left) <= kills'
    BY <1>1, <1>2, <1>3, <2>1
  <2>3. \A m \in Msg!Lost' \ left : Msg!Behind(m)'
    BY <1>1, <1>3
  <2>4. left \in SUBSET Msg!Lost'
    OBVIOUS
  <2> QED BY <2>1, <2>2, <2>3, <2>4 DEF MsgLoss
<1>4. sent' = sent => \A m : Msg!Behind(m) => Msg!Behind(m)'
  BY DEF Msg!Behind
<1>5. CASE IdleStep
  <2>1. \A m : m \in Msg!Lost' => m \in Msg!Lost
    BY <1>5, LostFacts DEF IdleStep, Holding
  <2> QED BY <1>3, <1>4, <1>5, <2>1 DEF IdleStep
<1>6. CASE \E s \in Senders : Msg!SenderSends(s)
  <2>1. PICK s \in Senders : Msg!SenderSends(s)
    BY <1>6
  <2>2. UNCHANGED <<msgPrinted, msgReceiver, some_data, kills>>
    BY <2>1 DEF Msg!SenderSends, Msg!receiver
  <2>3. PICK item \in Msg!Messages :
        /\ DOMAIN sent' = 1 .. Len(sent) + 1 /\ DOMAIN sent = 1 .. Len(sent) /\ Len(sent) \in Nat
        /\ sent'[Len(sent) + 1] = item /\ \A n \in DOMAIN sent : sent'[n] = sent[n]
        /\ DOMAIN msgs' = 1 .. Len(msgs) + 1 /\ DOMAIN msgs = 1 .. Len(msgs) /\ Len(msgs) \in Nat
        /\ msgs'[Len(msgs) + 1] = item /\ \A n \in DOMAIN msgs : msgs'[n] = msgs[n]
    BY <2>1, SendFacts
  <2>4. /\ \A n \in DOMAIN sent : n \in DOMAIN sent'
        /\ \A n \in DOMAIN sent' : n \in DOMAIN sent \/ sent'[n] = item
        /\ \A n \in DOMAIN msgs : n \in DOMAIN msgs'
        /\ Len(msgs) + 1 \in DOMAIN msgs'
    BY <2>3
  <2>5. /\ \A x : Among(sent', x) => Among(sent, x) \/ x = item
        /\ \A x : Among(msgs, x) => Among(msgs', x)
        /\ Among(msgs', item)
    BY <2>3, <2>4 DEF Among
  <2>6. \A m : m \in Msg!Lost' => m \in Msg!Lost
    BY <2>2, <2>5, LostFacts
  <2>7. \A m : Msg!Behind(m) => Msg!Behind(m)'
    BY <2>3, <2>4 DEF Msg!Behind
  <2> QED BY <1>3, <2>2, <2>6, <2>7
<1>7. CASE Msg!ReceiverReceives
  <2>1. UNCHANGED <<sent, msgPrinted, kills>> /\ msgReceiver' = "print"
    BY <1>7 DEF Msg!ReceiverReceives
  <2>2. \A x : Among(msgs, x) => Among(msgs', x) \/ x = some_data'
    BY <1>7, ReceiveFacts DEF Among
  <2>3. \A m : m \in Msg!Lost' => m \in Msg!Lost
    <3>1. msgReceiver = "receive"
      BY <1>7 DEF Msg!ReceiverReceives
    <3> QED BY <2>1, <2>2, <3>1, LostFacts
  <2> QED BY <1>3, <1>4, <2>1, <2>3
<1>8. CASE Msg!ReceiverPrints
  <2>1. /\ UNCHANGED <<sent, msgs, some_data, kills>> /\ msgReceiver = "print"
        /\ msgPrinted' = Append(msgPrinted, some_data) /\ msgReceiver' # "print"
        /\ some_data \in Msg!Messages /\ msgPrinted \in Seq(Msg!Messages)
    BY <1>8 DEF Msg!ReceiverPrints, Msg!queue, MsgState, Holding, Msg!TypeOK
  <2>2. /\ DOMAIN msgPrinted' = 1 .. Len(msgPrinted) + 1 /\ DOMAIN msgPrinted = 1 .. Len(msgPrinted)
        /\ Len(msgPrinted) \in Nat /\ msgPrinted'[Len(msgPrinted) + 1] = some_data
        /\ \A n \in DOMAIN msgPrinted : msgPrinted'[n] = msgPrinted[n]
    BY <2>1
  <2>3. /\ \A n \in DOMAIN msgPrinted : n \in DOMAIN msgPrinted'
        /\ Len(msgPrinted) + 1 \in DOMAIN msgPrinted'
    BY <2>2
  <2>4. (\A x : Among(msgPrinted, x) => Among(msgPrinted', x)) /\ Among(msgPrinted', some_data)
    BY <2>2, <2>3 DEF Among
  <2>5. \A m : m \in Msg!Lost' => m \in Msg!Lost
    BY <2>1, <2>4, LostFacts
  <2> QED BY <1>3, <1>4, <2>1, <2>5
<1>9. CASE Msg!ReceiverRemoves
  <2>1. UNCHANGED <<sent, msgPrinted, kills>> /\ msgReceiver = "remove" /\ msgReceiver' = "done"
    BY <1>9 DEF Msg!ReceiverRemoves
  <2>2. ASSUME NEW x, Among(msgs, x) PROVE Msg!Behind(x)'
    <3>1. PICK k \in DOMAIN msgs : msgs[k] = x
      BY <2>2 DEF Among
    <3>2. Before(sent, some_data, x) /\ some_data.end /\ some_data.queue = x.queue
      BY <2>1, <3>1 DEF MsgOrder, Ordered, MsgState, Holding
    <3> QED BY <2>1, <3>2 DEF Before, Msg!Behind
  <2>3. \A m \in Msg!Lost' : m \in Msg!Lost \/ Msg!Behind(m)'
    BY <2>1, <2>2, LostFacts
  <2> QED BY <1>3, <1>4, <2>1, <2>3
(* The line in the hands of a killed receiver is one more that is lost.    *)
<1>10. CASE Msg!ReceiverIsKilled
  <2> DEFINE more == (crashed \cup {some_data}) \cap Msg!Lost'
  <2>1. UNCHANGED <<sent, msgs, msgPrinted>> /\ kills' = kills + 1
    BY <1>10 DEF Msg!ReceiverIsKilled, Msg!queue
  <2>2. \A m : m \in Msg!Lost' => m \in Msg!Lost \/ m = some_data
    BY <2>1, LostFacts
  <2>3. IsFiniteSet(more) /\ Cardinality(more) <= kills'
    <3>1. /\ IsFiniteSet(crashed \cup {some_data})
          /\ Cardinality(crashed \cup {some_data}) \in {Cardinality(crashed), Cardinality(crashed) + 1}
      BY <1>1, <1>2, FS_AddElement
    <3>2. IsFiniteSet(more) /\ Cardinality(more) <= Cardinality(crashed \cup {some_data})
      BY <3>1, FS_Subset
    <3>3. Cardinality(more) \in Nat
      BY <3>2, FS_CardinalityType
    <3> QED BY <1>1, <1>2, <2>1, <3>1, <3>2, <3>3
  <2>4. \A m \in Msg!Lost' \ more : Msg!Behind(m)'
    BY <1>1, <1>4, <2>1, <2>2
  <2>5. more \in SUBSET Msg!Lost'
    OBVIOUS
  <2> QED BY <2>3, <2>4, <2>5 DEF MsgLoss
<1> QED BY <1>5, <1>6, <1>7, <1>8, <1>9, <1>10, MsgSteps

(* The promises of the message queue.                                      *)
LEMMA MsgProperties ==
    ASSUME MsgState, MsgOrder, MsgEnds, MsgLoss
    PROVE  Msg!TypeOK /\ Msg!InOrder /\ Msg!LossExplained /\ Msg!RefusedOnlyAfterEnd
<1>1. Msg!InOrder
  BY DEF MsgOrder, Ordered, Before, Msg!InOrder
<1>2. Msg!LossExplained
  <2>1. \A S : Msg!Cardinality(S) = Cardinality(S)
    BY DEF Msg!Cardinality, Cardinality
  <2> QED BY <2>1 DEF MsgLoss, Msg!LossExplained
<1> QED BY <1>1, <1>2 DEF MsgState, MsgEnds

-----------------------------------------------------------------------------
(* The semaphore, for any finite set of instances and any number of starts:*)
(* the queue holds the sleepers and nobody else, none of them sleeps beside*)
(* a free unit, units are bounded by starts, and with one instance at a    *)
(* time the semaphore implements a lock.                                   *)

(* The assumption of SemPV on its constants.                               *)
LEMMA SemConstants == IsFiniteSet(Instances) /\ MaxStarts \in Nat
BY ProgramAssumptions DEF Sem!SemAssumption, Sem!IsFiniteSet, IsFiniteSet

(* Cardinality is that of SemPV.                                           *)
LEMMA SemCardinality == \A S : Sem!Cardinality(S) = Cardinality(S)
BY DEF Sem!Cardinality, Cardinality, Sem!IsFiniteSet, IsFiniteSet

(* UnitsBounded, with this Cardinality.                                    *)
SemBounded == semval + Cardinality(Sem!holding) <= starts

(* Only a running instance has processes.                                  *)
SemRunHasProcs == \A p \in Sem!Procs : ipc[p[1]] # "run" => sempc[p] = "off"

(* With one instance at a time there is one unit at most: in the semaphore *)
(* or in one process.                                                      *)
SemSingle ==
    single =>
        /\ \A m, n \in Instances : ipc[m] # "new" /\ ipc[n] # "new" => m = n
        /\ semval <= 1
        /\ semval > 0 => Sem!holding = {}
        /\ \A p, q \in Sem!holding : p = q

SemInv ==
    /\ Sem!TypeOK /\ single \in BOOLEAN /\ mayDie \in BOOLEAN
    /\ Sem!NoneSleepsInVain /\ SemBounded /\ SemRunHasProcs /\ SemSingle

SemStates == {"off", "get", "sleep", "first", "second", "died", "diedholding"}

-----------------------------------------------------------------------------
(* Sequences without their k-th element.                                   *)
LEMMA SemWithoutOne ==
    ASSUME NEW S, NEW s \in Seq(S), NEW k \in DOMAIN s,
           \A h, j \in DOMAIN s : s[h] = s[j] => h = j
    PROVE  /\ Sem!RemoveAt(s, k) \in Seq(S)
           /\ {Sem!RemoveAt(s, k)[j] : j \in DOMAIN Sem!RemoveAt(s, k)}
                 = {s[j] : j \in DOMAIN s} \ {s[k]}
           /\ \A h, j \in DOMAIN Sem!RemoveAt(s, k) :
                 Sem!RemoveAt(s, k)[h] = Sem!RemoveAt(s, k)[j] => h = j
<1> DEFINE r == Sem!RemoveAt(s, k)
<1>1. /\ r \in Seq(S) /\ Len(r) = Len(s) - 1
      /\ \A j \in 1 .. Len(r) : r[j] = IF j < k THEN s[j] ELSE s[j + 1]
  <2> DEFINE s1 == SubSeq(s, 1, k - 1)
             s2 == SubSeq(s, k + 1, Len(s))
  <2>1. Len(s) \in Nat /\ k \in 1 .. Len(s) /\ \A j \in 1 .. Len(s) : s[j] \in S
    OBVIOUS
  <2>2. s1 \in Seq(S) /\ Len(s1) = k - 1 /\ \A j \in 1 .. k - 1 : s1[j] = s[j]
    BY <2>1
  <2>3. s2 \in Seq(S) /\ Len(s2) = Len(s) - k /\ \A j \in 1 .. Len(s) - k : s2[j] = s[k + j]
    BY <2>1
  <2>4. r = s1 \o s2
    BY DEF Sem!RemoveAt
  <2> HIDE DEF r, s1, s2
  <2>5. r \in Seq(S) /\ Len(r) = Len(s) - 1
    BY <2>1, <2>2, <2>3, <2>4
  <2>6. ASSUME NEW j \in 1 .. Len(r) PROVE r[j] = IF j < k THEN s[j] ELSE s[j + 1]
    <3>1. j \in 1 .. Len(s1) + Len(s2)
      BY <2>1, <2>2, <2>3, <2>5
    <3>2. r[j] = IF j <= Len(s1) THEN s1[j] ELSE s2[j - Len(s1)]
      <4>1. \A n \in 1 .. Len(s1) + Len(s2) :
               (s1 \o s2)[n] = IF n <= Len(s1) THEN s1[n] ELSE s2[n - Len(s1)]
        <5>1. s1 \in Seq(S) /\ s2 \in Seq(S)
          BY <2>2, <2>3
        <5> QED BY <5>1, ConcatProperties, Zenon
      <4> QED BY <2>4, <3>1, <4>1
    <3>3. CASE j < k
      BY <2>1, <2>2, <3>2, <3>3
    <3>4. CASE j >= k
      <4>1. j - (k - 1) \in 1 .. Len(s) - k
        BY <2>1, <2>5, <3>4
      <4>2. s2[j - (k - 1)] = s[k + (j - (k - 1))]
        BY <2>3, <4>1
      <4>3. k + (j - (k - 1)) = j + 1 /\ ~(j <= k - 1) /\ ~(j < k)
        BY <2>1, <3>4
      <4> QED BY <2>2, <3>2, <4>2, <4>3
    <3> QED BY <2>1, <3>3, <3>4
  <2> QED BY <2>5, <2>6
<1>2. DOMAIN r = 1 .. Len(s) - 1 /\ DOMAIN s = 1 .. Len(s) /\ Len(s) \in Nat
  BY <1>1
<1> HIDE DEF r
<1>3. ASSUME NEW h \in DOMAIN r, NEW j \in DOMAIN r, r[h] = r[j] PROVE h = j
  <2> DEFINE from(n) == IF n < k THEN n ELSE n + 1
  <2>1. /\ h \in 1 .. Len(s) - 1 /\ j \in 1 .. Len(s) - 1 /\ k \in 1 .. Len(s)
        /\ r[h] = s[from(h)] /\ r[j] = s[from(j)]
    BY <1>1, <1>2
  <2>2. from(h) \in DOMAIN s /\ from(j) \in DOMAIN s
    BY <1>2, <2>1
  <2>3. from(h) = from(j)
    BY <1>3, <2>1, <2>2
  <2> QED BY <1>2, <2>1, <2>3
<1>4. ASSUME NEW j \in DOMAIN r PROVE r[j] \in {s[h] : h \in DOMAIN s} \ {s[k]}
  BY <1>1, <1>2
<1>5. ASSUME NEW j \in DOMAIN s, s[j] # s[k] PROVE \E h \in DOMAIN r : r[h] = s[j]
  <2>1. CASE j < k
    BY <1>1, <1>2, <2>1
  <2>2. CASE j > k
    <3>1. j - 1 \in DOMAIN r /\ r[j - 1] = s[j]
      BY <1>1, <1>2, <2>2
    <3> QED BY <3>1
  <2> QED BY <1>2, <1>5, <2>1, <2>2
<1>6. {r[j] : j \in DOMAIN r} = {s[j] : j \in DOMAIN s} \ {s[k]}
  BY <1>4, <1>5
<1> QED BY <1>1, <1>3, <1>6 DEF r

(* There are finitely many processes.                                      *)
LEMMA SemProcsFinite ==
    IsFiniteSet(Sem!Procs)
<1>1. IsFiniteSet({"parent", "child"})
  <2>1. IsFiniteSet({"parent"})
    BY FS_Singleton
  <2>2. IsFiniteSet({"parent"} \cup {"child"})
    BY <2>1, FS_AddElement
  <2> QED BY <2>2
<1> QED BY <1>1, SemConstants, FS_Product DEF Sem!Procs

(* So finitely many hold a unit.                                           *)
LEMMA SemHoldingFinite ==
    IsFiniteSet(Sem!holding) /\ Cardinality(Sem!holding) \in Nat
BY SemProcsFinite, FS_Subset, FS_CardinalityType DEF Sem!holding

(* There is no semaphore, and nobody holds anything.                       *)
LEMMA SemInit ==
    ASSUME Sem!Init
    PROVE  SemInv
<1>1. Sem!holding = {} /\ Cardinality(Sem!holding) = 0
  BY FS_EmptySet DEF Sem!Init, Sem!holding
<1> QED
  BY <1>1, SemConstants DEF Sem!Init, SemInv, Sem!TypeOK, Sem!NoneSleepsInVain, SemBounded,
                            SemRunHasProcs, SemSingle, Sem!Procs
-----------------------------------------------------------------------------
(* What the queue is, for given states pcs of the processes.               *)
SemQueueHolds(s, pcs) ==
    /\ s \in Seq(Sem!Procs)
    /\ {s[j] : j \in DOMAIN s} = {p \in Sem!Procs : pcs[p] = "sleep"}
    /\ \A j, k \in DOMAIN s : s[j] = s[k] => j = k

(* A unit goes to the semaphore, or to a process that slept.               *)
LEMMA SemGiveEffect ==
    ASSUME NEW v \in Nat, NEW pcs \in [Sem!Procs -> SemStates],
           SemQueueHolds(semQueue, pcs), Sem!Give(v, pcs)
    PROVE  /\ sempc' \in [Sem!Procs -> SemStates] /\ SemQueueHolds(semQueue', sempc')
           /\ \/ semQueue = <<>> /\ semQueue' = <<>> /\ semval' = v + 1 /\ sempc' = pcs
              \/ /\ semQueue # <<>> /\ semval' = v
                 /\ \E q \in Sem!Procs : pcs[q] = "sleep" /\ sempc' = [pcs EXCEPT ![q] = "first"]
<1>1. CASE semQueue = <<>>
  BY <1>1 DEF Sem!Give, SemQueueHolds
<1>2. CASE semQueue # <<>>
  <2> DEFINE q == Head(semQueue)
  <2>1. /\ semval' = v /\ semQueue' = Tail(semQueue)
        /\ sempc' = [pcs EXCEPT ![q] = "first"]
    BY <1>2 DEF Sem!Give
  <2>2. /\ Len(semQueue) \in Nat \ {0} /\ DOMAIN semQueue = 1 .. Len(semQueue)
        /\ q = semQueue[1] /\ q \in Sem!Procs /\ 1 \in DOMAIN semQueue
    BY <1>2 DEF SemQueueHolds
  <2>3. pcs[q] = "sleep"
    BY <2>2 DEF SemQueueHolds
  <2>4. /\ semQueue' \in Seq(Sem!Procs) /\ DOMAIN semQueue' = 1 .. Len(semQueue) - 1
        /\ \A j \in 1 .. Len(semQueue) - 1 : semQueue'[j] = semQueue[j + 1]
    BY <1>2, <2>1, <2>2, HeadTailProperties DEF SemQueueHolds
  <2> HIDE DEF q
  <2>5. \A j, k \in DOMAIN semQueue' : semQueue'[j] = semQueue'[k] => j = k
    <3> TAKE j, k \in DOMAIN semQueue'
    <3>1. semQueue'[j] = semQueue[j + 1] /\ semQueue'[k] = semQueue[k + 1]
      BY <2>4
    <3>2. j \in Nat /\ k \in Nat /\ j + 1 \in DOMAIN semQueue /\ k + 1 \in DOMAIN semQueue
      BY <2>2, <2>4
    <3>3. semQueue[j + 1] = semQueue[k + 1] => j + 1 = k + 1
      BY <3>2 DEF SemQueueHolds
    <3> QED BY <3>1, <3>2, <3>3
  <2>6. {semQueue'[j] : j \in DOMAIN semQueue'} = {semQueue[j] : j \in DOMAIN semQueue} \ {q}
    <3>1. ASSUME NEW j \in DOMAIN semQueue'
          PROVE  semQueue'[j] \in {semQueue[k] : k \in DOMAIN semQueue} \ {q}
      BY <2>2, <2>4 DEF SemQueueHolds
    <3>2. ASSUME NEW j \in DOMAIN semQueue, semQueue[j] # q
          PROVE  \E k \in DOMAIN semQueue' : semQueue'[k] = semQueue[j]
      <4>1. j - 1 \in DOMAIN semQueue' /\ semQueue'[j - 1] = semQueue[j]
        BY <2>2, <2>4, <3>2
      <4> QED BY <4>1
    <3> QED BY <3>1, <3>2
  <2>7. {p \in Sem!Procs : sempc'[p] = "sleep"} = {p \in Sem!Procs : pcs[p] = "sleep"} \ {q}
    BY <2>1, <2>2
  <2>8. sempc' \in [Sem!Procs -> SemStates]
    BY <2>1, <2>2 DEF SemStates
  <2> QED BY <1>2, <2>1, <2>2, <2>3, <2>4, <2>5, <2>6, <2>7, <2>8 DEF SemQueueHolds
<1> QED BY <1>1, <1>2

(* TypeOK, with the queue's part named.                                    *)
LEMMA SemTypeParts ==
    Sem!TypeOK <=> /\ semval \in Nat /\ SemQueueHolds(semQueue, sempc)
                   /\ sempc \in [Sem!Procs -> SemStates]
               /\ ipc \in [Instances -> {"new", "init", "run", "failed"}]
               /\ starts \in 0 .. MaxStarts
BY DEF Sem!TypeOK, SemQueueHolds, SemStates

(* A step keeps what it leaves alone in range.                             *)
LEMMA SemNextType ==
    ASSUME semval' \in Nat, SemQueueHolds(semQueue', sempc'), sempc' \in [Sem!Procs -> SemStates],
           ipc' \in [Instances -> {"new", "init", "run", "failed"}], starts' \in 0 .. MaxStarts
    PROVE  Sem!TypeOK'
BY DEF Sem!TypeOK, SemQueueHolds, SemStates

-----------------------------------------------------------------------------
(* initSem sets the value, whoever sleeps.                                 *)
LEMMA SemInitSemKeeps ==
    ASSUME SemInv, NEW n \in Instances, Sem!initSem(n), UNCHANGED Sem!circumstances
    PROVE  SemInv'
<1>1. /\ ipc[n] = "new" /\ ipc' = [ipc EXCEPT ![n] = "init"]
      /\ starts < MaxStarts /\ starts' = starts + 1
      /\ single => \A m \in Instances : ipc[m] = "new"
      /\ Sem!Give(0, sempc) /\ single' = single /\ mayDie' = mayDie
  BY DEF Sem!initSem, Sem!circumstances
<1>2. /\ SemQueueHolds(semQueue, sempc) /\ sempc \in [Sem!Procs -> SemStates] /\ semval \in Nat
      /\ ipc \in [Instances -> {"new", "init", "run", "failed"}] /\ starts \in 0 .. MaxStarts
  BY SemTypeParts DEF SemInv
<1>3. /\ sempc' \in [Sem!Procs -> SemStates] /\ SemQueueHolds(semQueue', sempc')
      /\ \/ semQueue = <<>> /\ semQueue' = <<>> /\ semval' = 1 /\ sempc' = sempc
         \/ /\ semQueue # <<>> /\ semval' = 0
            /\ \E q \in Sem!Procs : sempc[q] = "sleep" /\ sempc' = [sempc EXCEPT ![q] = "first"]
  BY <1>1, <1>2, SemGiveEffect
<1>4. semval' \in Nat /\ Sem!NoneSleepsInVain'
  BY <1>3 DEF Sem!NoneSleepsInVain
<1>5. Sem!TypeOK'
  BY <1>1, <1>2, <1>3, <1>4, SemConstants, SemNextType
<1>6. SemBounded'
  <2>1. CASE semval' = 1 /\ sempc' = sempc
    BY <1>1, <1>2, <2>1, SemHoldingFinite DEF SemInv, SemBounded, Sem!holding
  <2>2. ASSUME NEW q \in Sem!Procs, sempc[q] = "sleep", sempc' = [sempc EXCEPT ![q] = "first"],
               semval' = 0
        PROVE  SemBounded'
    <3>1. Sem!holding' = Sem!holding \cup {q} /\ q \notin Sem!holding
      BY <1>2, <2>2 DEF Sem!holding
    <3>2. Cardinality(Sem!holding') = Cardinality(Sem!holding) + 1
      BY <3>1, SemHoldingFinite, FS_AddElement
    <3> QED BY <1>1, <1>2, <2>2, <3>2, SemHoldingFinite DEF SemInv, SemBounded
  <2> QED BY <1>3, <2>1, <2>2
<1>7. \A p \in Sem!Procs : sempc[p] = "off" => sempc'[p] = "off"
  BY <1>2, <1>3
<1>8. SemRunHasProcs'
  BY <1>1, <1>2, <1>7 DEF SemInv, SemRunHasProcs, Sem!Procs
<1>9. SemSingle'
  <2> SUFFICES ASSUME single PROVE SemSingle'
    BY <1>1 DEF SemSingle
  <2>1. \A p \in Sem!Procs : sempc[p] = "off"
    BY <1>1 DEF SemInv, SemRunHasProcs, Sem!Procs
  <2>2. sempc' = sempc /\ Sem!holding' = {} /\ semval' <= 1
    BY <1>3, <2>1 DEF Sem!holding
  <2> QED BY <1>1, <1>2, <2>2 DEF SemSingle
<1> QED BY <1>1, <1>4, <1>5, <1>6, <1>8, <1>9 DEF SemInv

(* What every step starts from.                                            *)
LEMMA SemParts ==
    ASSUME SemInv
    PROVE  /\ SemQueueHolds(semQueue, sempc) /\ sempc \in [Sem!Procs -> SemStates] /\ semval \in Nat
           /\ ipc \in [Instances -> {"new", "init", "run", "failed"}]
           /\ starts \in 0 .. MaxStarts /\ MaxStarts \in Nat
           /\ Cardinality(Sem!holding) \in Nat /\ IsFiniteSet(Sem!holding)
BY SemConstants, SemTypeParts, SemHoldingFinite DEF SemInv

(* fork: both processes of an instance begin, or it failed.                *)
LEMMA SemForkKeeps ==
    ASSUME SemInv, NEW n \in Instances, Sem!Fork(n), UNCHANGED Sem!circumstances
    PROVE  SemInv'
<1>1. /\ ipc[n] = "init" /\ semval' = semval /\ semQueue' = semQueue /\ starts' = starts
      /\ single' = single /\ mayDie' = mayDie
      /\ \/ ipc' = [ipc EXCEPT ![n] = "run"]
            /\ sempc' = [p \in Sem!Procs |-> IF p[1] = n THEN "get" ELSE sempc[p]]
         \/ ipc' = [ipc EXCEPT ![n] = "failed"] /\ sempc' = sempc
  BY DEF Sem!Fork, Sem!circumstances
<1>2. /\ SemQueueHolds(semQueue, sempc) /\ sempc \in [Sem!Procs -> SemStates] /\ semval \in Nat
      /\ ipc \in [Instances -> {"new", "init", "run", "failed"}]
      /\ starts \in 0 .. MaxStarts
  BY SemParts
<1>3. \A p \in Sem!Procs : p[1] = n => sempc[p] = "off"
  BY <1>1 DEF SemInv, SemRunHasProcs
<1>4. /\ sempc' \in [Sem!Procs -> SemStates]
      /\ \A p \in Sem!Procs :
            sempc'[p] = sempc[p] \/ (p[1] = n /\ sempc[p] = "off" /\ sempc'[p] = "get")
  BY <1>1, <1>2, <1>3 DEF SemStates
<1>5. /\ {p \in Sem!Procs : sempc'[p] = "sleep"} = {p \in Sem!Procs : sempc[p] = "sleep"}
      /\ Sem!holding' = Sem!holding
  BY <1>4 DEF Sem!holding
<1>6. Sem!TypeOK'
  <2>1. SemQueueHolds(semQueue', sempc')
    BY <1>1, <1>2, <1>5 DEF SemQueueHolds
  <2>2. ipc' \in [Instances -> {"new", "init", "run", "failed"}]
    BY <1>1, <1>2
  <2> QED BY <1>1, <1>2, <1>4, <2>1, <2>2, SemNextType
<1>7. Sem!NoneSleepsInVain' /\ SemBounded'
  BY <1>1, <1>5 DEF SemInv, Sem!NoneSleepsInVain, SemBounded
<1>8. SemRunHasProcs'
  BY <1>1, <1>2, <1>4 DEF SemInv, SemRunHasProcs, Sem!Procs
<1>9. SemSingle'
  BY <1>1, <1>2, <1>5 DEF SemInv, SemSingle
<1> QED BY <1>1, <1>6, <1>7, <1>8, <1>9 DEF SemInv

(* P takes a unit or sleeps.                                               *)
LEMMA SemPKeeps ==
    ASSUME SemInv, NEW p \in Sem!Procs, Sem!P(p), UNCHANGED Sem!circumstances
    PROVE  SemInv'
<1>1. /\ SemQueueHolds(semQueue, sempc) /\ sempc \in [Sem!Procs -> SemStates] /\ semval \in Nat
      /\ ipc \in [Instances -> {"new", "init", "run", "failed"}]
      /\ starts \in 0 .. MaxStarts
      /\ Cardinality(Sem!holding) \in Nat /\ IsFiniteSet(Sem!holding)
  BY SemParts
<1>2. /\ sempc[p] = "get" /\ ipc' = ipc /\ starts' = starts
      /\ single' = single /\ mayDie' = mayDie
  BY DEF Sem!P, Sem!circumstances
<1>3. CASE Sem!Available
  <2>1. /\ semval' = semval - 1 /\ semval > 0 /\ semQueue' = semQueue
        /\ sempc' = [sempc EXCEPT ![p] = "first"]
    BY <1>3 DEF Sem!P, Sem!Available
  <2>2. Sem!holding' = Sem!holding \cup {p} /\ p \notin Sem!holding
    BY <1>1, <1>2, <2>1 DEF Sem!holding
  <2>3. Cardinality(Sem!holding') = Cardinality(Sem!holding) + 1
    BY <1>1, <2>2, FS_AddElement
  <2>4. Sem!TypeOK'
    <3>1. SemQueueHolds(semQueue', sempc')
      BY <1>1, <1>2, <2>1 DEF SemQueueHolds
    <3>2. sempc' \in [Sem!Procs -> SemStates]
      BY <1>1, <2>1 DEF SemStates
    <3> QED BY <1>1, <1>2, <2>1, <3>1, <3>2, SemNextType
  <2>5. Sem!NoneSleepsInVain' /\ SemBounded'
    BY <1>1, <1>2, <2>1, <2>3 DEF SemInv, Sem!NoneSleepsInVain, SemBounded
  <2>6. SemRunHasProcs'
    BY <1>1, <1>2, <2>1 DEF SemInv, SemRunHasProcs
  <2>7. SemSingle'
    BY <1>1, <1>2, <2>1, <2>2 DEF SemInv, SemSingle
  <2> QED BY <1>2, <2>4, <2>5, <2>6, <2>7 DEF SemInv
<1>4. CASE ~Sem!Available
  <2>1. /\ semQueue' = Append(semQueue, p) /\ semval' = semval
        /\ sempc' = [sempc EXCEPT ![p] = "sleep"]
    BY <1>4 DEF Sem!P
  <2>2. semval = 0
    BY <1>1, <1>4 DEF Sem!Available
  <2>3. Sem!holding' = Sem!holding
    BY <1>1, <1>2, <2>1 DEF Sem!holding
  <2>4. Sem!TypeOK'
    <3>1. /\ semQueue' \in Seq(Sem!Procs) /\ DOMAIN semQueue' = 1 .. Len(semQueue) + 1
          /\ DOMAIN semQueue = 1 .. Len(semQueue) /\ Len(semQueue) \in Nat
          /\ semQueue'[Len(semQueue) + 1] = p
          /\ \A j \in 1 .. Len(semQueue) : semQueue'[j] = semQueue[j]
      BY <1>1, <2>1 DEF SemQueueHolds
    <3>2. \A j \in DOMAIN semQueue : semQueue[j] # p
      BY <1>1, <1>2 DEF SemQueueHolds
    <3>3. \A j, k \in DOMAIN semQueue' : semQueue'[j] = semQueue'[k] => j = k
      BY <1>1, <3>1, <3>2 DEF SemQueueHolds
    <3>4. {semQueue'[j] : j \in DOMAIN semQueue'} = {semQueue[j] : j \in DOMAIN semQueue} \cup {p}
      BY <3>1
    <3>5. {q \in Sem!Procs : sempc'[q] = "sleep"} = {q \in Sem!Procs : sempc[q] = "sleep"} \cup {p}
      BY <1>1, <2>1
    <3>6. SemQueueHolds(semQueue', sempc')
      BY <1>1, <3>1, <3>3, <3>4, <3>5 DEF SemQueueHolds
    <3>7. sempc' \in [Sem!Procs -> SemStates]
      BY <1>1, <2>1 DEF SemStates
    <3> QED BY <1>1, <1>2, <2>1, <3>6, <3>7, SemNextType
  <2>5. Sem!NoneSleepsInVain' /\ SemBounded'
    BY <1>1, <1>2, <2>1, <2>2, <2>3 DEF SemInv, Sem!NoneSleepsInVain, SemBounded
  <2>6. SemRunHasProcs'
    BY <1>1, <1>2, <2>1 DEF SemInv, SemRunHasProcs
  <2>7. SemSingle'
    BY <1>1, <1>2, <2>1, <2>3 DEF SemInv, SemSingle
  <2> QED BY <1>2, <2>4, <2>5, <2>6, <2>7 DEF SemInv
<1> QED BY <1>3, <1>4

(* The holder of a unit goes on.                                           *)
LEMMA SemPrintKeeps ==
    ASSUME SemInv, NEW p \in Sem!Procs, Sem!PrintsLetter(p), UNCHANGED Sem!circumstances
    PROVE  SemInv'
<1>1. /\ SemQueueHolds(semQueue, sempc) /\ sempc \in [Sem!Procs -> SemStates] /\ semval \in Nat
      /\ ipc \in [Instances -> {"new", "init", "run", "failed"}]
      /\ starts \in 0 .. MaxStarts
  BY SemParts
<1>2. /\ sempc[p] = "first" /\ sempc' = [sempc EXCEPT ![p] = "second"] /\ ipc' = ipc
      /\ starts' = starts /\ semval' = semval /\ semQueue' = semQueue
      /\ single' = single /\ mayDie' = mayDie
  BY DEF Sem!PrintsLetter, Sem!circumstances
<1>3. /\ Sem!holding' = Sem!holding
      /\ {q \in Sem!Procs : sempc'[q] = "sleep"} = {q \in Sem!Procs : sempc[q] = "sleep"}
  BY <1>1, <1>2 DEF Sem!holding
<1>4. Sem!TypeOK'
  <2>1. SemQueueHolds(semQueue', sempc') /\ sempc' \in [Sem!Procs -> SemStates]
    BY <1>1, <1>2, <1>3 DEF SemQueueHolds, SemStates
  <2> QED BY <1>1, <1>2, <2>1, SemNextType
<1>5. Sem!NoneSleepsInVain' /\ SemBounded'
  BY <1>2, <1>3 DEF SemInv, Sem!NoneSleepsInVain, SemBounded
<1>6. SemRunHasProcs' /\ SemSingle'
  BY <1>1, <1>2, <1>3 DEF SemInv, SemRunHasProcs, SemSingle
<1> QED BY <1>2, <1>4, <1>5, <1>6 DEF SemInv

(* V: the unit is nobody's, or the one of a process that slept.            *)
LEMMA SemVEffect ==
    ASSUME SemInv, NEW p \in Sem!Procs, Sem!V(p)
    PROVE  /\ sempc[p] = "second" /\ p \in Sem!holding /\ ipc' = ipc /\ starts' = starts
           /\ sempc' \in [Sem!Procs -> SemStates] /\ SemQueueHolds(semQueue', sempc')
           /\ \A q \in Sem!Procs : sempc[q] = "off" => sempc'[q] = "off"
           /\ \/ /\ semQueue = <<>> /\ semQueue' = <<>> /\ semval' = semval + 1
                 /\ Sem!holding' = Sem!holding \ {p}
              \/ /\ semQueue # <<>> /\ semval' = semval
                 /\ \E q \in Sem!Procs :
                       q \notin Sem!holding /\ Sem!holding' = (Sem!holding \ {p}) \cup {q}
<1> DEFINE pcs == [sempc EXCEPT ![p] = "get"]
<1>1. /\ SemQueueHolds(semQueue, sempc) /\ sempc \in [Sem!Procs -> SemStates] /\ semval \in Nat
  BY SemParts
<1>2. sempc[p] = "second" /\ ipc' = ipc /\ starts' = starts /\ Sem!Give(semval, pcs)
  BY DEF Sem!V
<1>3. pcs \in [Sem!Procs -> SemStates] /\ SemQueueHolds(semQueue, pcs)
  <2>1. {q \in Sem!Procs : pcs[q] = "sleep"} = {q \in Sem!Procs : sempc[q] = "sleep"}
    BY <1>1, <1>2
  <2> QED BY <1>1, <2>1 DEF SemQueueHolds, SemStates
<1>4. \A q \in Sem!Procs : pcs[q] = IF q = p THEN "get" ELSE sempc[q]
  BY <1>1
<1> HIDE DEF pcs
<1>5. /\ sempc' \in [Sem!Procs -> SemStates] /\ SemQueueHolds(semQueue', sempc')
      /\ \/ semQueue = <<>> /\ semQueue' = <<>> /\ semval' = semval + 1 /\ sempc' = pcs
         \/ /\ semQueue # <<>> /\ semval' = semval
            /\ \E q \in Sem!Procs : pcs[q] = "sleep" /\ sempc' = [pcs EXCEPT ![q] = "first"]
  BY <1>1, <1>2, <1>3, SemGiveEffect
<1>6. CASE semQueue = <<>> /\ semQueue' = <<>> /\ semval' = semval + 1 /\ sempc' = pcs
  <2>1. Sem!holding' = Sem!holding \ {p}
    BY <1>4, <1>6 DEF Sem!holding
  <2> QED BY <1>2, <1>4, <1>5, <1>6, <2>1 DEF Sem!holding
<1>7. ASSUME semQueue # <<>>, semval' = semval,
             NEW q \in Sem!Procs, pcs[q] = "sleep", sempc' = [pcs EXCEPT ![q] = "first"]
      PROVE  /\ \A r \in Sem!Procs : sempc[r] = "off" => sempc'[r] = "off"
             /\ q \notin Sem!holding /\ Sem!holding' = (Sem!holding \ {p}) \cup {q}
  <2>1. q # p /\ sempc[q] = "sleep"
    BY <1>4, <1>7
  <2>2. \A r \in Sem!Procs : sempc'[r] = IF r = q THEN "first" ELSE pcs[r]
    BY <1>3, <1>7
  <2> QED BY <1>2, <1>4, <2>1, <2>2 DEF Sem!holding
<1>8. p \in Sem!holding
  BY <1>2 DEF Sem!holding
<1> QED BY <1>2, <1>5, <1>6, <1>7, <1>8

(* V wakes the first sleeper, or gives the unit back.                      *)
LEMMA SemVKeeps ==
    ASSUME SemInv, NEW p \in Sem!Procs, Sem!V(p), UNCHANGED Sem!circumstances
    PROVE  SemInv'
<1>1. /\ SemQueueHolds(semQueue, sempc) /\ sempc \in [Sem!Procs -> SemStates] /\ semval \in Nat
      /\ ipc \in [Instances -> {"new", "init", "run", "failed"}]
      /\ starts \in 0 .. MaxStarts /\ MaxStarts \in Nat
      /\ Cardinality(Sem!holding) \in Nat /\ IsFiniteSet(Sem!holding)
  BY SemParts
<1>2. single' = single /\ mayDie' = mayDie
  BY DEF Sem!circumstances
<1>3. /\ sempc[p] = "second" /\ p \in Sem!holding /\ ipc' = ipc /\ starts' = starts
      /\ sempc' \in [Sem!Procs -> SemStates] /\ SemQueueHolds(semQueue', sempc')
      /\ \A q \in Sem!Procs : sempc[q] = "off" => sempc'[q] = "off"
  BY SemVEffect
<1>4. /\ IsFiniteSet(Sem!holding \ {p})
      /\ Cardinality(Sem!holding \ {p}) = Cardinality(Sem!holding) - 1
  BY <1>1, <1>3, FS_RemoveElement
<1>5. SemRunHasProcs'
  BY <1>3 DEF SemInv, SemRunHasProcs
<1>6. CASE /\ semQueue = <<>> /\ semQueue' = <<>> /\ semval' = semval + 1
           /\ Sem!holding' = Sem!holding \ {p}
  <2>1. Sem!TypeOK' /\ Sem!NoneSleepsInVain'
    BY <1>1, <1>3, <1>6, SemNextType DEF Sem!NoneSleepsInVain
  <2>2. SemBounded'
    BY <1>1, <1>3, <1>4, <1>6 DEF SemInv, SemBounded
  <2>3. SemSingle'
    BY <1>1, <1>2, <1>3, <1>6 DEF SemInv, SemSingle
  <2> QED BY <1>2, <1>5, <2>1, <2>2, <2>3 DEF SemInv
<1>7. ASSUME semQueue # <<>>, semval' = semval, NEW q \in Sem!Procs,
             q \notin Sem!holding, Sem!holding' = (Sem!holding \ {p}) \cup {q}
      PROVE  SemInv'
  <2>1. Sem!TypeOK' /\ Sem!NoneSleepsInVain'
    BY <1>1, <1>3, <1>7, SemNextType DEF SemInv, Sem!NoneSleepsInVain
  <2>2. Cardinality(Sem!holding') = Cardinality(Sem!holding)
    <3>1. Cardinality(Sem!holding') =
             IF q \in Sem!holding \ {p} THEN Cardinality(Sem!holding \ {p})
                                   ELSE Cardinality(Sem!holding \ {p}) + 1
      BY <1>4, <1>7, FS_AddElement, Zenon
    <3> QED BY <1>1, <1>4, <1>7, <3>1
  <2>3. SemBounded'
    BY <1>1, <1>3, <1>7, <2>2 DEF SemInv, SemBounded
  <2>4. SemSingle'
    BY <1>1, <1>2, <1>3, <1>7 DEF SemInv, SemSingle
  <2> QED BY <1>2, <1>5, <2>1, <2>3, <2>4 DEF SemInv
<1> QED BY SemVEffect, <1>6, <1>7

(* A process is killed, and its unit is lost with it.                      *)
LEMMA SemDieKeeps ==
    ASSUME SemInv, NEW p \in Sem!Procs, Sem!Die(p), UNCHANGED Sem!circumstances
    PROVE  SemInv'
<1>1. /\ SemQueueHolds(semQueue, sempc) /\ sempc \in [Sem!Procs -> SemStates] /\ semval \in Nat
      /\ ipc \in [Instances -> {"new", "init", "run", "failed"}]
      /\ starts \in 0 .. MaxStarts
  BY SemParts
<1>2. /\ sempc[p] \in {"get", "sleep", "first", "second"}
      /\ sempc' = [sempc EXCEPT ![p] = IF p \in Sem!holding THEN "diedholding" ELSE "died"]
      /\ semQueue' = Sem!QueueWithout(p) /\ semval' = semval /\ ipc' = ipc /\ starts' = starts
      /\ single' = single /\ mayDie' = mayDie
  BY DEF Sem!Die, Sem!circumstances
<1>3. /\ sempc' \in [Sem!Procs -> SemStates] /\ Sem!holding' = Sem!holding
      /\ {q \in Sem!Procs : sempc'[q] = "sleep"} = {q \in Sem!Procs : sempc[q] = "sleep"} \ {p}
  BY <1>1, <1>2 DEF Sem!holding, SemStates
<1>4. SemQueueHolds(semQueue', sempc') /\ (semQueue = <<>> => semQueue' = <<>>)
  <2>1. CASE sempc[p] = "sleep"
    <3> DEFINE k == CHOOSE j \in DOMAIN semQueue : semQueue[j] = p
    <3>1. k \in DOMAIN semQueue /\ semQueue[k] = p
      <4>1. \E j \in DOMAIN semQueue : semQueue[j] = p
        BY <1>1, <2>1 DEF SemQueueHolds
      <4> QED BY <4>1
    <3>2. semQueue' = Sem!RemoveAt(semQueue, k)
      BY <1>2, <2>1 DEF Sem!QueueWithout
    <3> HIDE DEF k
    <3>3. /\ semQueue' \in Seq(Sem!Procs)
          /\ {semQueue'[j] : j \in DOMAIN semQueue'} = {semQueue[j] : j \in DOMAIN semQueue} \ {p}
          /\ \A h, j \in DOMAIN semQueue' : semQueue'[h] = semQueue'[j] => h = j
      <4>1. /\ semQueue \in Seq(Sem!Procs)
            /\ \A h, j \in DOMAIN semQueue : semQueue[h] = semQueue[j] => h = j
        BY <1>1 DEF SemQueueHolds
      <4>2. /\ Sem!RemoveAt(semQueue, k) \in Seq(Sem!Procs)
            /\ {Sem!RemoveAt(semQueue, k)[j] : j \in DOMAIN Sem!RemoveAt(semQueue, k)}
                  = {semQueue[j] : j \in DOMAIN semQueue} \ {semQueue[k]}
            /\ \A h, j \in DOMAIN Sem!RemoveAt(semQueue, k) :
                  Sem!RemoveAt(semQueue, k)[h] = Sem!RemoveAt(semQueue, k)[j] => h = j
        BY <3>1, <4>1, SemWithoutOne, Zenon
      <4> QED BY <3>1, <3>2, <4>2, Zenon
    <3>4. semQueue # <<>>
      BY <3>1
    <3> QED BY <1>1, <1>3, <3>3, <3>4 DEF SemQueueHolds
  <2>2. CASE sempc[p] # "sleep"
    BY <1>1, <1>2, <1>3, <2>2 DEF SemQueueHolds, Sem!QueueWithout
  <2> QED BY <2>1, <2>2
<1>5. Sem!TypeOK'
  BY <1>1, <1>2, <1>3, <1>4, SemNextType
<1>6. Sem!NoneSleepsInVain' /\ SemBounded'
  BY <1>2, <1>3, <1>4 DEF SemInv, Sem!NoneSleepsInVain, SemBounded
<1>7. SemRunHasProcs' /\ SemSingle'
  BY <1>1, <1>2, <1>3 DEF SemInv, SemRunHasProcs, SemSingle
<1> QED BY <1>2, <1>5, <1>6, <1>7 DEF SemInv

(* All processes of an instance have ended: units they held are gone.      *)
LEMMA SemEndedKeeps ==
    ASSUME SemInv, NEW n \in Instances, Sem!Ended(n), UNCHANGED Sem!circumstances
    PROVE  SemInv' /\ Sem!holding' \subseteq Sem!holding
<1>1. /\ SemQueueHolds(semQueue, sempc) /\ sempc \in [Sem!Procs -> SemStates] /\ semval \in Nat
      /\ ipc \in [Instances -> {"new", "init", "run", "failed"}]
      /\ starts \in 0 .. MaxStarts /\ MaxStarts \in Nat
      /\ Cardinality(Sem!holding) \in Nat /\ IsFiniteSet(Sem!holding)
  BY SemParts
<1>2. /\ \A p \in Sem!Procs : p[1] = n => sempc[p] \in {"off", "died", "diedholding"}
      /\ ipc' = [ipc EXCEPT ![n] = "new"]
      /\ sempc' = [p \in Sem!Procs |-> IF p[1] = n THEN "off" ELSE sempc[p]]
      /\ semval' = semval /\ semQueue' = semQueue /\ starts' = starts
      /\ single' = single /\ mayDie' = mayDie
  BY DEF Sem!Ended, Sem!circumstances
<1>3. /\ sempc' \in [Sem!Procs -> SemStates] /\ Sem!holding' \subseteq Sem!holding
      /\ {q \in Sem!Procs : sempc'[q] = "sleep"} = {q \in Sem!Procs : sempc[q] = "sleep"}
  BY <1>1, <1>2 DEF Sem!holding, SemStates
<1>4. ipc' \in [Instances -> {"new", "init", "run", "failed"}]
  BY <1>1, <1>2
<1>5. Sem!TypeOK'
  <2>1. SemQueueHolds(semQueue', sempc')
    BY <1>1, <1>2, <1>3 DEF SemQueueHolds
  <2> QED BY <1>1, <1>2, <1>3, <1>4, <2>1, SemNextType
<1>6. Cardinality(Sem!holding') <= Cardinality(Sem!holding) /\ Cardinality(Sem!holding') \in Nat
  BY <1>1, <1>3, FS_Subset, FS_CardinalityType
<1>7. Sem!NoneSleepsInVain' /\ SemBounded'
  BY <1>1, <1>2, <1>6 DEF SemInv, Sem!NoneSleepsInVain, SemBounded
<1>8. SemRunHasProcs'
  BY <1>1, <1>2 DEF SemInv, SemRunHasProcs, Sem!Procs
<1>9. SemSingle'
  BY <1>1, <1>2, <1>3 DEF SemInv, SemSingle
<1> QED BY <1>2, <1>3, <1>5, <1>7, <1>8, <1>9 DEF SemInv

(* Together.                                                               *)
LEMMA SemStep ==
    ASSUME SemInv, [Sem!Next]_(Sem!vars)
    PROVE  SemInv'
<1>1. CASE UNCHANGED Sem!vars
  BY <1>1 DEF Sem!vars, Sem!circumstances, SemInv, Sem!TypeOK, Sem!NoneSleepsInVain, SemBounded,
              Sem!holding,
              SemRunHasProcs, SemSingle
<1>2. ASSUME NEW n \in Instances, Sem!Starts(n) PROVE SemInv'
  BY <1>2, SemInitSemKeeps, SemForkKeeps DEF Sem!Starts
<1>3. ASSUME NEW p \in Sem!Procs, Sem!Works(p) PROVE SemInv'
  BY <1>3, SemPKeeps, SemPrintKeeps, SemVKeeps DEF Sem!Works
<1>4. CASE Sem!Ends
  BY <1>4, SemEndedKeeps, SemDieKeeps DEF Sem!Ends
<1> QED BY <1>1, <1>2, <1>3, <1>4 DEF Sem!Next

(* So it holds in every behaviour.                                         *)
LEMMA SemRunsInv ==
    Sem!Spec => []SemInv
<1>1. Sem!Init => SemInv
  BY SemInit
<1>2. SemInv /\ [Sem!Next]_(Sem!vars) => SemInv'
  BY SemStep
<1> QED BY <1>1, <1>2, PTL DEF Sem!Spec

-----------------------------------------------------------------------------
(* A step of the program is one of the lock, or leaves its owner alone.    *)
LEMMA SemStepIsLocks ==
    ASSUME SemInv, [Sem!Next]_(Sem!vars), single
    PROVE  [Sem!L!Next]_(Sem!holding)
<1>1. /\ sempc \in [Sem!Procs -> SemStates] /\ semval \in Nat
      /\ semval > 0 => Sem!holding = {}
      /\ \A p, q \in Sem!holding : p = q
      /\ Sem!holding \subseteq Sem!Procs
      /\ \A m, n \in Instances : ipc[m] # "new" /\ ipc[n] # "new" => m = n
  BY SemParts DEF SemInv, SemSingle, Sem!holding
<1>2. SemInv'
  BY SemStep
<1>a. single /\ single'
  BY DEF Sem!Next, Sem!vars, Sem!circumstances, Sem!Starts, Sem!Works, Sem!Ends
<1>b. ASSUME NEW p \in Sem!Procs, NEW q \in Sem!Procs,
             \/ Sem!holding = {} /\ Sem!holding' = {p}
             \/ Sem!holding = {p} /\ Sem!holding' \in {{}, {q}}
      PROVE  Sem!L!Next
  BY <1>a, <1>b DEF Sem!L!Next, Sem!L!Acquire, Sem!L!Release, Sem!L!Handover
<1>3. CASE UNCHANGED Sem!vars
  BY <1>3 DEF Sem!vars, Sem!holding
<1>4. ASSUME NEW n \in Instances, Sem!Starts(n) PROVE Sem!holding' = Sem!holding
  <2>1. CASE Sem!Fork(n)
    <3>1. \A p \in Sem!Procs : p[1] = n => sempc[p] = "off"
      BY <2>1 DEF Sem!Fork, SemInv, SemRunHasProcs
    <3>2. Sem!holding' = Sem!holding
      BY <1>1, <2>1, <3>1 DEF Sem!Fork, Sem!holding
    <3> QED BY <3>2
  <2>2. CASE Sem!initSem(n)
    <3>1. \A p \in Sem!Procs : sempc[p] = "off"
      BY <2>2 DEF Sem!initSem, SemInv, SemRunHasProcs, Sem!Procs
    <3>2. SemQueueHolds(semQueue, sempc) /\ semQueue = <<>>
      <4>1. SemQueueHolds(semQueue, sempc)
        BY SemParts
      <4>2. {semQueue[j] : j \in DOMAIN semQueue} = {}
        BY <3>1, <4>1 DEF SemQueueHolds
      <4>3. DOMAIN semQueue = {} /\ semQueue \in Seq(Sem!Procs)
        BY <4>1, <4>2 DEF SemQueueHolds
      <4> QED BY <4>1, <4>3
    <3>3. sempc' = sempc
      BY <2>2, <3>2 DEF Sem!initSem, Sem!Give
    <3> QED BY <3>3 DEF Sem!holding
  <2> QED BY <1>4, <2>1, <2>2 DEF Sem!Starts
<1>5. ASSUME NEW p \in Sem!Procs, Sem!Works(p) PROVE [Sem!L!Next]_(Sem!holding)
  <2>1. CASE Sem!P(p)
    <3>1. CASE Sem!Available
      <4>1. Sem!holding = {} /\ Sem!holding' = {p}
        BY <1>1, <2>1, <3>1 DEF Sem!P, Sem!Available, Sem!holding
      <4> QED BY <4>1, <1>b
    <3>2. CASE ~Sem!Available
      <4>1. Sem!holding' = Sem!holding
        BY <1>1, <2>1, <3>2 DEF Sem!P, Sem!holding
      <4> QED BY <4>1
    <3> QED BY <3>1, <3>2
  <2>2. CASE Sem!PrintsLetter(p)
    <3>1. Sem!holding' = Sem!holding
      BY <1>1, <2>2 DEF Sem!PrintsLetter, Sem!holding
    <3> QED BY <3>1
  <2>3. CASE Sem!V(p)
    <3>1. /\ p \in Sem!holding
          /\ \/ Sem!holding' = Sem!holding \ {p}
             \/ \E q \in Sem!Procs :
                   q \notin Sem!holding /\ Sem!holding' = (Sem!holding \ {p}) \cup {q}
      BY <2>3, SemVEffect
    <3>2. Sem!holding = {p}
      BY <1>1, <3>1
    <3>3. \E q \in Sem!Procs : Sem!holding' \in {{}, {q}}
      BY <3>1, <3>2
    <3> QED BY <3>2, <3>3, <1>b
  <2> QED BY <1>5, <2>1, <2>2, <2>3 DEF Sem!Works
<1>6. CASE Sem!Ends
  <2>1. ASSUME NEW n \in Instances, Sem!Ended(n) PROVE [Sem!L!Next]_(Sem!holding)
    <3>1. Sem!holding' \subseteq Sem!holding
      BY <1>6, <2>1, SemEndedKeeps DEF Sem!Ends
    <3>2. Sem!holding' = Sem!holding \/ (Sem!holding' = {} /\ \E p \in Sem!Procs : Sem!holding = {p})
      BY <1>1, <3>1
    <3> QED BY <3>2, <1>b
  <2>2. ASSUME NEW p \in Sem!Procs, Sem!Die(p) PROVE [Sem!L!Next]_(Sem!holding)
    <3>1. Sem!holding' = Sem!holding
      BY <1>1, <2>2 DEF Sem!Die, Sem!holding
    <3> QED BY <3>1
  <2> QED BY <1>6, <2>1, <2>2 DEF Sem!Ends
<1> QED BY <1>3, <1>4, <1>5, <1>6 DEF Sem!Next

(* With a single instance at a time the semaphore of P and V implements    *)
(* Lock: whoever prints holds it alone, V hands it to one that waited, and *)
(* a killed owner keeps it until its place is taken by another run.        *)
LEMMA SemImplementsLock == Sem!Spec => Sem!LockSpec
<1>1. Sem!Init => Sem!L!Init
  BY DEF Sem!Init, Sem!L!Init, Sem!holding
<1>2. SemInv /\ [Sem!Next]_(Sem!vars) => [Sem!L!Next]_(IF single THEN Sem!holding ELSE {})
  <2> SUFFICES ASSUME SemInv, [Sem!Next]_(Sem!vars)
               PROVE  [Sem!L!Next]_(IF single THEN Sem!holding ELSE {})
    OBVIOUS
  <2>1. single' = single
    BY DEF Sem!Next, Sem!vars, Sem!circumstances, Sem!Starts, Sem!Works, Sem!Ends
  <2>2. CASE single
    BY <2>1, <2>2, SemStepIsLocks DEF Sem!L!Next, Sem!L!Acquire, Sem!L!Release, Sem!L!Handover
  <2>3. CASE ~single
    BY <2>1, <2>3
  <2> QED BY <2>2, <2>3
<1> QED BY <1>1, <1>2, SemRunsInv, PTL DEF Sem!Spec, Sem!LockSpec, Sem!L!Spec

-----------------------------------------------------------------------------
(* A behaviour of ProcessInteractive is one of each program: a step of     *)
(* another program leaves its variables alone.                             *)
LEMMA ShmRuns == Spec => Shm!Spec
<1>1. Init => Shm!Init
  BY DEF Init
<1>2. [Next]_vars => [Shm!Next]_(Shm!vars)
  BY DEF Next, Runs, vars, shmVars, Shm!vars, Shm!producerVars, Shm!customerVars, Shm!circumstances
<1> QED BY <1>1, <1>2, PTL DEF Spec, Shm!Spec

(* A behaviour of the seven programs is one of the semaphore programs,     *)
LEMMA SemRuns == Spec => Sem!Spec
<1>1. Init => Sem!Init
  BY DEF Init
<1>2. [Next]_vars => [Sem!Next]_(Sem!vars)
  BY DEF Next, Runs, vars, semVars, Sem!vars, Sem!circumstances
<1> QED BY <1>1, <1>2, PTL DEF Spec, Sem!Spec

(* one of the memory mapping,                                              *)
LEMMA MapRuns == Spec => Map!Spec
<1>1. Init => Map!Init
  BY DEF Init
<1>2. [Next]_vars => [Map!Next]_(Map!vars)
  BY DEF Next, Runs, vars, mapVars, Map!vars, Map!file, Map!reader
<1> QED BY <1>1, <1>2, PTL DEF Spec, Map!Spec

(* one of the message queue,                                               *)
LEMMA MsgRuns == Spec => Msg!Spec
<1>1. Init => Msg!Init
  BY DEF Init
<1>2. [Next]_vars => [Msg!Next]_(Msg!vars)
  BY DEF Next, Runs, vars, msgVars, Msg!vars, Msg!queue, Msg!sender, Msg!receiver
<1> QED BY <1>1, <1>2, PTL DEF Spec, Msg!Spec

(* one of the process tree,                                                *)
LEMMA SubRuns == Spec => Sub!Spec
<1>1. Init => Sub!Init
  BY DEF Init
<1>2. [Next]_vars => [Sub!Next]_(Sub!vars)
  BY DEF Next, Runs, vars, subVars, Sub!vars
<1> QED BY <1>1, <1>2, PTL DEF Spec, Sub!Spec

(* one of the signals,                                                     *)
LEMMA SigRuns == Spec => Sig!Spec
<1>1. Init => Sig!Init
  BY DEF Init
<1>2. [Next]_vars => [Sig!Next]_(Sig!vars)
  BY DEF Next, Runs, vars, sigVars, Sig!vars, Sig!program
<1> QED BY <1>1, <1>2, PTL DEF Spec, Sig!Spec

(* and one of the pipe.                                                    *)
LEMMA PipRuns == Spec => Pip!Spec
<1>1. Init => Pip!Init
  BY DEF Init
<1>2. [Next]_vars => [Pip!Next]_(Pip!vars)
  BY DEF Next, Runs, vars, pipVars, Pip!vars
<1> QED BY <1>1, <1>2, PTL DEF Spec, Pip!Spec

(* So each has its invariant in every behaviour: the mapping,              *)
LEMMA MapCorrect == Spec => []MapInv
BY MapInit, MapStep, MapRuns, PTL DEF Map!Spec

(* the process tree,                                                       *)
LEMMA SubCorrect == Spec => []SubInv
BY SubInit, SubStep, SubRuns, PTL DEF Sub!Spec

(* the pipe,                                                               *)
LEMMA PipCorrect == Spec => []PipInv
BY PipInit, PipStep, PipRuns, PTL DEF Pip!Spec

(* the signals,                                                            *)
LEMMA SigCorrect == Spec => []SigInv
BY SigInit, SigStep, SigRuns, PTL DEF Sig!Spec

(* the message queue,                                                      *)
LEMMA MsgCorrect == Spec => [](MsgState /\ MsgOrder /\ MsgEnds /\ MsgLoss)
<1>1. (MsgState /\ MsgOrder /\ MsgEnds /\ MsgLoss) /\ [Msg!Next]_(Msg!vars)
         => (MsgState /\ MsgOrder /\ MsgEnds /\ MsgLoss)'
  BY MsgStateStep, MsgOrderStep, MsgEndsStep, MsgLossStep
<1> QED BY <1>1, MsgInit, MsgRuns, PTL DEF Msg!Spec

(* What is proved of SharedMem and SemPV holds of their instances here.    *)
LEMMA ShmCorrect ==
    Spec => [](Shm!TypeOK /\ Shm!PrintedInOrder /\ Shm!OneInFlight /\ Shm!OnlyEndUnprinted)
<1>1. Shm!SharedMemAssumption
  BY ProgramAssumptions
<1> QED BY <1>1, ShmRuns, ShmTypeCorrect, ShmPrintedInOrderCorrect, ShmOneInFlightCorrect,
           ShmOnlyEndUnprintedCorrect, PTL

(* and the semaphore.                                                      *)
LEMMA SemCorrect ==
    Spec => [](Sem!TypeOK /\ Sem!NoneSleepsInVain /\ Sem!UnitsBounded) /\ Sem!LockSpec
<1>1. SemInv => Sem!TypeOK /\ Sem!NoneSleepsInVain /\ Sem!UnitsBounded
  BY SemCardinality DEF SemInv, SemBounded, Sem!UnitsBounded
<1> QED BY <1>1, SemRuns, SemRunsInv, SemImplementsLock, PTL

-----------------------------------------------------------------------------
(* The properties of the run.                                              *)

(* Every program is at one known point, with its data in range.            *)
THEOREM TypeCorrect == Spec => []TypeOK
<1>1. MapInv => Map!TypeOK
  BY DEF MapInv
<1>2. SubInv => Sub!TypeOK
  BY DEF SubInv
<1>3. SigInv => Sig!TypeOK
  BY DEF SigInv
<1>4. PipInv => Pip!TypeOK
  BY DEF PipInv
<1>5. MsgState => Msg!TypeOK
  BY DEF MsgState
<1>6. Shm!TypeOK /\ Sem!TypeOK /\ MapInv /\ MsgState /\ SubInv /\ SigInv /\ PipInv => TypeOK
  BY <1>1, <1>2, <1>3, <1>4, <1>5 DEF TypeOK
<1> QED BY <1>6, ShmCorrect, SemCorrect, MapCorrect, MsgCorrect, SubCorrect, SigCorrect, PipCorrect, PTL

(* producer and customer: the lines are printed in order, none half        *)
(* written, and with the customer there first none is lost but "end".      *)
THEOREM LinesRendezvousCorrect == Spec => []LinesRendezvous
<1>1. Shm!PrintedInOrder /\ Shm!OneInFlight /\ Shm!OnlyEndUnprinted => LinesRendezvous
  BY DEF LinesRendezvous
<1> QED BY <1>1, ShmCorrect, PTL

(* sem_PV_handler: nobody sleeps on the semaphore while there is a unit,   *)
(* and its starts bound the units.                                         *)
THEOREM UnitsKeptCorrect == Spec => []UnitsKept
<1>1. Sem!NoneSleepsInVain /\ Sem!UnitsBounded => UnitsKept
  BY DEF UnitsKept
<1> QED BY <1>1, SemCorrect, PTL

(* sem_PV_handler, one instance at a time, implements a lock.              *)
THEOREM LockCorrect == Spec => LockSpec
BY SemCorrect, PTL DEF LockSpec

(* mmap_read is killed only if it opened the file before it had a length.  *)
THEOREM KilledOnlyAtCreationCorrect == Spec => []KilledOnlyAtCreation
<1>1. MapInv => KilledOnlyAtCreation
  BY DEF MapInv, KilledOnlyAtCreation
<1> QED BY <1>1, MapCorrect, PTL

(* msgqueue_send and msgqueue_recv: lines come out in the order they were  *)
(* put in, and each one that does not is accounted for.                    *)
THEOREM LinesAccountedCorrect == Spec => []LinesAccounted
<1>1. MsgState /\ MsgOrder /\ MsgEnds /\ MsgLoss => LinesAccounted
  BY MsgProperties DEF LinesAccounted
<1> QED BY <1>1, MsgCorrect, PTL

(* proc_register_init forks one child per index and outlives them, and the *)
(* parent of channel takes the end of the pipe for a dead child's only.    *)
THEOREM ChildrenHeardCorrect == Spec => []ChildrenHeard
<1>1. SubInv /\ PipInv => ChildrenHeard
  BY SubProperties, PipProperty DEF ChildrenHeard
<1> QED BY <1>1, SubCorrect, PipCorrect, PTL

(* A signal that kills main_dump's program has had its trace printed, and  *)
(* SIGINT does not kill sig_handler's, unless malloc was interrupted.      *)
THEOREM TracedBeforeDeathCorrect == Spec => []TracedBeforeDeath
<1>1. SigInv => TracedBeforeDeath
  BY DEF SigInv, TracedBeforeDeath
<1> QED BY <1>1, SigCorrect, PTL
=============================================================================
