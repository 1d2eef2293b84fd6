------------------------------ MODULE Collect ------------------------------
(***************************************************************************)
(* thread_collect and collect of src/src/collectData.c: the main thread    *)
(* appends blocks to g_collBuf.data while a second thread, once a second,  *)
(* writes what is there to a file; both count down the same counter.       *)
(*                                                                         *)
(* Nothing synchronises the two.  An action is one access to g_collBuf,    *)
(* so a decrement is a load and a store.  count is a UINT32; here it has   *)
(* WIDTH bits.  len is counted in blocks of 80 bytes.                      *)
(***************************************************************************)
EXTENDS Integers

CONSTANTS
    N,            \* the count collect is called with: 3
    WIDTH,        \* bound: bits of count
    DataBlocks    \* blocks that fit in data

(* data has 1000 bytes, in which the blocks of the bound proved below fit. *)
CollectAssumption ==
    /\ N \in Nat \ {0} /\ WIDTH \in Nat /\ 2 ^ WIDTH \in Nat /\ N < 2 ^ WIDTH
    /\ DataBlocks \in Nat /\ N * (N + 1) <= 2 * DataBlocks

VARIABLES
    count, len,       \* g_collBuf
    copied,           \* blocks of data that are filled
    tpc, tload,       \* the thread: where it is, what it loaded from count
    mpc, mload,       \* the main thread, likewise
    logged,           \* blocks of data written to the file in one go, the last time
    wrapped           \* some decrement of count was one of 0

shared == <<count, len, copied>>
thread == <<tpc, tload, logged>>
main == <<mpc, mload>>
vars == <<shared, thread, main, wrapped>>

Signed(n) == n - 1                                               \* a bug
Kept(n) == n                                                     \* a bug
Minus1(n) == IF n = 0 THEN 2 ^ WIDTH - 1 ELSE n - 1

(* thread_collect has created the thread; g_collBuf is zero.               *)
Init ==
    /\ count = 0 /\ len = 0 /\ copied = 0
    /\ tpc = "open" /\ tload = 0 /\ logged = 0
    /\ mpc = "poll" /\ mload = 0
    /\ wrapped = FALSE

-----------------------------------------------------------------------------
(* collect, with type eCollect_noise                                       *)

Open ==
    /\ tpc = "open"
    /\ \/ tpc' = "loop" /\ count' = N
       \/ tpc' = "done" /\ UNCHANGED count         \* fopen fails
    /\ UNCHANGED <<len, copied, tload, logged, main, wrapped>>

Loop ==
    /\ tpc = "loop"
    /\ tpc' = IF count # 0 THEN "sleep" ELSE "done"
    /\ UNCHANGED <<shared, tload, logged, main, wrapped>>

(* After the sleep: the callback is called if there is anything.           *)
Wake ==
    /\ tpc = "sleep"
    /\ tpc' = IF len > 0 THEN "write" ELSE "load"
    /\ UNCHANGED <<shared, tload, logged, main, wrapped>>

collectNoise ==
    /\ tpc = "write" /\ tpc' = "load"
    /\ logged' = len
    /\ UNCHANGED <<shared, tload, main, wrapped>>

Load ==
    /\ tpc = "load" /\ tpc' = "store"
    /\ tload' = count
    /\ UNCHANGED <<shared, logged, main, wrapped>>

Store ==
    /\ tpc = "store" /\ tpc' = "check"
    /\ count' = Minus1(tload)
    /\ wrapped' = (wrapped \/ tload = 0)
    /\ UNCHANGED <<len, copied, tload, logged, main>>

Check ==
    /\ tpc = "check"
    /\ tpc' = IF count = 0 THEN "done" ELSE "loop"
    /\ UNCHANGED <<shared, tload, logged, main, wrapped>>

-----------------------------------------------------------------------------
(* the loop of thread_collect                                              *)

(* The order of the accesses up to the decrement: data before len.         *)
LenFirst == [poll |-> "len", len |-> "copy", copy |-> "load"]    \* a bug
After == [poll |-> "copy", copy |-> "len", len |-> "load"]

(* While count is 0 the main thread spins here.                            *)
MainPolls ==
    /\ mpc = "poll" /\ count > 0
    /\ mpc' = After["poll"]
    /\ UNCHANGED <<shared, thread, mload, wrapped>>

(* Behind data, memory of the program is overwritten: nothing is defined.  *)
MainCopies ==
    /\ mpc = "copy"
    /\ IF len < DataBlocks THEN copied' = len + 1 /\ mpc' = After["copy"]
                           ELSE mpc' = "overrun" /\ UNCHANGED copied
    /\ UNCHANGED <<count, len, thread, mload, wrapped>>

MainAddsLen ==
    /\ mpc = "len" /\ mpc' = After["len"]
    /\ len' = len + 1
    /\ UNCHANGED <<count, copied, thread, mload, wrapped>>

MainLoads ==
    /\ mpc = "load" /\ mpc' = "store"
    /\ mload' = count
    /\ UNCHANGED <<shared, thread, wrapped>>

MainStores ==
    /\ mpc = "store" /\ mpc' = "check"
    /\ count' = Minus1(mload)
    /\ wrapped' = (wrapped \/ mload = 0)
    /\ UNCHANGED <<len, copied, thread, mload>>

MainChecks ==
    /\ mpc = "check"
    /\ mpc' = IF count = 0 THEN "join" ELSE "poll"
    /\ UNCHANGED <<shared, thread, mload, wrapped>>

MainJoins ==
    /\ mpc = "join" /\ tpc = "done" /\ mpc' = "done"
    /\ UNCHANGED <<shared, thread, mload, wrapped>>

-----------------------------------------------------------------------------
Thread == Open \/ Loop \/ Wake \/ collectNoise \/ Load \/ Store \/ Check
Main == \/ MainPolls \/ MainCopies \/ MainAddsLen \/ MainLoads \/ MainStores
        \/ MainChecks \/ MainJoins

Runs == mpc # "overrun"
Next == Runs /\ (Thread \/ Main)

Spec == Init /\ [][Next]_vars
(* Both threads are scheduled.                                             *)
FairSpec == Spec /\ WF_vars(Runs /\ Thread) /\ WF_vars(Runs /\ Main)

-----------------------------------------------------------------------------
(* Each thread is at one known point, and the fields are in range.         *)
TypeOK ==
    /\ count \in 0 .. 2 ^ WIDTH - 1 /\ tload \in 0 .. 2 ^ WIDTH - 1 /\ mload \in 0 .. 2 ^ WIDTH - 1
    /\ len \in 0 .. DataBlocks /\ copied \in 0 .. DataBlocks /\ logged \in 0 .. DataBlocks
    /\ tpc \in {"open", "loop", "sleep", "write", "load", "store", "check", "done"}
    /\ mpc \in {"poll", "copy", "len", "load", "store", "check", "join", "overrun", "done"}
    /\ wrapped \in BOOLEAN

(* Although nothing synchronises them, the thread never writes a block to  *)
(* the file that the main thread has not filled: len follows the copy.     *)
LoggedWasCopied == logged <= copied /\ len <= copied

(* A decrement that is lost to the other thread's makes the main thread    *)
(* append more blocks than N.  As long as no decrement finds the counter   *)
(* at 0, they are still few, and the buffer holds them.                    *)
BlocksBounded == ~ wrapped => 2 * len <= N * (N + 1) /\ mpc # "overrun"

(* As long as no decrement finds the counter at 0, collect ends, whatever  *)
(* the main thread does to the counter meanwhile.                          *)
CollectEnds == <>(tpc = "done" \/ wrapped)
=============================================================================
