----------------------------- MODULE BufferPool -----------------------------
(***************************************************************************)
(* The pool of ring buffers (ringbuffer/pool.go): Get and Put, called by   *)
(* every loop and by the accepting goroutine at once, the counters of how  *)
(* many buffers of each size come back, and calibrate, which turns them    *)
(* into the size of new buffers and the largest size worth keeping.        *)
(*                                                                         *)
(* Sizes are classes: class i stands for the lengths that index() maps to  *)
(* i, of which 2^(6+i) is the largest; class Steps for lengths above the   *)
(* last of them.  Size 0 (defaultSize or maxSize not set yet) is Unset.    *)
(*                                                                         *)
(* What is in a buffer is left out: Put empties it before pool.Put.        *)
(*                                                                         *)
(* pc[u], a goroutine in Get or Put: "idle"; in Put "count" before the     *)
(*   AddUint64, "limit" before maxSize is loaded, "give" before Reset and  *)
(*   pool.Put; in calibrate "cas", "swap", "sort", "default", "max" and    *)
(*   "open", before the step of that name.                                 *)
(* cal[u], the locals of calibrate: next counter to swap, sizes taken so   *)
(*   far, and the default and maximum size worked out from them.           *)
(***************************************************************************)
EXTENDS Integers, Sequences, FiniteSets, FiniteSetsExt, Functions, SequencesExt

CONSTANTS
  Users,      \* goroutines
  Bufs,       \* ring buffers
  Steps,      \* number of size classes
  Threshold,  \* calibrateCallsThreshold
  PctNum,     \* maxPercentile, as PctNum / PctDen
  PctDen,
  MaxPuts     \* bound on the calls of Put

ASSUME BufferPoolAssumption ==
  /\ IsFiniteSet(Users)
  /\ Steps \in Nat \ {0} /\ Threshold \in Nat /\ MaxPuts \in Nat
  /\ PctNum \in Nat /\ PctDen \in Nat \ {0} /\ PctNum <= PctDen

Classes == 0 .. Steps - 1
Unset == -1

VARIABLES
  calls,        \* Pool.calls
  calibrating,  \* Pool.calibrating
  defaultSize,  \* Pool.defaultSize
  maxSize,      \* Pool.maxSize
  where,        \* of each buffer: "none", "pool", or the user who has it
  size,         \* class of each buffer's length
  pc, cal,      \* see above
  puts,         \* buffers counted by AddUint64 so far, in each class
  settled,      \* calls taken by the calibrations that are over
  last          \* what the calibration that set defaultSize had counted

poolVars == <<calls, calibrating, defaultSize, maxSize>>
bufVars == <<where, size>>
userVars == <<pc, cal>>
histVars == <<puts, settled, last>>
vars == <<poolVars, bufVars, userVars, histVars>>

Zero == [i \in Classes |-> 0]
NoCal == [i |-> 0, taken |-> Zero, default |-> 0, max |-> 0]

Init ==
  /\ calls = Zero /\ calibrating = 0
  /\ defaultSize = Unset /\ maxSize = Unset
  /\ where = [b \in Bufs |-> "none"]
  /\ size = [b \in Bufs |-> 0]
  /\ pc = [u \in Users |-> "idle"]
  /\ cal = [u \in Users |-> NoCal]
  /\ puts = Zero /\ settled = Zero /\ last = Zero

Has(u, b) == where[b] = u

Goto(u, place) == pc' = [pc EXCEPT ![u] = place]
-----------------------------------------------------------------------------
(* The owner of a buffer, and the garbage collector *)

(* Get: any buffer of the pool; or a new one, as sync.Pool may find nothing *)
(* even while another processor's share of it is not empty.                 *)
Get(u) ==
  /\ pc[u] = "idle" /\ \A b \in Bufs : ~Has(u, b)
  /\ \E b \in Bufs :
       /\ where[b] \in {"pool", "none"}
       /\ where' = [where EXCEPT ![b] = u]
       /\ size' = IF where[b] = "pool" THEN size
                  ELSE [size EXCEPT ![b] = IF defaultSize = Unset THEN 0 ELSE defaultSize]
  /\ UNCHANGED <<poolVars, userVars, histVars>>

(* A connection writes more than fits to its buffer, which never shrinks. *)
Grow(u) ==
  /\ pc[u] = "idle"
  /\ \E b \in Bufs :
       /\ Has(u, b)
       /\ \E s \in size[b] + 1 .. Steps : size' = [size EXCEPT ![b] = s]
  /\ UNCHANGED <<poolVars, where, userVars, histVars>>

(* sync.Pool lets go of its buffers in a garbage collection. *)
Collect(b) ==
  /\ where[b] = "pool"
  /\ where' = [where EXCEPT ![b] = "none"]
  /\ UNCHANGED <<poolVars, size, userVars, histVars>>
-----------------------------------------------------------------------------
(* Put *)

(* index: everything longer than the last class belongs to it. *)
index(s) == IF s = Steps THEN Steps - 1 ELSE s

CallPut(u) ==
  /\ pc[u] = "idle" /\ \E b \in Bufs : Has(u, b)
  /\ SumFunction(puts) + Cardinality({v \in Users : pc[v] = "count"}) < MaxPuts
  /\ Goto(u, "count")
  /\ UNCHANGED <<poolVars, bufVars, cal, histVars>>

Count(u) ==
  /\ pc[u] = "count"
  /\ \E b \in Bufs :
       /\ Has(u, b)
       /\ LET i == index(size[b])
          IN /\ calls' = [calls EXCEPT ![i] = @ + 1]
             /\ puts' = [puts EXCEPT ![i] = @ + 1]
             /\ Goto(u, IF calls[i] + 1 > Threshold THEN "cas" ELSE "limit")
  /\ UNCHANGED <<calibrating, defaultSize, maxSize, bufVars, cal, settled, last>>

(* A buffer that is too long is left to the garbage collector. *)
LoadLimit(u) ==
  /\ pc[u] = "limit"
  /\ \E b \in Bufs :
       /\ Has(u, b)
       /\ IF maxSize = Unset \/ size[b] <= maxSize
          THEN Goto(u, "give") /\ UNCHANGED where
          ELSE Goto(u, "idle") /\ where' = [where EXCEPT ![b] = "none"]
  /\ UNCHANGED <<poolVars, size, cal, histVars>>

(* b.Reset() and pool.Put. *)
Give(u) ==
  /\ pc[u] = "give"
  /\ where' = [b \in Bufs |-> IF Has(u, b) THEN "pool" ELSE where[b]]
  /\ Goto(u, "idle")
  /\ UNCHANGED <<poolVars, size, cal, histVars>>
-----------------------------------------------------------------------------
(* calibrate *)

(* Mutant: calibrating is set without a look at what it was. *)
CasUnchecked(u) ==
  /\ pc[u] = "cas"
  /\ calibrating' = 1 /\ Goto(u, "swap")
  /\ UNCHANGED <<calls, defaultSize, maxSize, bufVars, cal, histVars>>

Cas(u) ==
  /\ pc[u] = "cas"
  /\ IF calibrating = 0 THEN calibrating' = 1 /\ Goto(u, "swap")
     ELSE UNCHANGED calibrating /\ Goto(u, "limit")
  /\ UNCHANGED <<calls, defaultSize, maxSize, bufVars, cal, histVars>>

(* Mutant: the counter is read but not set to 0. *)
SwapCallsReads(u) ==
  /\ pc[u] = "swap"
  /\ LET i == cal[u].i
     IN /\ cal' = [cal EXCEPT ![u].taken[i] = calls[i], ![u].i = i + 1]
        /\ Goto(u, IF i + 1 < Steps THEN "swap" ELSE "sort")
  /\ UNCHANGED <<poolVars, bufVars, histVars>>

(* One counter after the other, while other goroutines count on. *)
SwapCalls(u) ==
  /\ pc[u] = "swap"
  /\ LET i == cal[u].i
     IN /\ calls' = [calls EXCEPT ![i] = 0]
        /\ cal' = [cal EXCEPT ![u].taken[i] = calls[i], ![u].i = i + 1]
        /\ Goto(u, IF i + 1 < Steps THEN "swap" ELSE "sort")
  /\ UNCHANGED <<calibrating, defaultSize, maxSize, bufVars, histVars>>

MaxSum(taken) == (SumFunction(taken) * PctNum) \div PctDen

(* The sizes the loop of lines 101-111 goes through before it breaks. *)
Kept(taken, order) ==
  {order[k] : k \in {j \in DOMAIN order :
     SumFunctionOnSet(taken, {order[m] : m \in 1 .. j - 1}) <= MaxSum(taken)}}

(* sort.Sort is not stable: sizes with equal counts come in any order. *)
Sort(u) ==
  /\ pc[u] = "sort"
  /\ LET taken == cal[u].taken
     IN \E order \in SetToSeqs(Classes) :
          /\ \A j, k \in DOMAIN order : j < k => taken[order[j]] >= taken[order[k]]
          /\ cal' = [cal EXCEPT ![u].default = order[1],
                                ![u].max = Max(Kept(taken, order))]
  /\ Goto(u, "default")
  /\ UNCHANGED <<poolVars, bufVars, histVars>>

StoreDefault(u) ==
  /\ pc[u] = "default"
  /\ defaultSize' = cal[u].default
  /\ last' = cal[u].taken
  /\ Goto(u, "max")
  /\ UNCHANGED <<calls, calibrating, maxSize, bufVars, cal, puts, settled>>

StoreMax(u) ==
  /\ pc[u] = "max"
  /\ maxSize' = cal[u].max
  /\ Goto(u, "open")
  /\ UNCHANGED <<calls, calibrating, defaultSize, bufVars, cal, histVars>>

Open(u) ==
  /\ pc[u] = "open"
  /\ calibrating' = 0
  /\ settled' = [i \in Classes |-> settled[i] + cal[u].taken[i]]
  /\ cal' = [cal EXCEPT ![u] = NoCal]
  /\ Goto(u, "limit")
  /\ UNCHANGED <<calls, defaultSize, maxSize, bufVars, puts, last>>

Next ==
  \/ \E u \in Users :
       \/ Get(u) \/ Grow(u)
       \/ CallPut(u) \/ Count(u) \/ LoadLimit(u) \/ Give(u)
       \/ Cas(u) \/ SwapCalls(u) \/ Sort(u) \/ StoreDefault(u) \/ StoreMax(u) \/ Open(u)
  \/ \E b \in Bufs : Collect(b)

Spec == Init /\ [][Next]_vars
-----------------------------------------------------------------------------
TypeOK ==
  /\ calls \in [Classes -> 0 .. MaxPuts] /\ calibrating \in {0, 1}
  /\ {defaultSize, maxSize} \subseteq {Unset} \cup Classes
  /\ where \in [Bufs -> {"none", "pool"} \cup Users]
  /\ size \in [Bufs -> 0 .. Steps]
  /\ pc \in [Users -> {"idle", "count", "limit", "give", "cas", "swap", "sort",
                        "default", "max", "open"}]
  /\ cal \in [Users -> [i : 0 .. Steps, taken : [Classes -> 0 .. MaxPuts],
                        default : Classes, max : Classes]]
  /\ {puts, settled, last} \subseteq [Classes -> 0 .. MaxPuts]

(* Every Put is counted in exactly one calibration, or is still counted in  *)
(* calls, although counters are taken one by one while others count and     *)
(* several goroutines pass the threshold at once (lines 69-71 and 81-94).   *)
EachPutCounted ==
  \A i \in Classes :
    puts[i] = calls[i] + settled[i]
                + SumFunction([u \in Users |-> cal[u].taken[i]])

(* Outside a calibration the two sizes belong together, although they are   *)
(* stored one after the other: they come from the same counts, defaultSize  *)
(* is the size that came back most often, and the buffers that Put keeps    *)
(* are more than maxPercentile of what was counted, or all of it (lines     *)
(* 85-116).                                                                 *)
CalibratedRight ==
  calibrating = 0 /\ defaultSize # Unset =>
    /\ maxSize # Unset /\ defaultSize <= maxSize
    /\ \A i \in Classes : last[i] <= last[defaultSize]
    /\ LET kept == SumFunctionOnSet(last, 0 .. maxSize)
       IN kept > MaxSum(last) \/ kept = SumFunction(last)
=============================================================================
