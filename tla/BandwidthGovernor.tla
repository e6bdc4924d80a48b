-------------------------- MODULE BandwidthGovernor --------------------------
(***************************************************************************)
(* src/transport/bandwidth.py, with the classification of links it relies  *)
(* on (src/transport/detector.py), for one peer: the bytes sent and        *)
(* received are counted over the last seconds, and a transfer is checked   *)
(* against the link's budget before it begins.                             *)
(*                                                                         *)
(* Every public method runs on whatever thread calls it.  _lock covers one *)
(* access to the tables, a bucket's own lock one access to its samples;    *)
(* a step is what a thread does under one of them.  Time passes in between.*)
(***************************************************************************)
EXTENDS Integers, Sequences, FiniteSets

LOCAL INSTANCE FiniteSetsExt

CONSTANTS
    Callers,        \* threads that use the governor
    Speeds,         \* bits per second that RNS or an interface reports, 0: none
    Sizes,          \* bytes recorded at a time, or of a file to transfer
    Window,         \* WINDOW_SECONDS
    MaxNow,         \* bound: seconds
    MaxCalls        \* bound: calls of each caller

ASSUME GovernorAssumption ==
    /\ Speeds \subseteq Nat
    /\ Sizes \subseteq Nat
    /\ Window \in Nat \ {0}
    /\ MaxNow \in Nat
    /\ MaxCalls \in [Callers -> Nat]

Categories == {"messaging", "bulk"}

Sample == [at : Nat, bytes : Nat, category : Categories]

\* bucket: is about to look its bucket up; use: has it, and will lock it; store:
\* knows the warning, and will note it in the table.
Call == [op : {"none", "record", "check", "stats"}, at : {"idle", "bucket", "use", "store"},
         bucket : Nat, sample : Sample, interface : Nat,
         slow : BOOLEAN, saturated : BOOLEAN]

VARIABLES
    now,            \* time.monotonic()
    buckets,        \* the samples of every _PeerBucket made so far
    bucket,         \* the one in _buckets, 0: none
    warned,         \* the peer's entry in _active_warnings: its reasons, {}: none
    calls,          \* what each caller does
    made,           \* calls made so far
    recorded,       \* ghost: everything recorded in each bucket
    removals        \* ghost: calls of remove_peer()

governorVars == <<now, buckets, bucket, warned, calls, made, recorded, removals>>

NoCall == [op |-> "none", at |-> "idle", bucket |-> 0,
           sample |-> [at |-> 0, bytes |-> 0, category |-> "bulk"],
           interface |-> 0, slow |-> FALSE, saturated |-> FALSE]

GovernorInit ==
    /\ now = 0
    /\ buckets = <<>>
    /\ bucket = 0
    /\ warned = {}
    /\ calls = [t \in Callers |-> NoCall]
    /\ made = [t \in Callers |-> 0]
    /\ recorded = <<>>
    /\ removals = 0

-----------------------------------------------------------------------------
(* The link: its tier, and whether a file is too large for it.             *)

FastBps == 1000000
MediumBps == 62500
SlowLinkWarnSeconds == 30

\* The more pessimistic of the two rates that are known.
EffectiveRate(expected, interface) ==
    IF {expected, interface} \ {0} = {} THEN 0 ELSE Min({expected, interface} \ {0})

Tier(bps) ==
    CASE bps = 0                           -> "offline"
      [] bps >= FastBps                    -> "fast"
      [] bps >= MediumBps /\ bps < FastBps -> "medium"
      [] bps > 0 /\ bps < MediumBps        -> "slow"

\* With the bulk budget, 70 % of the rate, the file takes too long.
WarnSlow(bps, file) == Tier(bps) = "slow" /\ file * 8 * 10 > 7 * bps * SlowLinkWarnSeconds

\* The rate over the window exceeds 70 % of what the interface can do.
AboveCeiling(bytes, interface) == interface > 0 /\ bytes * 8 * 10 > 7 * interface * Window

-----------------------------------------------------------------------------
(* A bucket.                                                               *)

\* The samples are dropped from the left up to the first that is recent.
Evict(samples) ==
    LET fresh == {i \in DOMAIN samples : samples[i].at >= now - Window} IN
    IF fresh = {} THEN <<>> ELSE SubSeq(samples, Min(fresh), Len(samples))

Total(counts) ==
    LET sum[n \in 0 .. Len(counts)] == IF n = 0 THEN 0 ELSE sum[n - 1] + counts[n]
    IN  sum[Len(counts)]

Bytes(samples, category) ==
    Total([i \in DOMAIN samples |-> IF samples[i].category = category THEN samples[i].bytes ELSE 0])

-----------------------------------------------------------------------------
(* Calls.                                                                  *)

Becomes(t, r) == calls' = [calls EXCEPT ![t] = r]

Enters(t, r) ==
    /\ calls[t].at = "idle"
    /\ made[t] < MaxCalls[t]
    /\ made' = [made EXCEPT ![t] = @ + 1]
    /\ Becomes(t, r)
    /\ UNCHANGED <<now, buckets, bucket, warned, recorded, removals>>

Returns(t) == Becomes(t, NoCall)

RecordTransfer(t) ==
    \E n \in Sizes, category \in Categories :
        Enters(t, [NoCall EXCEPT !.op = "record", !.at = "bucket",
                                 !.sample = [at |-> now, bytes |-> n, category |-> category]])

\* check_transfer of a link just classified.  Where there is no path it returns
\* at once, and the warning noted before stays.
CheckTransfer(t) ==
    \E expected, interface \in Speeds, file \in Sizes :
        LET bps == EffectiveRate(expected, interface) IN
        Enters(t, IF Tier(bps) = "offline" THEN NoCall
                  ELSE [NoCall EXCEPT !.op = "check", !.at = "bucket",
                                      !.interface = interface, !.slow = WarnSlow(bps, file)])

\* The peer is among the keys get_stats has copied.
GetStats(t) == bucket # 0 /\ Enters(t, [NoCall EXCEPT !.op = "stats", !.at = "bucket"])

\* Seeded fault: the lock is not held from the look into the table to the
\* insertion, so that two callers may each make a bucket.
GetBucketUnlocked(t) ==
    /\ calls[t].at = "bucket"
    /\ \/ /\ bucket # 0
          /\ Becomes(t, [calls[t] EXCEPT !.at = "use", !.bucket = bucket])
          /\ UNCHANGED <<buckets, bucket, recorded>>
       \/ /\ bucket = 0 \/ \E u \in Callers \ {t} : calls[u].at = "use"
          /\ buckets' = Append(buckets, <<>>)
          /\ recorded' = Append(recorded, <<>>)
          /\ bucket' = Len(buckets')
          /\ Becomes(t, [calls[t] EXCEPT !.at = "use", !.bucket = bucket'])
    /\ UNCHANGED <<now, warned, made, removals>>

\* _bucket: made when it is not there, by get_stats as well.
GetBucket(t) ==
    /\ calls[t].at = "bucket"
    /\ \/ /\ bucket # 0
          /\ Becomes(t, [calls[t] EXCEPT !.at = "use", !.bucket = bucket])
          /\ UNCHANGED <<buckets, bucket, recorded>>
       \/ /\ bucket = 0
          /\ buckets' = Append(buckets, <<>>)
          /\ recorded' = Append(recorded, <<>>)
          /\ bucket' = Len(buckets')
          /\ Becomes(t, [calls[t] EXCEPT !.at = "use", !.bucket = bucket'])
    /\ UNCHANGED <<now, warned, made, removals>>

Using(t, op) == calls[t].at = "use" /\ calls[t].op = op

\* Seeded fault: the sample is stamped before the bucket's lock is taken.
StampEarly(t) == calls[t].sample

\* Under the lock.
Stamp(t) == [calls[t].sample EXCEPT !.at = now]

Record(t) ==
    LET b == calls[t].bucket IN
    /\ Using(t, "record")
    /\ recorded' = [recorded EXCEPT ![b] = Append(@, Stamp(t))]
    /\ buckets' = [buckets EXCEPT ![b] = Evict(Append(@, Stamp(t)))]
    /\ Returns(t)
    /\ UNCHANGED <<now, bucket, warned, made, removals>>

\* check_transfer reads the bulk rate; get_stats reads all of them.
ReadRate(t) ==
    LET b == calls[t].bucket IN
    /\ Using(t, "check")
    /\ buckets' = [buckets EXCEPT ![b] = Evict(@)]
    /\ Becomes(t, [calls[t] EXCEPT !.at = "store",
                     !.saturated = AboveCeiling(Bytes(buckets'[b], "bulk"), calls[t].interface)])
    /\ UNCHANGED <<now, bucket, warned, made, recorded, removals>>

ReadStats(t) ==
    LET b == calls[t].bucket IN
    /\ Using(t, "stats")
    /\ buckets' = [buckets EXCEPT ![b] = Evict(@)]
    /\ Returns(t)
    /\ UNCHANGED <<now, bucket, warned, made, recorded, removals>>

\* The warning is noted, or the one that was is dropped.
StoreWarning(t) ==
    /\ calls[t].at = "store"
    /\ warned' = (IF calls[t].slow THEN {"slow"} ELSE {})
                   \cup (IF calls[t].saturated THEN {"saturated"} ELSE {})
    /\ Returns(t)
    /\ UNCHANGED <<now, buckets, bucket, made, recorded, removals>>

\* Seeded fault: the buckets are emptied, whoever is about to use one.
RemoveBuckets(t) ==
    /\ calls[t].at = "idle"
    /\ made[t] < MaxCalls[t]
    /\ made' = [made EXCEPT ![t] = @ + 1]
    /\ bucket' = 0
    /\ buckets' = <<>>
    /\ recorded' = <<>>
    /\ warned' = {}
    /\ removals' = removals + 1
    /\ UNCHANGED <<now, calls>>

\* Threads that have looked the bucket up go on using it.
RemovePeer(t) ==
    /\ calls[t].at = "idle"
    /\ made[t] < MaxCalls[t]
    /\ made' = [made EXCEPT ![t] = @ + 1]
    /\ bucket' = 0
    /\ warned' = {}
    /\ removals' = removals + 1
    /\ UNCHANGED <<now, buckets, calls, recorded>>

Tick ==
    /\ now < MaxNow
    /\ now' = now + 1
    /\ UNCHANGED <<buckets, bucket, warned, calls, made, recorded, removals>>

GovernorNext ==
    \/ Tick
    \/ \E t \in Callers :
          \/ RecordTransfer(t) \/ CheckTransfer(t) \/ GetStats(t) \/ RemovePeer(t)
          \/ GetBucket(t) \/ Record(t) \/ ReadRate(t) \/ ReadStats(t) \/ StoreWarning(t)

GovernorSpec == GovernorInit /\ [][GovernorNext]_governorVars

-----------------------------------------------------------------------------
(* Properties.                                                             *)

GovernorTypeOK ==
    /\ now \in 0 .. MaxNow
    /\ buckets \in Seq(Seq(Sample))
    /\ bucket \in 0 .. Len(buckets)
    /\ warned \subseteq {"slow", "saturated"}
    /\ calls \in [Callers -> Call]
    /\ \A t \in Callers : calls[t].at = "use" => calls[t].bucket \in 1 .. Len(buckets)
    /\ recorded \in Seq(Seq(Sample)) /\ Len(recorded) = Len(buckets)
    /\ removals \in Nat

RecentBulk(b) ==
    LET since == [i \in DOMAIN recorded[b] |->
                     IF recorded[b][i].at >= now - Window /\ recorded[b][i].category = "bulk"
                       THEN recorded[b][i].bytes ELSE 0]
    IN  Total(since)

\* However the threads that record and read a bucket interleave and whenever it
\* was cleaned up last, check_transfer takes the link for saturated exactly when
\* what was recorded there during the window exceeds the ceiling: nothing
\* recent has been dropped, nothing old counts.
SaturationIsExact ==
    [][\A t \in Callers :
          calls[t].at = "use" /\ calls'[t].at = "store" =>
              calls'[t].saturated
                  = AboveCeiling(RecentBulk(calls[t].bucket), calls[t].interface)]_governorVars

\* As long as the peer is not removed there is one bucket for it, so that no
\* thread's bytes escape the others (_bucket).
OneBucketPerPeer == Len(buckets) <= 1 + removals
=============================================================================
