-------------------------------- MODULE Stat ---------------------------------
(***************************************************************************)
(* The traffic counter of freconn/stat.go, which every connection adds to  *)
(* (freconn/freconn.go), a ticker reads, and the library resets, all       *)
(* without a lock: each load and each store is a step of its own, but for  *)
(* the two stores of in1's own Reset (rx, then bandwidthRx, which nothing   *)
(* loads to compute with).  Only the receiving side and the interval of    *)
(* one second are here; sending and the ten seconds repeat them.           *)
(***************************************************************************)
EXTENDS Naturals

CONSTANTS
    MaxTraffic, \* bound: what they receive in all
    Word        \* 2^64

VARIABLES
    Rx,      \* the counter
    in1,     \* the ticker's rx and bandwidthRx
    adding,  \* how many AddRx have loaded each value of the counter, and will
             \* store the sum
    ticking, \* the ticker: where it stands, and what it holds in a register
    traffic, \* history: what was received since NewStat
    fell     \* history: Rx has gone down since the last undisturbed Reset

statVars == <<Rx, in1, adding, ticking, traffic, fell>>

Values == 0..(Word - 1)

StatInit ==
    /\ Rx = 0
    /\ in1 = [rx |-> 0, bandwidthRx |-> 0]
    /\ adding = [v \in Values |-> 0]
    /\ ticking = [step |-> "wait", reg |-> 0]
    /\ traffic = 0
    /\ fell = FALSE

StatTypeOK ==
    /\ Rx \in Values
    /\ in1 \in [rx : Values, bandwidthRx : Values]
    /\ adding \in [Values -> Nat]
    /\ ticking \in [step : {"wait", "new", "old", "sub", "again", "store"},
                    reg : Values]
    /\ traffic \in 0..MaxTraffic
    /\ fell \in BOOLEAN

----------------------------------------------------------------------------

\* Conn.Read or PacketConn.ReadFrom has returned; AddRx loads Rx.
AddLoad ==
    /\ traffic < MaxTraffic
    /\ adding' = [adding EXCEPT ![Rx] = @ + 1]
    /\ traffic' = traffic + 1
    /\ UNCHANGED <<Rx, in1, ticking, fell>>

\* AddRx stores the sum; what others have added meanwhile is lost.
AddStore(loaded) ==
    /\ adding[loaded] > 0
    /\ adding' = [adding EXCEPT ![loaded] = @ - 1]
    /\ Rx' = (loaded + 1) % Word
    /\ fell' = (fell \/ Rx' < Rx)
    /\ UNCHANGED <<in1, ticking, traffic>>

\* RunBandwidthIn1 loads the count of a second ago and the new one, in the
\* order the compiler likes, stores their difference, and then loads the
\* counter again, which may have grown since, to keep it.
Load(from, to, value) ==
    /\ ticking.step = from
    /\ ticking' = [step |-> to, reg |-> value]
    /\ UNCHANGED <<Rx, in1, adding, traffic, fell>>

TickLoad ==
    \/ Load("wait", "new", in1.rx)
    \/ Load("new", "sub", (Rx + Word - ticking.reg) % Word)
    \/ Load("wait", "old", Rx)
    \/ Load("old", "sub", (ticking.reg + Word - in1.rx) % Word)
    \/ Load("again", "store", Rx)

TickSub ==
    /\ ticking.step = "sub"
    /\ in1' = [in1 EXCEPT !.bandwidthRx = ticking.reg]
    /\ ticking' = [step |-> "again", reg |-> 0]
    /\ UNCHANGED <<Rx, adding, traffic, fell>>

TickStore ==
    /\ ticking.step = "store"
    /\ in1' = [in1 EXCEPT !.rx = ticking.reg]
    /\ ticking' = [step |-> "wait", reg |-> 0]
    /\ UNCHANGED <<Rx, adding, traffic, fell>>

StatNext ==
    \/ AddLoad \/ \E loaded \in Values : AddStore(loaded)
    \/ TickLoad \/ TickSub \/ TickStore

\* Reset, in two steps of whoever calls it.
ResetRx ==
    /\ Rx' = 0
    /\ fell' = (fell \/ Rx > 0)
    /\ UNCHANGED <<in1, adding, ticking, traffic>>

\* Mutant: the ticker's own count is not reset.
ResetIn1_KeepsRx ==
    /\ in1' = [in1 EXCEPT !.bandwidthRx = 0]
    /\ fell' = (ticking.step # "wait")
    /\ UNCHANGED <<Rx, adding, ticking, traffic>>

ResetIn1 ==
    /\ in1' = [rx |-> 0, bandwidthRx |-> 0]
    /\ fell' = (ticking.step # "wait")
    /\ UNCHANGED <<Rx, adding, ticking, traffic>>

----------------------------------------------------------------------------
(* Properties. *)

\* Updates can be lost, and resets undone, but what GetRx reports is never
\* more than what was received (stat.go:82, :104).  Nor is the bandwidth of
\* the last second, that is, the difference of stat.go:58 does not wrap,
\* unless the counter has gone down under the ticker: by an update that was
\* lost to an older one, or by a Reset that came while the ticker was at work.
CountsAreReceived ==
    /\ Rx <= traffic
    /\ ~fell => in1.bandwidthRx <= traffic
=============================================================================
