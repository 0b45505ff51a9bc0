----------------------------- MODULE SystemInfo -----------------------------
(***************************************************************************)
(* getSystemCPUPercent (web_server_simple.cpp): the share of CPU time the  *)
(* host was busy between two requests, of whichever clients.  The counters *)
(* of /proc/stat only grow, but for iowait, which the kernel may take      *)
(* back.  Differences are of unsigned longs: a negative one stands for a   *)
(* number near 2^64.  The memory figures of the same answer are read and   *)
(* written out, and are left out.                                          *)
(***************************************************************************)
EXTENDS Integers

CONSTANTS MaxTicks,  \* bound on the CPU time of a behaviour
          StatFaults     \* whether the read of /proc/stat may fail

ASSUME SystemInfoAssumption ==
    MaxTicks \in Nat \ {0} /\ StatFaults \in BOOLEAN

VARIABLES busy, idle,             \* /proc/stat; idle includes iowait
          prev_total, prev_idle,  \* the counters at the last request
          share,                  \* the answer: idle time, of total time
          receded,                \* iowait was taken back since the last sample
          suspect                 \* ... between the two samples of the answer

hostVars == <<busy, idle, prev_total, prev_idle, share, receded, suspect>>

NoShare == [idle |-> 0, total |-> 0]   \* cpu_percent 0.0

HostInit ==
    /\ busy \in 0..1 /\ idle = 1
    /\ prev_total = 0 /\ prev_idle = 0
    /\ share = NoShare /\ receded = FALSE /\ suspect = FALSE

(***************************************************************************)
(* The host.                                                               *)
(***************************************************************************)
host_works ==
    /\ busy + idle < MaxTicks
    /\ \/ busy' = busy + 1 /\ UNCHANGED idle
       \/ idle' = idle + 1 /\ UNCHANGED busy
    /\ UNCHANGED <<prev_total, prev_idle, share, receded, suspect>>

iowait_taken_back ==
    /\ idle > 1
    /\ idle' = idle - 1 /\ receded' = TRUE
    /\ UNCHANGED <<busy, prev_total, prev_idle, share, suspect>>

(***************************************************************************)
(* A request.                                                              *)
(***************************************************************************)

\* An earlier sample exists, and the counters are not what they were.
Counted(total) == prev_total > 0 /\ total # prev_total

\* Mutant of sample_cpu: the branch that returns early forgets one of the samples.
sample_keeps_idle ==
    LET total == busy + idle
    IN  /\ share' = IF Counted(total)
                    THEN [idle |-> idle - prev_idle, total |-> total - prev_total]
                    ELSE NoShare
        /\ prev_idle' = IF Counted(total) THEN prev_idle ELSE idle
        /\ prev_total' = total
        /\ suspect' = receded /\ receded' = FALSE
        /\ UNCHANGED <<busy, idle>>

\* Both samples are replaced in every branch; without an earlier one, or without
\* time in between, the answer is 0.
sample_cpu ==
    LET total == busy + idle
    IN  /\ share' = IF Counted(total)
                    THEN [idle |-> idle - prev_idle, total |-> total - prev_total]
                    ELSE NoShare
        /\ prev_idle' = idle /\ prev_total' = total
        /\ suspect' = receded /\ receded' = FALSE
        /\ UNCHANGED <<busy, idle>>

\* /proc/stat cannot be opened: 0, and the samples stay.
stat_unreadable ==
    /\ StatFaults
    /\ share' = NoShare /\ suspect' = FALSE
    /\ UNCHANGED <<busy, idle, prev_total, prev_idle, receded>>

HostNext == host_works \/ iowait_taken_back \/ sample_cpu \/ stat_unreadable

HostSpec == HostInit /\ [][HostNext]_hostVars

(***************************************************************************)
(* Properties.                                                             *)
(***************************************************************************)
InRange == 0 <= share.idle /\ share.idle <= share.total

\* The percentage is one between 0 and 100, for any order of requests, requests
\* within one tick and failed reads; when the kernel takes iowait back, only the
\* answer about that interval is touched (getSystemCPUPercent).
PercentInRange == ~suspect => InRange

\* "Returns system resource usage." (docs/api.md)  Every answer is a percentage.
PercentAlways == InRange
=============================================================================
