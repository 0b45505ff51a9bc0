----------------------------- MODULE Dashboard -----------------------------
(***************************************************************************)
(* getContainerListJSON (web_server_simple.cpp): the CPU samples that the  *)
(* server keeps by container id between two requests, and the containers   *)
(* that come and go meanwhile.                                             *)
(***************************************************************************)
EXTENDS Integers

CONSTANTS Ids,
          Quotas,   \* whether a container has a CPU quota
          Readable, \* whether a read of the counter may succeed, may fail
          MaxUsage, \* bound on the CPU time of a cgroup
          MaxTime   \* bound on the clock

NoSample == -1
Lost == -2      \* the counter could not be read
Foreign == -3   \* the sample is that of an earlier container with the id

ASSUME DashboardAssumption ==
    /\ Quotas \subseteq BOOLEAN
    /\ Readable \subseteq BOOLEAN
    /\ MaxUsage \in Nat
    /\ MaxTime \in Nat

VARIABLES state,          \* id -> state of the entry, or absent
          usage,          \* id -> the counter of its cgroup; 0 if there is none
          quota,          \* id -> cpu.max begins with a number
          now,            \* the system's clock, in seconds
          prev_cpu_usage, \* id -> the sample of the last request, or none
          prev_time,      \* id -> when it was taken
          current_time,   \* when the current request has begun
          todo,           \* entries the current request has still to visit
          current,        \* the entry it is at: {} or a singleton
          server,         \* idle, busy or aborted
          shown,          \* the share it has last computed: CPU time (if
                          \* negative wrapped) over seconds
          truth           \* history: id -> the counter, and the time, when the
                          \* last request found this very container running; or
                          \* none, lost, foreign

containerVars == <<state, usage, quota, now>>
requestVars == <<prev_cpu_usage, prev_time, current_time, todo, current, server, shown>>
pageVars == <<containerVars, requestVars, truth>>

States == {"absent", "RUNNING", "STOPPED"}

Share(cpu, seconds) == [cpu |-> cpu, seconds |-> seconds]
NoneShown == Share(0, 1)

Seen(cpu, time) == [usage |-> cpu, at |-> time]

PageInit ==
    /\ state = [id \in Ids |-> "absent"]
    /\ usage = [id \in Ids |-> 0] /\ quota = [id \in Ids |-> FALSE]
    /\ now = 0 /\ current_time = 0
    /\ prev_cpu_usage = [id \in Ids |-> NoSample] /\ prev_time = [id \in Ids |-> 0]
    /\ todo = {} /\ current = {} /\ server = "idle" /\ shown = NoneShown
    /\ truth = [id \in Ids |-> Seen(NoSample, 0)]

(***************************************************************************)
(* The manager's calls, between two requests (ContainerTable has what      *)
(* happens during one), the work of the containers, and the clock.         *)
(***************************************************************************)

\* The id may be that of a container which was destroyed.
run_container(id, q) ==
    /\ server = "idle" /\ state[id] = "absent"
    /\ state' = [state EXCEPT ![id] = "RUNNING"]
    /\ usage' = [usage EXCEPT ![id] = 0] /\ quota' = [quota EXCEPT ![id] = q]
    /\ UNCHANGED <<now, requestVars, truth>>

\* The cgroup, and its counter, outlive a stop.
stop_container(id) ==
    /\ server = "idle" /\ state[id] = "RUNNING"
    /\ state' = [state EXCEPT ![id] = "STOPPED"]
    /\ UNCHANGED <<usage, quota, now, requestVars, truth>>

start_container(id) ==
    /\ server = "idle" /\ state[id] = "STOPPED"
    /\ state' = [state EXCEPT ![id] = "RUNNING"]
    /\ UNCHANGED <<usage, quota, now, requestVars, truth>>

\* The server is not told.
destroy_container(id) ==
    /\ server = "idle" /\ state[id] # "absent"
    /\ state' = [state EXCEPT ![id] = "absent"]
    /\ usage' = [usage EXCEPT ![id] = 0]
    /\ truth' = [truth EXCEPT ![id] = IF @.usage = NoSample THEN @ ELSE Seen(Foreign, 0)]
    /\ UNCHANGED <<quota, now, requestVars>>

consume(id) ==
    /\ state[id] = "RUNNING" /\ usage[id] < MaxUsage
    /\ usage' = [usage EXCEPT ![id] = @ + 1]
    /\ UNCHANGED <<state, quota, now, requestVars, truth>>

\* time(nullptr) is the time of day, which may also be set back.
clock_changes ==
    /\ now' \in 0..MaxTime
    /\ UNCHANGED <<state, usage, quota, requestVars, truth>>

(***************************************************************************)
(* A request.                                                              *)
(***************************************************************************)
request_begin ==
    /\ server = "idle"
    /\ server' = "busy" /\ todo' = {id \in Ids : state[id] # "absent"}
    /\ current_time' = now
    /\ UNCHANGED <<containerVars, prev_cpu_usage, prev_time, current, shown, truth>>

\* Mutant of visit_other: the sample of a container that is not running is kept.
visit_keeps_sample(id) ==
    /\ server = "busy" /\ current = {} /\ id \in todo
    /\ state[id] # "RUNNING"
    /\ todo' = todo \ {id}
    /\ truth' = [truth EXCEPT ![id] = Seen(NoSample, 0)]
    /\ UNCHANGED <<containerVars, prev_cpu_usage, prev_time, current_time, current,
                   server, shown>>

\* The sample of a container that is not running is erased.
visit_other(id) ==
    /\ server = "busy" /\ current = {} /\ id \in todo
    /\ state[id] # "RUNNING"
    /\ todo' = todo \ {id}
    /\ prev_cpu_usage' = [prev_cpu_usage EXCEPT ![id] = NoSample]
    /\ prev_time' = [prev_time EXCEPT ![id] = 0]
    /\ truth' = [truth EXCEPT ![id] = Seen(NoSample, 0)]
    /\ UNCHANGED <<containerVars, current_time, current, server, shown>>

visit_running(id) ==
    /\ server = "busy" /\ current = {} /\ id \in todo
    /\ state[id] = "RUNNING"
    /\ todo' = todo \ {id} /\ current' = {id}
    /\ UNCHANGED <<containerVars, prev_cpu_usage, prev_time, current_time, server,
                   shown, truth>>

\* cpu.max of a container without a quota: "max 100000" is not the word max,
\* and its first word is no number.
parse_fails(id) ==
    /\ server = "busy" /\ current = {id} /\ ~quota[id]
    /\ server' = "aborted"
    /\ UNCHANGED <<containerVars, prev_cpu_usage, prev_time, current_time, todo, current,
                   shown, truth>>

\* resource_manager_get_stats: 0 if the counter cannot be read or parsed; the
\* request does not look at its result.
get_stats(id, ok) == IF ok THEN usage[id] ELSE 0

\* Nothing is shown without an earlier sample, or when the clock has not moved
\* on since; the sample is replaced in any case.
sample(id, ok) ==
    LET cpu_usage == get_stats(id, ok)
        time_diff == current_time - prev_time[id]
    IN  /\ server = "busy" /\ current = {id} /\ quota[id]
        /\ shown' = IF prev_cpu_usage[id] # NoSample /\ time_diff > 0
                    THEN Share(cpu_usage - prev_cpu_usage[id], time_diff) ELSE NoneShown
        /\ prev_cpu_usage' = [prev_cpu_usage EXCEPT ![id] = cpu_usage]
        /\ prev_time' = [prev_time EXCEPT ![id] = current_time]
        /\ truth' = [truth EXCEPT ![id] = Seen(IF ok THEN usage[id] ELSE Lost, current_time)]
        /\ current' = {}
        /\ UNCHANGED <<containerVars, current_time, todo, server>>

\* The page is sent, and the locals are gone.
request_end ==
    /\ server = "busy" /\ current = {} /\ todo = {}
    /\ server' = "idle" /\ current_time' = 0 /\ shown' = NoneShown
    /\ UNCHANGED <<containerVars, prev_cpu_usage, prev_time, todo, current, truth>>

PageNext ==
    \/ \E id \in Ids :
          \/ \E q \in Quotas : run_container(id, q)
          \/ stop_container(id) \/ start_container(id) \/ destroy_container(id)
          \/ consume(id)
          \/ visit_other(id) \/ visit_running(id) \/ parse_fails(id)
          \/ \E ok \in Readable : sample(id, ok)
    \/ clock_changes \/ request_begin \/ request_end

PageSpec == PageInit /\ [][PageNext]_pageVars

(***************************************************************************)
(* Properties.                                                             *)
(***************************************************************************)

\* What the dashboard shows for a container is the CPU time that this container
\* has used since the last request that found it running, over the seconds since
\* then, across any number of stops and starts in between, and nothing if there
\* was no such request or the clock has not moved on.  A counter that could not
\* be read spoils this answer and the next one; an id that was given out again
\* spoils the first one.
UsageExact ==
    [][\A id \in Ids : sample(id, TRUE) /\ truth[id].usage \notin {Lost, Foreign} =>
          shown' = IF truth[id].usage # NoSample /\ truth[id].at < current_time
                   THEN Share(usage[id] - truth[id].usage, current_time - truth[id].at)
                   ELSE NoneShown]_pageVars

\* "Accounting: Tracks resource usage for each group."
\* (docs/technical_report.md)  The sample of a destroyed container is taken for
\* one of the next container with its id; the unsigned difference wraps.
NoWrap == shown.cpu >= 0

\* "Returns a JSON list of containers." (docs/api.md)  The exception that
\* std::stoul throws is caught nowhere.
RequestAnswered == server # "aborted"
=============================================================================
