------------------------------- MODULE Limits -------------------------------
(***************************************************************************)
(* From the numbers a user types to the limits in a container's cgroup:    *)
(* parse_run_options and the menu's questions, then set_cpu_limits and     *)
(* set_memory_limits.                                                      *)
(*                                                                         *)
(* Both conversions are products of C ints, which wrap in the build of the *)
(* Makefile.  TLC's integers are no wider than an int, so each is written  *)
(* in the unit that is common to its factors: memory in MB (2^20 bytes; an *)
(* int holds 4096 different values of it) and the product of shares and    *)
(* period in units of 32 (100000 = 32 * 3125; an int holds 2^27 of them).  *)
(* MaxTyped keeps 3125 * shares inside TLC's integers; a negative number   *)
(* has the effect of 0.                                                    *)
(***************************************************************************)
EXTENDS Integers, Sequences

CONSTANTS Mbs,           \* numbers that may be typed for the memory limit
          Shares,        \* numbers that may be typed for the cpu shares
          WriteFaults,        \* control files whose write may fail
          MaxContainers  \* bound on the containers of a behaviour

MaxTyped == 680000
DefaultMb == 128
DefaultShares == 1024
Unlimited == 0         \* memory.max "max", no quota, or cpu.shares as it was

ControlFiles == {"quota", "period", "shares", "memory"}

ASSUME LimitsAssumption ==
    /\ Mbs \subseteq 0..MaxTyped
    /\ Shares \subseteq 0..MaxTyped
    /\ WriteFaults \subseteq ControlFiles
    /\ MaxContainers \in Nat

VARIABLES version,  \* cgroup version of the host
          origin,   \* "none", or who is filling in a configuration
          config,   \* mb: limit_bytes of the configuration in MB, shares
          asked,    \* the numbers the user typed, or the defaults
          made      \* the containers: what was asked, what is in force

limitsVars == <<version, origin, config, asked, made>>

Defaults == [mb |-> DefaultMb, shares |-> DefaultShares]

LimitsInit ==
    /\ version \in {"v1", "v2"}
    /\ origin = "none" /\ config = Defaults /\ asked = Defaults
    /\ made = <<>>

(***************************************************************************)
(* The two conversions.                                                    *)
(***************************************************************************)

\* atoi(optarg) * 1024 * 1024 as an int, in MB: -2048 .. 2047.  Stored in an
\* unsigned long, a negative one becomes a number near 2^64.
LimitBytes(mb) == ((mb + 2048) % 4096) - 2048

\* memory.max for a positive limit_bytes; the kernel takes a number near 2^64
\* for "max".  Zero writes nothing or "max".
MemoryMax(bytes) == IF bytes > 0 THEN bytes ELSE Unlimited

\* shares * period_us as an int, in units of 32.
Product(shares) == ((shares * 3125 + 67108864) % 134217728) - 67108864

\* quota_us: never below a millisecond.
Quota(shares) ==
    LET quota == Product(shares) \div 32
    IN  IF shares <= 0 THEN Unlimited ELSE IF quota < 1000 THEN 1000 ELSE quota

\* cpu.shares of v1: the kernel clamps what is written.
Weight(shares) ==
    IF shares < 2 THEN 2 ELSE IF shares > 262144 THEN 262144 ELSE shares

(***************************************************************************)
(* Filling in a configuration.                                             *)
(***************************************************************************)

\* Mutant of resource_limits_init: the configuration of the last call is kept.
limits_init_once(who) ==
    /\ origin = "none" /\ Len(made) < MaxContainers
    /\ origin' = who
    /\ asked' = Defaults
    /\ UNCHANGED <<version, config, made>>

\* mini-container run ..., or the menu's create, starts from the defaults.
resource_limits_init(who) ==
    /\ origin = "none" /\ Len(made) < MaxContainers
    /\ origin' = who
    /\ config' = Defaults /\ asked' = Defaults
    /\ UNCHANGED <<version, made>>

\* Mutant of option_memory: the break is missing and -m sets the shares too.
option_memory_falls_through(mb) ==
    /\ origin = "run"
    /\ config' = [mb |-> LimitBytes(mb), shares |-> mb]
    /\ asked' = [asked EXCEPT !.mb = mb]
    /\ UNCHANGED <<version, origin, made>>

\* -m and -c, in any order and number: the last one counts.
option_memory(mb) ==
    /\ origin = "run"
    /\ config' = [config EXCEPT !.mb = LimitBytes(mb)]
    /\ asked' = [asked EXCEPT !.mb = mb]
    /\ UNCHANGED <<version, origin, made>>

option_cpu(shares) ==
    /\ origin = "run"
    /\ config' = [config EXCEPT !.shares = shares]
    /\ asked' = [asked EXCEPT !.shares = shares]
    /\ UNCHANGED <<version, origin, made>>

\* -h, an unknown option or a missing command: no container is made.
usage_error ==
    /\ origin = "run"
    /\ origin' = "none"
    /\ UNCHANGED <<version, config, asked, made>>

\* The menu asks for both numbers; what is not positive leaves the default.
menu_answers(mb, shares) ==
    LET m == IF mb > 0 THEN mb ELSE DefaultMb
        s == IF shares > 0 THEN shares ELSE DefaultShares
    IN  /\ origin = "menu"
        /\ origin' = "answered"
        /\ config' = [mb |-> LimitBytes(m), shares |-> s]
        /\ asked' = [mb |-> m, shares |-> s]
        /\ UNCHANGED <<version, made>>

(***************************************************************************)
(* resource_manager_create_cgroup in a new directory: each of the writes   *)
(* may fail (F), which is only a warning; in v1 the cpu files are written  *)
(* in the order quota, period, shares and the first failure ends it.       *)
(***************************************************************************)
CpuWritten(F) ==
    [quota |-> IF "quota" \in F THEN Unlimited ELSE Quota(config.shares),
     weight |-> IF \/ version = "v2" \/ config.shares <= 0
                   \/ F \cap {"quota", "period", "shares"} # {}
                THEN Unlimited
                ELSE Weight(config.shares)]

create_cgroup(F) ==
    /\ origin \in {"run", "answered"}
    /\ version = "v2" => F \cap {"period", "shares"} = {}
    /\ LET cpu == CpuWritten(F)
       IN  made' = Append(made,
                     [asked |-> asked, failed |-> F # {},
                      quota |-> cpu.quota, weight |-> cpu.weight,
                      memory |-> IF "memory" \in F THEN Unlimited
                                 ELSE MemoryMax(config.mb)])
    /\ origin' = "none"
    /\ UNCHANGED <<version, config, asked>>

LimitsNext ==
    \/ \E who \in {"run", "menu"} : resource_limits_init(who)
    \/ \E mb \in Mbs : option_memory(mb)
    \/ \E s \in Shares : option_cpu(s)
    \/ usage_error
    \/ \E mb \in Mbs, s \in Shares : menu_answers(mb, s)
    \/ \E F \in SUBSET WriteFaults : create_cgroup(F)

LimitsSpec == LimitsInit /\ [][LimitsNext]_limitsVars

(***************************************************************************)
(* Properties.                                                             *)
(***************************************************************************)
Sound == {c \in {made[i] : i \in DOMAIN made} : ~c.failed}

\* LimitsTypeOK: the values of the variables.
LimitsTypeOK ==
    /\ version \in {"v1", "v2"}
    /\ origin \in {"none", "run", "menu", "answered"}
    /\ config \in [mb : -2048..2047, shares : Nat]
    /\ asked \in [mb : Nat, shares : Nat]
    /\ made \in Seq([asked : [mb : Nat, shares : Nat], failed : BOOLEAN,
                     quota : Nat, weight : Nat, memory : 0..2047])

\* A container is given the part of a core that its shares stand for, 1024 to
\* a core, rounded down to a microsecond and up to a millisecond of the period
\* (set_cpu_limits); and of two containers on one v1 host, the one with more
\* shares has neither a smaller quota nor a smaller weight.
CpuProportional ==
    /\ \A c \in Sound : c.asked.shares > 0 =>
          \/ c.quota = 1000 /\ c.asked.shares * 3125 < 1000 * 32
          \/ /\ c.quota * 32 <= c.asked.shares * 3125
             /\ c.asked.shares * 3125 < (c.quota + 1) * 32
    /\ \A c, d \in Sound :
          0 < c.asked.shares /\ c.asked.shares <= d.asked.shares
             => c.quota <= d.quota /\ c.weight <= d.weight

\* A container is confined to the memory the user asked for, by the command
\* line or by the menu (parse_run_options, set_memory_limits).
MemoryAsAsked ==
    \A c \in Sound : c.asked.mb > 0 => c.memory = c.asked.mb

=============================================================================
