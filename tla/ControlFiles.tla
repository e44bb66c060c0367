---------------------------- MODULE ControlFiles ----------------------------
(***************************************************************************)
(* The control files of one group and the wrappers that read and write     *)
(* them from several threads: ControlGroup::fieldPath and the field        *)
(* readers and writers, Memory with its counter and limit, CpuAccounting.  *)
(* A call looks at the file (fieldPath) and opens it later; one thread's   *)
(* are followed step by step, the others' when they take effect, and the   *)
(* group may be removed and made again at any time.  An error of a stream  *)
(* throws.  A behaviour is about one family of files: no call uses two.    *)
(***************************************************************************)
EXTENDS Naturals, FiniteSets

CONSTANTS
    None,
    Limit,        \* the limits one may set and the kernel may charge up to
    MaxTicks,     \* of processor time, for user and for system
    Den,          \* of TickDuration: its period is 1/Den s
    ClkTck,       \* the kernel counts 1/ClkTck s; the code asserts ClkTck <= Den
    Modulus,      \* Count wraps here
    MaxSeen       \* contents that a call lives to see

VARIABLES
    family,       \* "memory", "charge", "oom" or "cpuacct"
    content,      \* what the files say, or None when there is no group
    op,           \* [call, arg, step]; step: "idle", "check", "open"
    result,       \* what the last getter returned, or None
    seen          \* history: contents since the call began

vars == <<family, content, op, result, seen>>

Family == {"memory", "charge", "oom", "cpuacct"}
Getter == [memory |-> {"limit", "usage", "max_usage", "failcnt"}, charge |-> {"config"},
           oom |-> {"oom_kill_disable", "under_oom"}, cpuacct |-> {"stat"}]
\* A setter and its argument.
Setter == [memory |-> ({"setLimit"} \X Limit) \union ({"resetMaxUsage", "resetFailcnt", "forceEmpty"} \X {0}),
           charge |-> {"setConfig"} \X (0..3),
           oom |-> {"setOomKillDisable"} \X (0..1), cpuacct |-> {}]

Top == CHOOSE v \in Limit : \A w \in Limit : w <= v
Fresh == [memory |-> [limit |-> Top, usage |-> 0, max_usage |-> 0, failcnt |-> 0],
          charge |-> [mask |-> 0],
          oom |-> [oom_kill_disable |-> 0, under_oom |-> 0],
          cpuacct |-> [user |-> 0, system |-> 0]]
Idle == [call |-> "none", arg |-> None, step |-> "idle"]

TypeOK ==
    /\ family \in Family
    /\ op.step \in {"idle", "check", "open"}
    /\ content # None => DOMAIN content = DOMAIN Fresh[family]
    /\ (family = "memory" /\ content # None) =>
        content.usage <= content.limit /\ content.usage <= content.max_usage

Init ==
    /\ family \in Family /\ content = Fresh[family]
    /\ op = Idle /\ result = None
    /\ seen = {}

-----------------------------------------------------------------------------
(* Conversions *)

ConfigSwapped(mask) ==             \* mutant of Config
    [anonymous |-> (mask \div 2) % 2 = 1, file |-> mask % 2 = 1]
Config(mask) == [anonymous |-> mask % 2 = 1, file |-> (mask \div 2) % 2 = 1]
Mask(config) == (IF config.anonymous THEN 1 ELSE 0) + (IF config.file THEN 2 ELSE 0)

DivideFirst(ticks) == (ticks \div ClkTck) * Den    \* mutant of countToUnits
countToUnits(ticks) == ((ticks * Den) % Modulus) \div ClkTck

\* One read of the file gives both times.
stat(c) == [user |-> countToUnits(c.user), system |-> countToUnits(c.system)]

\* A number in a file of its own, or under its key.
parseKVFile(c, key) == c[key]

Value(call, c) ==
    CASE call = "config" -> Config(c.mask)
      [] call = "stat" -> stat(c)
      [] OTHER -> parseKVFile(c, call)

-----------------------------------------------------------------------------
(* Calls *)

Becomes(new) ==
    /\ content' = new /\ (op.step = "idle" \/ Cardinality(seen) < MaxSeen)
    /\ seen' = IF op.step = "idle" THEN seen ELSE seen \union {new}

Call(call, arg) ==
    /\ op.step = "idle"
    /\ op' = [call |-> call, arg |-> arg, step |-> "check"]
    /\ result' = None
    /\ seen' = {content}
    /\ UNCHANGED <<family, content>>

\* fieldPath: the file has to be there, a regular file.
Check ==
    /\ op.step = "check" /\ content # None
    /\ op' = [op EXCEPT !.step = "open"]
    /\ UNCHANGED <<family, content, result, seen>>

End == op' = [op EXCEPT !.step = "idle"]

\* ControlGroupFieldDoesNotExistError from the check, or the open fails.
Missing ==
    /\ op.step # "idle" /\ content = None /\ End
    /\ UNCHANGED <<family, content, result, seen>>

Read ==
    /\ op.step = "open" /\ content # None /\ op.call \in Getter[family]
    /\ result' = Value(op.call, content)
    /\ End /\ UNCHANGED <<family, content, seen>>

\* What the kernel makes of a write; no element means an error.
Written(call, arg) ==
    CASE call = "setLimit" ->
            {[content EXCEPT !.limit = arg, !.usage = u] : u \in {v \in 0..content.usage : v <= arg}}
      [] call = "resetMaxUsage" -> {[content EXCEPT !.max_usage = content.usage]}
      [] call = "resetFailcnt" -> {[content EXCEPT !.failcnt = 0]}
      [] call = "forceEmpty" -> {[content EXCEPT !.usage = u] : u \in 0..content.usage}
      [] call = "setConfig" -> {[content EXCEPT !.mask = Mask(Config(arg))]}
      [] call = "setOomKillDisable" -> {[content EXCEPT !.oom_kill_disable = arg]}

Setting == op.step = "open" /\ content # None /\ op.call \notin Getter[family]
Write ==
    /\ Setting
    /\ \E new \in Written(op.call, op.arg) : Becomes(new)
    /\ End /\ UNCHANGED <<family, result>>
\* Memory that cannot be reclaimed: EBUSY.
WriteFails ==
    /\ Setting /\ op.call = "setLimit" /\ content.usage > 0
    /\ End /\ UNCHANGED <<family, content, result, seen>>

\* A write of another thread or program.
OthersWrite(setter) ==
    /\ content # None /\ \E new \in Written(setter[1], setter[2]) : Becomes(new)
    /\ UNCHANGED <<family, op, result>>

-----------------------------------------------------------------------------
(* The kernel and other programs *)

Charge ==
    /\ family = "memory" /\ content # None
    /\ LET u == content.usage + 1 IN
       IF u <= content.limit
       THEN Becomes([content EXCEPT !.usage = u,
                        !.max_usage = IF u > content.max_usage THEN u ELSE content.max_usage])
       ELSE Becomes([content EXCEPT !.failcnt = 1])   \* counted once
    /\ UNCHANGED <<family, op, result>>
Uncharge ==
    /\ family = "memory" /\ content # None /\ content.usage > 0
    /\ Becomes([content EXCEPT !.usage = @ - 1])
    /\ UNCHANGED <<family, op, result>>
Oom ==
    /\ family = "oom" /\ content # None
    /\ Becomes([content EXCEPT !.under_oom = IF content.oom_kill_disable = 1 THEN 1 - @ ELSE 0])
    /\ UNCHANGED <<family, op, result>>
Tick(clock) ==
    /\ family = "cpuacct" /\ content # None /\ content[clock] < MaxTicks
    /\ Becomes([content EXCEPT ![clock] = @ + 1])
    /\ UNCHANGED <<family, op, result>>

OthersRmdir == content # None /\ Becomes(None) /\ UNCHANGED <<family, op, result>>
OthersMkdir == content = None /\ Becomes(Fresh[family]) /\ UNCHANGED <<family, op, result>>

Next ==
    \/ \E call \in Getter[family] : Call(call, None)
    \/ \E setter \in Setter[family] : Call(setter[1], setter[2]) \/ OthersWrite(setter)
    \/ Check \/ Missing \/ Read \/ Write \/ WriteFails
    \/ Charge \/ Uncharge \/ Oom \/ OthersRmdir \/ OthersMkdir
    \/ \E clock \in {"user", "system"} : Tick(clock)

Spec == Init /\ [][Next]_vars

-----------------------------------------------------------------------------
(* What a getter and a setter promise *)

\* A time is the kernel's to the tick: nothing is lost before the product leaves
\* the range of Count.
Exact(units, ticks) ==
    ticks * Den < Modulus => (units * ClkTck <= ticks * Den /\ ticks * Den < (units + 1) * ClkTck)

\* A value that is returned was the file's at one moment of the call, although
\* the file is looked at first and opened later and others write to it: the two
\* parts of a configuration, and both times of stat(), are of that moment.
Was(c) ==
    CASE op.call = "config" -> Mask(result) = c.mask
      [] op.call = "stat" -> Exact(result.user, c.user) /\ Exact(result.system, c.system)
      [] OTHER -> result = c[op.call]
ReadIsCurrent ==
    (op.step = "idle" /\ result # None) => \E c \in seen \ {None} : Was(c)
=============================================================================
