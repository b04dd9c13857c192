-------------------------------- MODULE Startup --------------------------------
(***************************************************************************)
(* A process of the service starts: main() of the API or of the worker     *)
(* reads the environment, falls back on defaults, and refuses what the     *)
(* rest of the service could not work with.                                *)
(***************************************************************************)
EXTENDS Integers

CONSTANTS Unset, Text, NaN, Inf  \* no variable; one that is no number; nan; inf

VARIABLES
  installed,  \* the service extra is
  env,        \* DATABASE_URL is set, and the value of each other variable
  settings,   \* the values in use
  process,    \* "start", "running" or "exited"
  code

vars == <<installed, env, settings, process, code>>

EXIT_CONFIG == 2

Seconds == {"WORKER_POLL_SECONDS", "HEARTBEAT_SECONDS", "LEASE_SECONDS", "PAGE_FLUSH_SECONDS"}
Counts == {"MAX_ATTEMPTS", "PAGE_BATCH_SIZE"}
Names == Seconds \cup Counts \cup {"API_PORT"}

\* The defaults, in tenths of a second where they are times.
Defaults ==
  [WORKER_POLL_SECONDS |-> 10, HEARTBEAT_SECONDS |-> 50, LEASE_SECONDS |-> 300,
   PAGE_FLUSH_SECONDS |-> 2, MAX_ATTEMPTS |-> 3, PAGE_BATCH_SIZE |-> 100, API_PORT |-> 8000]

\* The values tried: of the lease and the heartbeat, of the other times, of a count, of the port.
LeaseValues == {Unset, Text, NaN, Inf, 0, 20, 400}
SecondsValues == {Unset, NaN, -1}
CountValues == {Unset, 0}
PortValues == {Unset, 65535, 65536}

Init ==
  /\ installed \in BOOLEAN
  /\ \E url \in BOOLEAN, poll, flush \in SecondsValues,
        heartbeat, lease \in LeaseValues,
        attempts, batch \in CountValues, port \in PortValues :
       env = [DATABASE_URL |-> url, WORKER_POLL_SECONDS |-> poll, HEARTBEAT_SECONDS |-> heartbeat,
              LEASE_SECONDS |-> lease, PAGE_FLUSH_SECONDS |-> flush, MAX_ATTEMPTS |-> attempts,
              PAGE_BATCH_SIZE |-> batch, API_PORT |-> port]
  /\ settings = Defaults
  /\ process = "start"
  /\ code = 0

-----------------------------------------------------------------------------

\* float and int accept what is a number; float also "nan" and "inf".
Parses == \A name \in Names : env[name] # Text

\* replace: a variable that is set takes the place of the default.
FromEnv == [name \in Names |-> IF env[name] = Unset THEN Defaults[name] ELSE env[name]]

\* Mutant of Positive: "nan" is neither zero nor less, and "inf" is positive.
PositiveUnlessZero(value) == value \in {NaN, Inf} \/ value > 0

Positive(value) == value \notin {NaN, Inf} /\ value > 0

Less(x, y) == NaN \notin {x, y} /\ x # Inf /\ (y = Inf \/ x < y)

\* __post_init__, on the values together.
Accepted(s) ==
  /\ \A name \in Seconds : Positive(s[name])
  /\ \A name \in Counts : s[name] >= 1
  /\ s.API_PORT > 0 /\ s.API_PORT < 65536
  /\ ~Less(s.LEASE_SECONDS, s.HEARTBEAT_SECONDS)

Run ==
  /\ process = "start" /\ installed
  /\ env.DATABASE_URL /\ Parses /\ Accepted(FromEnv)
  /\ settings' = FromEnv
  /\ process' = "running"
  /\ UNCHANGED <<installed, env, code>>

\* Without the extra, or with settings it cannot use, the process says so and exits.
Refuse ==
  /\ process = "start"
  /\ ~(installed /\ env.DATABASE_URL /\ Parses /\ Accepted(FromEnv))
  /\ process' = "exited"
  /\ code' = EXIT_CONFIG
  /\ UNCHANGED <<installed, env, settings>>

Over == process # "start" /\ UNCHANGED vars

Next == Run \/ Refuse \/ Over

Spec == Init /\ [][Next]_vars

-----------------------------------------------------------------------------

\* What runs has what LeaseClock assumes: times that are numbers, so that every sleep ends
\* and every comparison of a clock with a lease means something, and a lease no shorter
\* than the heartbeat, also when only one of the two is set and the other is the default.
RunningCanLease ==
  process = "running" =>
    /\ \A name \in Seconds : settings[name] \in Nat \ {0}
    /\ settings.HEARTBEAT_SECONDS <= settings.LEASE_SECONDS
    /\ settings.MAX_ATTEMPTS >= 1 /\ settings.PAGE_BATCH_SIZE >= 1
=============================================================================
