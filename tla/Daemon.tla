-------------------------------- MODULE Daemon ------------------------------
(***************************************************************************)
(* The gateway daemon of a project: server_ops finds it by the file        *)
(* .miniautogen/server.pid, which the commands `server` and `daemon` and   *)
(* the dashboard read, write and delete one after the other or at once.    *)
(* All gateways want the same port; the port file and the log are left out.*)
(***************************************************************************)
EXTENDS Naturals

CONSTANTS Actor,  \* shells and dashboards
          Pid, NoPid

ASSUME DaemonAssumption == NoPid \notin Pid

VARIABLES proc,       \* what each process is
          pidfile,    \* its content, "torn" while it is being written
          job,        \* the command of each actor: where it is, what it does, of which pid
          unruly      \* two commands overlapped, a starter died before it wrote the
                      \* pid file, or the system gave a pid to something else

daemonVars == <<proc, pidfile, job, unruly>>

Alive == {"boots", "serves", "closing", "front", "foreign"}
Command == {"start", "stop", "restart", "status", "mount", "unmount", "front"}

Job == [at : {"idle", "look", "probe", "clean", "health", "absent", "present", "spawned", "write", "signalled"},
        of : Command, pid : Pid \cup {NoPid}]
Idle == [at |-> "idle", of |-> "status", pid |-> NoPid]

DaemonTypeOK ==
  /\ proc \in [Pid -> {"gone"} \cup Alive]
  /\ pidfile \in Pid \cup {NoPid, "torn"}
  /\ job \in [Actor -> Job]
  /\ unruly \in BOOLEAN

DaemonInit ==
  /\ proc = [p \in Pid |-> "gone"]
  /\ pidfile = NoPid
  /\ job = [a \in Actor |-> Idle]
  /\ unruly = FALSE

-----------------------------------------------------------------------------
(* The commands.                                                            *)

On(a, l) == job[a].at = l
To(a, l) == job' = [job EXCEPT ![a].at = l]
Done(a)  == job' = [job EXCEPT ![a] = Idle]

\* Every command looks for a daemon first.
Begins(a, c) == job' = [job EXCEPT ![a] = [at |-> "look", of |-> c, pid |-> NoPid]]

Enter(a, c) ==
  /\ On(a, "idle") /\ Begins(a, c)
  /\ unruly' = (unruly \/ \E b \in Actor \ {a} : ~On(b, "idle"))
  /\ UNCHANGED <<proc, pidfile>>

ReadPid(a) ==
  /\ On(a, "look")
  /\ IF pidfile \in Pid
     THEN job' = [job EXCEPT ![a].at = "probe", ![a].pid = pidfile]
     ELSE To(a, "absent")
  /\ UNCHANGED <<proc, pidfile, unruly>>

Probe(a) ==
  /\ On(a, "probe")
  /\ To(a, CASE proc[job[a].pid] \notin Alive                -> "clean"
             [] job[a].of \in {"status", "mount", "unmount"} -> "health"
             [] OTHER                                        -> "present")
  /\ UNCHANGED <<proc, pidfile, unruly>>

\* The pid file is deleted, whatever it says by now.
CleanStale(a) ==
  /\ On(a, "clean") /\ To(a, "absent")
  /\ pidfile' = NoPid
  /\ UNCHANGED <<proc, unruly>>

Serving == \E p \in Pid : proc[p] \in {"serves", "front"}

\* Variant: a daemon that does not answer is taken for a stale one.
HealthCleans(a) ==
  /\ On(a, "health") /\ To(a, "clean")
  /\ UNCHANGED <<proc, pidfile, unruly>>

\* The health check asks the port, not the process.  The dashboard stops a
\* daemon that runs when it is left, and starts one when it is entered.
Health(a) ==
  /\ On(a, "health")
  /\ CASE job[a].of = "unmount" /\ Serving -> Begins(a, "stop")
       [] job[a].of = "mount" /\ ~Serving  -> Begins(a, "start")
       [] OTHER                            -> Done(a)
  /\ UNCHANGED <<proc, pidfile, unruly>>

Absent(a) ==
  /\ On(a, "absent")
  /\ \/ job[a].of \in {"stop", "status", "unmount"} /\ Done(a)
     \/ job[a].of \in {"restart", "mount"} /\ Begins(a, "start")
  /\ UNCHANGED <<proc, pidfile, unruly>>

Spawn(a) ==
  /\ On(a, "absent") /\ job[a].of = "start"
  /\ \E p \in Pid :
        /\ proc[p] = "gone"
        /\ proc' = [proc EXCEPT ![p] = "boots"]
        /\ job' = [job EXCEPT ![a].at = "spawned", ![a].pid = p]
  /\ UNCHANGED <<pidfile, unruly>>

\* Without --daemon the shell waits for the gateway, which gets the port or
\* ends at once.
RunForeground(a) ==
  /\ On(a, "absent") /\ job[a].of = "front" /\ Done(a)
  /\ \/ Serving /\ UNCHANGED proc
     \/ \E p \in Pid : ~Serving /\ proc[p] = "gone" /\ proc' = [proc EXCEPT ![p] = "front"]
  /\ UNCHANGED <<pidfile, unruly>>

\* write_text empties the file and then fills it.
WritePid(a) ==
  /\ \/ On(a, "spawned") /\ pidfile' = "torn" /\ To(a, "write")
     \/ On(a, "write") /\ pidfile' = job[a].pid /\ Done(a)
  /\ UNCHANGED <<proc, unruly>>

AlreadyRunning(a) ==
  /\ On(a, "present") /\ job[a].of \in {"start", "front"} /\ Done(a)
  /\ UNCHANGED <<proc, pidfile, unruly>>

Stopped(a) == IF job[a].of = "restart" THEN Begins(a, "start") ELSE Done(a)

\* SIGTERM.  A gateway that serves closes down; one that boots, and any other
\* process, ends.  If the process is gone by now its pid file is kept.
Terminate(a) ==
  /\ On(a, "present") /\ job[a].of \in {"stop", "restart"}
  /\ LET p == job[a].pid
     IN IF proc[p] \in Alive
        THEN /\ proc' = [proc EXCEPT ![p] = IF @ \in {"serves", "closing", "front"} THEN "closing" ELSE "gone"]
             /\ To(a, "signalled")
        ELSE Stopped(a) /\ UNCHANGED proc
  /\ UNCHANGED <<pidfile, unruly>>

\* The pid file goes while the gateway may still be closing.
Forget(a) ==
  /\ On(a, "signalled") /\ Stopped(a)
  /\ pidfile' = NoPid
  /\ UNCHANGED <<proc, unruly>>

\* A command may be killed anywhere.
Killed(a) ==
  /\ ~On(a, "idle") /\ Done(a)
  /\ unruly' = (unruly \/ On(a, "spawned") \/ On(a, "write"))
  /\ UNCHANGED <<proc, pidfile>>

-----------------------------------------------------------------------------
(* The processes.                                                           *)

\* The port is held by the gateway that serves, and perhaps by one that closes.
Bind(p) ==
  /\ proc[p] = "boots"
  /\ \/ ~Serving /\ proc' = [proc EXCEPT ![p] = "serves"]
     \/ /\ Serving \/ \E r \in Pid : proc[r] = "closing"
        /\ proc' = [proc EXCEPT ![p] = "gone"]
  /\ UNCHANGED <<pidfile, job, unruly>>

Quit(p) ==
  /\ proc[p] \in Alive
  /\ proc' = [proc EXCEPT ![p] = "gone"]
  /\ UNCHANGED <<pidfile, job, unruly>>

Reuse(p) ==
  /\ proc[p] = "gone"
  /\ proc' = [proc EXCEPT ![p] = "foreign"]
  /\ unruly' = TRUE
  /\ UNCHANGED <<pidfile, job>>

CommandStep(a) ==
  \/ \E c \in Command : Enter(a, c)
  \/ ReadPid(a) \/ Probe(a) \/ CleanStale(a) \/ Health(a) \/ Absent(a) \/ Spawn(a) \/ RunForeground(a)
  \/ WritePid(a) \/ AlreadyRunning(a) \/ Terminate(a) \/ Forget(a) \/ Killed(a)

DaemonNext == (\E a \in Actor : CommandStep(a)) \/ (\E p \in Pid : Bind(p) \/ Quit(p) \/ Reuse(p))

DaemonSpec == DaemonInit /\ [][DaemonNext]_daemonVars

-----------------------------------------------------------------------------
\* As long as commands come one after the other, no starter dies before it has
\* written the pid file and no pid is used again, every daemon that boots or
\* serves can be found: it is in the pid file, or about to be.  So there is at
\* most one, and what a command stops is the daemon.
DaemonKnown ==
  ~unruly =>
     \A p \in Pid : proc[p] \in {"boots", "serves"} =>
       \/ pidfile = p
       \/ \E a \in Actor : (On(a, "spawned") \/ On(a, "write")) /\ job[a].pid = p
=============================================================================
