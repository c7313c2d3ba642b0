--------------------------- MODULE DaemonIdentity ---------------------------
(***************************************************************************)
(* How the daemon comes by its device identity: load_or_create_identity()  *)
(* of daemon/src/daemon.cpp, called once by every process.                 *)
(*                                                                         *)
(* The file is read; if nothing is read, a random identity is written to a *)
(* temporary file named after the process, flushed, and renamed.  Each     *)
(* system call is an action, because the process may be killed and the     *)
(* power may fail between any two, and each may fail.  One process runs at *)
(* a time, as under the service manager, which starts it again after       *)
(* failures; process numbers repeat.                                       *)
(***************************************************************************)
EXTENDS Integers, FiniteSets

CONSTANTS
  Uuids,   \* identities that random_uuid() may return
  Pids,    \* process numbers
  Nothing, \* no file, or an empty one
  Garbage  \* a file that does not parse as an identity

ASSUME IdentityAssumption ==
  /\ Nothing # Garbage
  /\ {Nothing, Garbage} \cap Uuids = {}

VARIABLES
  file,     \* what a reader of the device-id file finds
  onDisk,   \* what it may hold after a power failure
  tmp,      \* the processes whose temporary file exists
  process,  \* the daemon process
  used      \* identities that processes have run with; properties only

identityVars == <<file, onDisk, tmp, process, used>>

Stages == {"down", "reading", "creating", "opened", "written", "running"}

NoProcess == [stage |-> "down", pid |-> 0, id |-> Nothing, flushed |-> FALSE]

IdentityInit ==
  /\ file = Nothing
  /\ onDisk = {Nothing}
  /\ tmp = {}
  /\ process = NoProcess
  /\ used = {}
-----------------------------------------------------------------------------
\* The service manager starts a process.
Start(pid) ==
  /\ process.stage = "down"
  /\ process' = [NoProcess EXCEPT !.stage = "reading", !.pid = pid]
  /\ UNCHANGED <<file, onDisk, tmp, used>>

Running(id) ==
  /\ process' = [process EXCEPT !.stage = "running", !.id = id]
  /\ used' = used \cup {id}

\* An exception ends the process.
Throws ==
  /\ process' = NoProcess
  /\ UNCHANGED used

\* A new identity is drawn; random identities never repeat.
Creates ==
  \E id \in Uuids \ ({file} \cup onDisk \cup used) :
    process' = [process EXCEPT !.stage = "creating", !.id = id]

ReadIdentity ==
  /\ process.stage = "reading"
  /\ \/ file \in Uuids /\ Running(file)
     \/ file = Garbage /\ Throws
     \/ file = Nothing /\ Creates /\ UNCHANGED used
  /\ UNCHANGED <<file, onDisk, tmp>>

\* read() returns an empty string for a file that it cannot open: an identity that is
\* there is replaced.  From here on another one is in use.
ReadFails ==
  /\ process.stage = "reading"
  /\ Creates
  /\ used' = {}
  /\ UNCHANGED <<file, onDisk, tmp>>

OpenTmp ==
  /\ process.stage = "creating"
  /\ process.pid \notin tmp
  /\ tmp' = tmp \cup {process.pid}
  /\ process' = [process EXCEPT !.stage = "opened"]
  /\ UNCHANGED <<file, onDisk, used>>

\* Faulty: fsync() is left out.
WriteTmpUnflushed ==
  /\ process.stage = "opened"
  /\ process' = [process EXCEPT !.stage = "written"]
  /\ UNCHANGED <<file, onDisk, tmp, used>>

\* write(), fsync() and close().
WriteTmp ==
  /\ process.stage = "opened"
  /\ process' = [process EXCEPT !.stage = "written", !.flushed = TRUE]
  /\ UNCHANGED <<file, onDisk, tmp, used>>

\* rename(): the directory reaches the disk some time later.
Rename ==
  /\ process.stage = "written"
  /\ file' = process.id
  /\ onDisk' = onDisk \cup {process.id} \cup IF process.flushed THEN {} ELSE {Nothing, Garbage}
  /\ tmp' = tmp \ {process.pid}
  /\ Running(process.id)

\* Faulty: only a temporary file that was opened is removed.
CreationFailsKeeping ==
  /\ process.stage \in {"creating", "opened", "written"}
  /\ tmp' = IF process.stage = "creating" THEN tmp ELSE tmp \ {process.pid}
  /\ Throws
  /\ UNCHANGED <<file, onDisk>>

\* Faulty: an identity that could not be saved is used all the same.
CreationFailsSilently ==
  /\ process.stage \in {"creating", "opened", "written"}
  /\ tmp' = tmp \ {process.pid}
  /\ Running(process.id)
  /\ UNCHANGED <<file, onDisk>>

\* One of the calls fails; open() does when a file of the same process number was left.
\* The temporary file is removed.
CreationFails ==
  /\ process.stage \in {"creating", "opened", "written"}
  /\ tmp' = tmp \ {process.pid}
  /\ Throws
  /\ UNCHANGED <<file, onDisk>>

\* The process is killed, the machine is shut down in order, or a call before open()
\* fails, of create_directories() or random_uuid(), which leaves no trace.
Crash ==
  /\ process.stage # "down"
  /\ process' = NoProcess
  /\ UNCHANGED <<file, onDisk, tmp, used>>

WriteBack ==
  /\ onDisk # {file}
  /\ onDisk' = {file}
  /\ UNCHANGED <<file, tmp, process, used>>

\* What has not been written back may be lost, with it the identity in use.
PowerFailure ==
  /\ \E content \in onDisk :
       /\ file' = content
       /\ onDisk' = {content}
       /\ used' = IF content = file THEN used ELSE {}
  /\ tmp' \in SUBSET (tmp \cup IF onDisk = {file} THEN {} ELSE Pids)
  /\ process' = NoProcess

\* The machine works most of the time: every step that can succeed again and again
\* succeeds at last, and the service manager restarts the daemon.
IdentityProgress ==
  /\ WF_identityVars(\E pid \in Pids : Start(pid))
  /\ SF_identityVars(ReadIdentity)
  /\ SF_identityVars(OpenTmp)
  /\ SF_identityVars(process.stage = "creating" /\ process.pid \in tmp /\ CreationFails)
  /\ SF_identityVars(WriteTmp)
  /\ SF_identityVars(Rename)
-----------------------------------------------------------------------------
(* Properties *)

\* All processes of a host run with one identity, whichever call fails and wherever a
\* process dies, unless the file cannot be read or the power fails before its
\* directory is written: no process runs with an identity that was not saved.
OneIdentity ==
  /\ process.stage = "running" => process.id = file
  /\ \A id \in used : file = id

\* Nothing that a killed process or a power failure leaves behind keeps the daemon from
\* running: neither a temporary file nor a file that every later process refuses
\* ("invalid persisted device identity").
ComesUp == []<>(process.stage = "running")
=============================================================================
