--------------------------- MODULE FirmwareUpdate ---------------------------
(***************************************************************************)
(* FirmwareUpdateService: installs and aborts asked for by the platform,   *)
(* firmware versions reported to it.                                       *)
(*                                                                         *)
(* The service has a command buffer and a worker of its own.  The inbound  *)
(* handler's thread pushes installs and aborts, Wolk's worker pushes       *)
(* version reports after a connect, and so do the threads of the user's    *)
(* FirmwareInstaller, on which installations run and end.  Two             *)
(* installations of one device may overlap: the service does not look.     *)
(***************************************************************************)
EXTENDS Naturals, Sequences

CONSTANTS Devices,      \* device keys
          NoDevice,     \* the device of a command that does not name one
          MaxRequests,  \* bound: requests of the platform
          MaxSessions   \* bound: how many sessions with the broker are opened

ASSUME FirmwareAssumption ==
  /\ NoDevice \notin Devices
  /\ MaxRequests \in Nat
  /\ MaxSessions \in Nat

Requests == [op : {"install", "abort", "version"}, device : Devices]

(* An install or abort that does not name exactly one device.              *)
Malformed == [op |-> "malformed", device |-> NoDevice]

Command == Requests \cup {Malformed}

VARIABLES
  m_commandBuffer,  \* the commands waiting
  worker,           \* the command the worker runs, and how far it is
  jobs,             \* the installations the installer was asked for
  installed,        \* the version each device runs, from 1
  linkUp,           \* whether a publish succeeds
  announce,         \* devices Wolk is about to report the version of
  reports,          \* history: the statuses sent about each device, in order
  known,            \* history: the version the platform knows, 0 for none
  silent,           \* history: devices whose latest version was not to be had
  unreported,       \* history: devices whose latest report was not taken
  stranded,         \* history: of these, the ones a later session passed over
  requests,         \* history: requests of the platform
  sessions          \* history: sessions opened

installer == <<jobs, installed>>
link == <<linkUp, announce, sessions>>
versions == <<known, silent, unreported, stranded>>

vars == <<m_commandBuffer, worker, installer, link, versions, reports, requests>>

(* pc: "run" a command just taken; "install" the status sent, the          *)
(* installer not yet asked; "aborted" the installer asked, the status not  *)
(* yet sent; "publish" the version read, not yet sent.                     *)
Worker ==
  [pc : {"idle", "run", "install", "aborted", "publish"},
   cmd : Command, job : Nat, version : Nat]

Idle == [pc |-> "idle", cmd |-> Malformed, job |-> 0, version |-> 0]

(* "succeeded" and "failed": the outcome is certain and its callback about *)
(* to run; "reported": COMPLETED sent, the version report not yet pushed.  *)
Job ==
  [device : Devices,
   state : {"running", "succeeded", "reported", "failed", "aborted", "over"}]

Outcomes == {"COMPLETED", "ABORTED", "INSTALLATION_FAILED"}

(* A status as sent, with the installation it is about, 0 for none.        *)
Status == [status : {"INSTALLATION", "FILE_SYSTEM_ERROR"} \cup Outcomes, job : Nat]

TypeOK ==
  /\ m_commandBuffer \in Seq(Command)
  /\ worker \in Worker
  /\ worker.pc \in {"install", "aborted", "publish"} => worker.cmd.device \in Devices
  /\ jobs \in Seq(Job)
  /\ installed \in [Devices -> Nat]
  /\ linkUp \in BOOLEAN
  /\ announce \subseteq Devices
  /\ reports \in [Devices -> Seq(Status)]
  /\ known \in [Devices -> Nat]
  /\ silent \subseteq Devices
  /\ unreported \subseteq Devices
  /\ stranded \subseteq unreported
  /\ requests \in Nat
  /\ sessions \in Nat

Init ==
  /\ m_commandBuffer = <<>>
  /\ worker = Idle
  /\ jobs = <<>>
  /\ installed = [d \in Devices |-> 1]
  /\ linkUp = FALSE
  /\ announce = {}
  /\ reports = [d \in Devices |-> <<>>]
  /\ known = [d \in Devices |-> 0]
  /\ silent = {}
  /\ unreported = Devices
  /\ stranded = {}
  /\ requests = 0
  /\ sessions = 0

AddToCommandBuffer(command) == m_commandBuffer' = Append(m_commandBuffer, command)

(* sendStatus: a status that is not taken is logged and gone; nothing      *)
(* depends on which.                                                       *)
SendStatus(d, status, job) ==
  reports' = [reports EXCEPT ![d] = Append(@, [status |-> status, job |-> job])]

-----------------------------------------------------------------------------
(* messageReceived, on the inbound handler's thread.                       *)

MessageReceived(command) ==
  /\ requests < MaxRequests
  /\ requests' = requests + 1
  /\ AddToCommandBuffer(command)
  /\ UNCHANGED <<worker, installer, link, versions, reports>>

RequestInstall(d) == MessageReceived([op |-> "install", device |-> d])

RequestAbort(d) == MessageReceived([op |-> "abort", device |-> d])

RequestMalformed == MessageReceived(Malformed)

-----------------------------------------------------------------------------
(* The worker.                                                             *)

TakeCommand ==
  /\ worker.pc = "idle"
  /\ m_commandBuffer # <<>>
  /\ worker' = [Idle EXCEPT !.pc = "run", !.cmd = Head(m_commandBuffer)]
  /\ m_commandBuffer' = Tail(m_commandBuffer)
  /\ UNCHANGED <<installer, link, versions, reports, requests>>

At(pc, op) == worker.pc = pc /\ worker.cmd.op = op

Done == worker' = Idle

(* Mutant: how many devices the command names is not looked at.            *)
DropMalformed_Unchecked ==
  /\ At("run", "malformed")
  /\ worker' = [worker EXCEPT !.pc = "install", !.job = Len(jobs) + 1]
  /\ UNCHANGED <<m_commandBuffer, installer, link, versions, reports, requests>>

DropMalformed ==
  /\ At("run", "malformed")
  /\ Done
  /\ UNCHANGED <<m_commandBuffer, installer, link, versions, reports, requests>>

(* No file name, or no file of that name when the command is run.          *)
FileMissing ==
  /\ At("run", "install")
  /\ SendStatus(worker.cmd.device, "FILE_SYSTEM_ERROR", 0)
  /\ Done
  /\ UNCHANGED <<m_commandBuffer, installer, link, versions, requests>>

(* Mutant: the installer is asked before the platform is told.             *)
StartInstallation_InstallerFirst ==
  \/ /\ At("run", "install")
     /\ jobs' = Append(jobs, [device |-> worker.cmd.device, state |-> "running"])
     /\ worker' = [worker EXCEPT !.pc = "install", !.job = Len(jobs) + 1]
     /\ UNCHANGED <<m_commandBuffer, installed, link, versions, reports, requests>>
  \/ /\ At("install", "install")
     /\ SendStatus(worker.cmd.device, "INSTALLATION", worker.job)
     /\ Done
     /\ UNCHANGED <<m_commandBuffer, installer, link, versions, requests>>

(* Mutant: the worker waits for the installation to end.                   *)
StartInstallation_Waits ==
  \/ /\ At("run", "install")
     /\ SendStatus(worker.cmd.device, "INSTALLATION", Len(jobs) + 1)
     /\ jobs' = Append(jobs, [device |-> worker.cmd.device, state |-> "running"])
     /\ worker' = [worker EXCEPT !.pc = "install", !.job = Len(jobs) + 1]
     /\ UNCHANGED <<m_commandBuffer, installed, link, versions, requests>>
  \/ /\ At("install", "install")
     /\ jobs[worker.job].state # "running"
     /\ Done
     /\ UNCHANGED <<m_commandBuffer, installer, link, versions, reports, requests>>

SendInstallation ==
  /\ At("run", "install")
  /\ SendStatus(worker.cmd.device, "INSTALLATION", Len(jobs) + 1)
  /\ worker' = [worker EXCEPT !.pc = "install", !.job = Len(jobs) + 1]
  /\ UNCHANGED <<m_commandBuffer, installer, link, versions, requests>>

(* FirmwareInstaller::install returns at once.                             *)
AskInstaller ==
  /\ At("install", "install")
  /\ jobs' = Append(jobs, [device |-> worker.cmd.device, state |-> "running"])
  /\ Done
  /\ UNCHANGED <<m_commandBuffer, installed, link, versions, reports, requests>>

StartInstallation == SendInstallation \/ AskInstaller

(* Nothing is running, or what is running is not to be aborted any more.   *)
AbortRefused ==
  /\ At("run", "abort")
  /\ Done
  /\ UNCHANGED <<m_commandBuffer, installer, link, versions, reports, requests>>

AbortAccepted ==
  /\ At("run", "abort")
  /\ \E j \in DOMAIN jobs :
       /\ jobs[j] = [device |-> worker.cmd.device, state |-> "running"]
       /\ jobs' = [jobs EXCEPT ![j].state = "aborted"]
       /\ worker' = [worker EXCEPT !.pc = "aborted", !.job = j]
  /\ UNCHANGED <<m_commandBuffer, installed, link, versions, reports, requests>>

SendAborted ==
  /\ At("aborted", "abort")
  /\ SendStatus(worker.cmd.device, "ABORTED", worker.job)
  /\ Done
  /\ UNCHANGED <<m_commandBuffer, installer, link, versions, requests>>

(* The provider has no version, or no message can be made of it.           *)
VersionUnknown ==
  /\ At("run", "version")
  /\ silent' = silent \cup {worker.cmd.device}
  /\ Done
  /\ UNCHANGED <<m_commandBuffer, installer, link, known, unreported, stranded,
                 reports, requests>>

GetFirmwareVersion ==
  /\ At("run", "version")
  /\ worker' = [worker EXCEPT !.pc = "publish", !.version = installed[worker.cmd.device]]
  /\ UNCHANGED <<m_commandBuffer, installer, link, versions, reports, requests>>

(* A report that is not taken is logged and gone.                          *)
PublishVersion ==
  LET d == worker.cmd.device
  IN  /\ At("publish", "version")
      /\ \/ /\ linkUp
            /\ known' = [known EXCEPT ![d] = worker.version]
            /\ unreported' = unreported \ {d}
            /\ stranded' = stranded \ {d}
         \/ /\ ~linkUp
            /\ unreported' = unreported \cup {d}
            /\ UNCHANGED <<known, stranded>>
      /\ silent' = silent \ {d}
      /\ Done
      /\ UNCHANGED <<m_commandBuffer, installer, link, reports, requests>>

Work ==
  \/ TakeCommand \/ DropMalformed
  \/ FileMissing \/ StartInstallation
  \/ AbortRefused \/ AbortAccepted \/ SendAborted
  \/ VersionUnknown \/ GetFirmwareVersion \/ PublishVersion

-----------------------------------------------------------------------------
(* The installer's threads.  An installation may also run for ever.        *)

EndsAs(j, from, to) == jobs[j].state = from /\ jobs' = [jobs EXCEPT ![j].state = to]

InstallerSucceeds(j) ==
  /\ EndsAs(j, "running", "succeeded")
  /\ installed' = [installed EXCEPT ![jobs[j].device] = @ + 1]
  /\ UNCHANGED <<m_commandBuffer, worker, link, versions, reports, requests>>

InstallerFails(j) ==
  /\ EndsAs(j, "running", "failed")
  /\ UNCHANGED <<m_commandBuffer, worker, installed, link, versions, reports, requests>>

SendCompleted(j) ==
  /\ EndsAs(j, "succeeded", "reported")
  /\ SendStatus(jobs[j].device, "COMPLETED", j)
  /\ UNCHANGED <<m_commandBuffer, worker, installed, link, versions, requests>>

PublishFirmwareVersion(d) == AddToCommandBuffer([op |-> "version", device |-> d])

(* Mutant: the version is left to the next connect.                        *)
QueueVersion_Forgotten(j) ==
  /\ EndsAs(j, "reported", "over")
  /\ UNCHANGED <<m_commandBuffer, worker, installed, link, versions, reports, requests>>

(* Mutant: the installer's thread publishes the version itself.            *)
QueueVersion_InPlace(j) ==
  /\ EndsAs(j, "reported", "over")
  /\ linkUp
  /\ known' = [known EXCEPT ![jobs[j].device] = installed[jobs[j].device]]
  /\ UNCHANGED <<m_commandBuffer, worker, installed, link, silent, unreported,
                 stranded, reports, requests>>

QueueVersion(j) ==
  /\ EndsAs(j, "reported", "over")
  /\ PublishFirmwareVersion(jobs[j].device)
  /\ UNCHANGED <<worker, installed, link, versions, reports, requests>>

InstallFailed(j) ==
  /\ EndsAs(j, "failed", "over")
  /\ SendStatus(jobs[j].device, "INSTALLATION_FAILED", j)
  /\ UNCHANGED <<m_commandBuffer, worker, installed, link, versions, requests>>

Installer ==
  \E j \in DOMAIN jobs :
    \/ InstallerSucceeds(j) \/ InstallerFails(j)
    \/ SendCompleted(j) \/ QueueVersion(j)
    \/ InstallFailed(j)

-----------------------------------------------------------------------------
(* Wolk, and the session its connectivity service has with the broker.     *)

(* A connect or a reconnect that succeeds, with a session there already or *)
(* without.  Some announce versions: a connect that is to publish right    *)
(* away has Wolk's worker push a report of each device it holds by then,   *)
(* one after the other.  A connect(false) announces nothing, nor does the  *)
(* reconnect() with which addDevice gets its device into the last will.    *)
SessionOpened(announced) ==
  /\ sessions < MaxSessions
  /\ sessions' = sessions + 1
  /\ linkUp' = TRUE
  /\ announce' = announce \cup announced
  /\ stranded' = stranded \cup (unreported \ announced)
  /\ UNCHANGED <<m_commandBuffer, worker, installer, known, silent, unreported,
                 reports, requests>>

(* The connection is lost, the user disconnects, or a connect or reconnect *)
(* has given up the session before and did not get a new one yet.          *)
SessionClosed ==
  /\ linkUp
  /\ linkUp' = FALSE
  /\ UNCHANGED <<m_commandBuffer, worker, installer, announce, sessions, versions,
                 reports, requests>>

(* handleRegistrationResponse, if the platform accepted the device.        *)
RegistrationAccepted(d) ==
  /\ requests < MaxRequests
  /\ requests' = requests + 1
  /\ announce' = announce \cup {d}
  /\ UNCHANGED <<m_commandBuffer, worker, installer, linkUp, sessions, versions, reports>>

AnnounceVersion(d) ==
  /\ d \in announce
  /\ announce' = announce \ {d}
  /\ PublishFirmwareVersion(d)
  /\ UNCHANGED <<worker, installer, linkUp, sessions, versions, reports, requests>>

Next ==
  \/ \E d \in Devices :
       \/ RequestInstall(d) \/ RequestAbort(d)
       \/ RegistrationAccepted(d) \/ AnnounceVersion(d)
  \/ RequestMalformed
  \/ Work
  \/ Installer
  \/ \E announced \in SUBSET Devices : SessionOpened(announced)
  \/ SessionClosed

Spec == Init /\ [][Next]_vars

(* The worker runs as long as the buffer has commands.  Nothing is asked   *)
(* of the installer: an installation may never end.                        *)
FairSpec == Spec /\ WF_vars(Work)

-----------------------------------------------------------------------------
(* Each outcome sent about a device closes an installation of that device  *)
(* whose beginning was sent before, and closes it once: the statuses come  *)
(* from the worker and from the installer's threads, and an abort may      *)
(* cross the end of the installation it is meant for.                      *)
OneOutcomePerInstallation ==
  \A d \in Devices : \A i \in DOMAIN reports[d] :
    reports[d][i].status \in Outcomes =>
      /\ \E k \in 1 .. i - 1 :
           reports[d][k] = [status |-> "INSTALLATION", job |-> reports[d][i].job]
      /\ \A k \in DOMAIN reports[d] \ {i} :
           reports[d][k].job = reports[d][i].job => reports[d][k].status \notin Outcomes

(* The platform's idea of a device's firmware never goes back, although an *)
(* installation may end between the read of a version and its publish:     *)
(* reads and publishes are the business of one thread.                     *)
VersionsDoNotGoBack == [][\A d \in Devices : known'[d] >= known[d]]_vars

Quiescent ==
  /\ m_commandBuffer = <<>>
  /\ worker.pc = "idle"
  /\ announce = {}
  /\ \A j \in DOMAIN jobs : jobs[j].state \notin {"succeeded", "reported"}

(* Online and with nothing left to do, the platform knows the version that *)
(* each device runs.  A report that fails is only logged; what repairs it  *)
(* is the announcement of a later session, which meets reads, publishes    *)
(* and ends of installations in any order.  Exempt are the devices whose   *)
(* version could not be had the last time, and those the code leaves       *)
(* stranded: their report failed, and a session that announces nothing of  *)
(* them, that of connect(false) or of addDevice, came next.                *)
PlatformKnowsVersions ==
  Quiescent /\ linkUp =>
    \A d \in Devices \ (silent \cup stranded) : known[d] = installed[d]

AbortQueued == \E i \in DOMAIN m_commandBuffer : m_commandBuffer[i].op = "abort"

(* An abort is carried out even if the installation before it never ends:  *)
(* installations do not hold the worker.                                   *)
AbortIsNotBlocked == AbortQueued ~> ~AbortQueued

(* What holds of versions at every moment: the worker's copy lies between  *)
(* what the platform knows and what the device runs.                       *)
VersionInv ==
  \A d \in Devices :
    /\ known[d] =< installed[d]
    /\ worker.pc = "publish" /\ worker.cmd.device = d =>
         known[d] =< worker.version /\ worker.version =< installed[d]

Announced(d, j) ==
  \E k \in DOMAIN reports[d] : reports[d][k] = [status |-> "INSTALLATION", job |-> j]

(* Between the installer's consent to an abort and the status about it.    *)
BeingAborted(j) == worker.pc = "aborted" /\ worker.job = j

InstallAnnounced ==
  worker.pc = "install" =>
    worker.job = Len(jobs) + 1 /\ Announced(worker.cmd.device, worker.job)

AbortTaken ==
  worker.pc = "aborted" =>
    /\ worker.job \in DOMAIN jobs
    /\ jobs[worker.job] = [device |-> worker.cmd.device, state |-> "aborted"]

JobsAnnounced == \A j \in DOMAIN jobs : Announced(jobs[j].device, j)

Told(j, d) ==
  /\ j \in DOMAIN jobs
  /\ jobs[j].device = d
  /\ jobs[j].state \in {"reported", "aborted", "over"}
  /\ ~BeingAborted(j)

OutcomesTaken ==
  \A d \in Devices : \A i \in DOMAIN reports[d] :
    reports[d][i].status \in Outcomes => Told(reports[d][i].job, d)

(* Jobs and what was said of them agree at every moment: an installation   *)
(* is announced before there is a job, an outcome is sent only after the   *)
(* job took it, and a job that was aborted has not been reported before    *)
(* the worker did.                                                         *)
CourseInv == InstallAnnounced /\ AbortTaken /\ JobsAnnounced /\ OutcomesTaken

=============================================================================
