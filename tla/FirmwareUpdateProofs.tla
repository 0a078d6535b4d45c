------------------------ MODULE FirmwareUpdateProofs ------------------------
(***************************************************************************)
(* Proofs about FirmwareUpdate, for all devices, requests and sessions.    *)
(***************************************************************************)
EXTENDS FirmwareUpdate, TLAPS

USE DEF installer, link, versions

(* A command other than a malformed one names a device.                    *)
LEMMA CommandFields ==
  \A c \in Command :
    /\ c.op \in {"install", "abort", "version", "malformed"}
    /\ c.op # "malformed" => c.device \in Devices
  BY DEF Command, Requests, Malformed

LEMMA CommandsMade ==
  /\ Malformed \in Command
  /\ \A op \in {"install", "abort", "version"}, d \in Devices :
       [op |-> op, device |-> d] \in Command
  BY DEF Command, Requests, Malformed

LEMMA IdleTyped == Idle \in Worker
  BY CommandsMade DEF Idle, Worker

(* Taking a command gives the worker a command.                            *)
LEMMA TakeTyped ==
  ASSUME m_commandBuffer \in Seq(Command), m_commandBuffer # <<>>
  PROVE  /\ Head(m_commandBuffer) \in Command
         /\ Tail(m_commandBuffer) \in Seq(Command)
         /\ [Idle EXCEPT !.pc = "run", !.cmd = Head(m_commandBuffer)] \in Worker
<1>1. Head(m_commandBuffer) \in Command /\ Tail(m_commandBuffer) \in Seq(Command)
  OBVIOUS
<1> QED
  BY <1>1 DEF Idle, Worker

(* Pushing a command keeps the buffer a sequence of commands.              *)
LEMMA PushTyped ==
  ASSUME m_commandBuffer \in Seq(Command), NEW c \in Command, AddToCommandBuffer(c)
  PROVE  m_commandBuffer' \in Seq(Command)
  BY DEF AddToCommandBuffer

(* A status sent about a device makes its reports one longer.              *)
LEMMA SendTyped ==
  ASSUME reports \in [Devices -> Seq(Status)],
         NEW d \in Devices,
         NEW s \in {"INSTALLATION", "FILE_SYSTEM_ERROR"} \cup Outcomes,
         NEW j \in Nat,
         SendStatus(d, s, j)
  PROVE  reports' \in [Devices -> Seq(Status)]
<1>1. [status |-> s, job |-> j] \in Status
  BY DEF Status
<1>2. Append(reports[d], [status |-> s, job |-> j]) \in Seq(Status)
  BY <1>1
<1> QED
  BY <1>2 DEF SendStatus

(* A job that changes its state stays a job, of the same device.           *)
LEMMA JobTyped ==
  ASSUME jobs \in Seq(Job), NEW j \in DOMAIN jobs,
         NEW s \in {"running", "succeeded", "reported", "failed", "aborted", "over"}
  PROVE  /\ jobs[j].device \in Devices
         /\ [jobs EXCEPT ![j].state = s] \in Seq(Job)
         /\ Len(jobs) \in Nat
         /\ DOMAIN jobs = 1 .. Len(jobs)
         /\ j \in Nat
<1>1. jobs[j] \in Job
  OBVIOUS
<1>2. [jobs[j] EXCEPT !.state = s] \in Job
  BY <1>1 DEF Job
<1>3. [jobs EXCEPT ![j] = [jobs[j] EXCEPT !.state = s]] \in Seq(Job)
  BY <1>2
<1> QED
  BY <1>1, <1>3 DEF Job

LEMMA TypeInit == Init => TypeOK
<1> SUFFICES ASSUME Init PROVE TypeOK
  OBVIOUS
<1>1. <<>> \in Seq(Command) /\ <<>> \in Seq(Job) /\ <<>> \in Seq(Status)
  OBVIOUS
<1>2. reports \in [Devices -> Seq(Status)] /\ known \in [Devices -> Nat]
      /\ installed \in [Devices -> Nat]
  BY <1>1 DEF Init
<1>3. worker.pc = "idle"
  BY DEF Init, Idle
<1>4. m_commandBuffer \in Seq(Command) /\ jobs \in Seq(Job) /\ worker \in Worker
      /\ linkUp \in BOOLEAN
  BY <1>1, IdleTyped DEF Init
<1>5. announce \subseteq Devices /\ silent \subseteq Devices
      /\ unreported \subseteq Devices /\ stranded \subseteq unreported
      /\ requests \in Nat /\ sessions \in Nat
  BY DEF Init
<1> QED
  BY <1>2, <1>3, <1>4, <1>5 DEF TypeOK

(* Every step of the worker keeps the types.                               *)
LEMMA TypeWork == TypeOK /\ Work => TypeOK'
<1> SUFFICES ASSUME TypeOK, Work PROVE TypeOK'
  OBVIOUS
<1> USE DEF TypeOK
<1>0. worker.cmd \in Command /\ worker.job \in Nat /\ worker.version \in Nat
  BY DEF Worker
<1>1. worker.cmd.op # "malformed" => worker.cmd.device \in Devices
  BY <1>0, CommandFields
<1>2. CASE TakeCommand
  <2>1. worker' \in Worker /\ worker'.pc = "run" /\ m_commandBuffer' \in Seq(Command)
    BY <1>2, TakeTyped DEF TakeCommand, Idle
  <2> QED
    BY <1>2, <2>1 DEF TakeCommand
<1>3. CASE DropMalformed
  BY <1>3, IdleTyped DEF DropMalformed, Done, Idle
<1>4. CASE FileMissing
  <2>1. reports' \in [Devices -> Seq(Status)]
    BY <1>1, <1>4, SendTyped DEF FileMissing, At
  <2> QED
    BY <1>4, <2>1, IdleTyped DEF FileMissing, Done, Idle
<1>5. CASE SendInstallation
  <2>1. Len(jobs) + 1 \in Nat
    OBVIOUS
  <2>2. reports' \in [Devices -> Seq(Status)]
    BY <1>1, <1>5, <2>1, SendTyped DEF SendInstallation, At
  <2>3. worker' \in Worker /\ worker'.cmd.device \in Devices
    BY <1>1, <1>5, <2>1 DEF SendInstallation, At, Worker
  <2> QED
    BY <1>5, <2>2, <2>3 DEF SendInstallation
<1>6. CASE AskInstaller
  <2>1. [device |-> worker.cmd.device, state |-> "running"] \in Job
    BY <1>1, <1>6 DEF AskInstaller, At, Job
  <2>2. jobs' \in Seq(Job)
    BY <1>6, <2>1 DEF AskInstaller
  <2> QED
    BY <1>6, <2>2, IdleTyped DEF AskInstaller, Done, Idle
<1>7. CASE AbortRefused
  BY <1>7, IdleTyped DEF AbortRefused, Done, Idle
<1>8. CASE AbortAccepted
  <2>1. PICK j \in DOMAIN jobs :
          /\ jobs' = [jobs EXCEPT ![j].state = "aborted"]
          /\ worker' = [worker EXCEPT !.pc = "aborted", !.job = j]
    BY <1>8 DEF AbortAccepted
  <2>2. jobs' \in Seq(Job) /\ j \in Nat
    BY <2>1, JobTyped
  <2>3. worker' \in Worker /\ worker'.cmd.device \in Devices
    BY <1>1, <1>8, <2>1, <2>2 DEF AbortAccepted, At, Worker
  <2> QED
    BY <1>8, <2>2, <2>3 DEF AbortAccepted
<1>9. CASE SendAborted
  <2>1. reports' \in [Devices -> Seq(Status)]
    BY <1>0, <1>1, <1>9, SendTyped DEF SendAborted, At, Outcomes
  <2> QED
    BY <1>9, <2>1, IdleTyped DEF SendAborted, Done, Idle
<1>10. CASE VersionUnknown
  BY <1>1, <1>10, IdleTyped DEF VersionUnknown, At, Done, Idle
<1>11. CASE GetFirmwareVersion
  <2>1. worker' \in Worker /\ worker'.cmd.device \in Devices
    BY <1>1, <1>11 DEF GetFirmwareVersion, At, Worker
  <2> QED
    BY <1>11, <2>1 DEF GetFirmwareVersion
<1>12. CASE PublishVersion
  <2>1. known' \in [Devices -> Nat]
    BY <1>0, <1>12 DEF PublishVersion
  <2>2. unreported' \subseteq Devices /\ stranded' \subseteq unreported'
    BY <1>12 DEF PublishVersion, At
  <2> QED
    BY <1>12, <2>1, <2>2, IdleTyped DEF PublishVersion, Done, Idle
<1> QED
  BY <1>2, <1>3, <1>4, <1>5, <1>6, <1>7, <1>8, <1>9, <1>10, <1>11, <1>12
  DEF Work, StartInstallation

(* So does every step of an installer's thread.                            *)
LEMMA TypeInstaller == TypeOK /\ Installer => TypeOK'
<1> SUFFICES ASSUME TypeOK, NEW j \in DOMAIN jobs,
                    \/ InstallerSucceeds(j) \/ InstallerFails(j)
                    \/ SendCompleted(j) \/ QueueVersion(j)
                    \/ InstallFailed(j)
             PROVE  TypeOK'
  BY DEF Installer
<1> USE DEF TypeOK
<1>1. jobs' \in Seq(Job)
  BY JobTyped DEF InstallerSucceeds, InstallerFails, SendCompleted, QueueVersion,
                  InstallFailed, EndsAs
<1>2. jobs[j].device \in Devices /\ j \in Nat
  BY JobTyped
<1>3. CASE InstallerSucceeds(j)
  BY <1>1, <1>2, <1>3 DEF InstallerSucceeds
<1>4. CASE InstallerFails(j)
  BY <1>1, <1>4 DEF InstallerFails
<1>5. CASE SendCompleted(j)
  <2>1. reports' \in [Devices -> Seq(Status)]
    BY <1>2, <1>5, SendTyped DEF SendCompleted, Outcomes
  <2> QED
    BY <1>1, <1>5, <2>1 DEF SendCompleted
<1>6. CASE QueueVersion(j)
  <2>1. m_commandBuffer' \in Seq(Command)
    BY <1>2, <1>6, CommandsMade, PushTyped DEF QueueVersion, PublishFirmwareVersion
  <2> QED
    BY <1>1, <1>6, <2>1 DEF QueueVersion
<1>7. CASE InstallFailed(j)
  <2>1. reports' \in [Devices -> Seq(Status)]
    BY <1>2, <1>7, SendTyped DEF InstallFailed, Outcomes
  <2> QED
    BY <1>1, <1>7, <2>1 DEF InstallFailed
<1> QED
  BY <1>3, <1>4, <1>5, <1>6, <1>7

LEMMA TypeNext == TypeOK /\ [Next]_vars => TypeOK'
<1> SUFFICES ASSUME TypeOK, [Next]_vars PROVE TypeOK'
  OBVIOUS
<1>1. ASSUME NEW c \in Command, MessageReceived(c) PROVE TypeOK'
  BY <1>1, PushTyped DEF TypeOK, MessageReceived
<1>2. ASSUME NEW d \in Devices, RequestInstall(d) \/ RequestAbort(d) PROVE TypeOK'
  BY <1>1, <1>2, CommandsMade DEF RequestInstall, RequestAbort
<1>3. CASE RequestMalformed
  BY <1>1, <1>3, CommandsMade DEF RequestMalformed
<1>4. ASSUME NEW d \in Devices, AnnounceVersion(d) PROVE TypeOK'
  <2>1. m_commandBuffer' \in Seq(Command)
    BY <1>4, CommandsMade, PushTyped DEF AnnounceVersion, PublishFirmwareVersion, TypeOK
  <2> QED
    BY <1>4, <2>1 DEF AnnounceVersion, TypeOK
<1>5. ASSUME NEW ds \in SUBSET Devices, SessionOpened(ds) PROVE TypeOK'
  <2>1. sessions' \in Nat
    BY <1>5 DEF SessionOpened, TypeOK
  <2>2. announce' \subseteq Devices /\ stranded' \subseteq unreported'
    BY <1>5 DEF SessionOpened, TypeOK
  <2> QED
    BY <1>5, <2>1, <2>2 DEF SessionOpened, TypeOK
<1>8. ASSUME NEW d \in Devices, RegistrationAccepted(d) PROVE TypeOK'
  <2>1. requests' \in Nat
    BY <1>8 DEF RegistrationAccepted, TypeOK
  <2>2. announce' \subseteq Devices
    BY <1>8 DEF RegistrationAccepted, TypeOK
  <2> QED
    BY <1>8, <2>1, <2>2 DEF RegistrationAccepted, TypeOK
<1>6. CASE SessionClosed
  BY <1>6 DEF SessionClosed, TypeOK
<1>7. CASE UNCHANGED vars
  BY <1>7 DEF vars, TypeOK
<1> QED
  BY <1>2, <1>3, <1>4, <1>5, <1>6, <1>7, <1>8, TypeWork, TypeInstaller DEF Next

(* The state of FirmwareUpdate keeps its type.                             *)
THEOREM TypeCorrect == Spec => []TypeOK
<1> QED
  BY TypeInit, TypeNext, PTL DEF Spec

-----------------------------------------------------------------------------
(* Versions: what the platform knows, what the worker carries and what the *)
(* device runs never get out of their order.                               *)

LEMMA VersionInit == Init => VersionInv
<1> SUFFICES ASSUME Init PROVE VersionInv
  OBVIOUS
<1>1. worker.pc = "idle"
  BY DEF Init, Idle
<1>2. \A d \in Devices : known[d] = 0 /\ installed[d] = 1
  BY DEF Init
<1>3. \A d \in Devices : known[d] =< installed[d]
  <2> TAKE d \in Devices
  <2>1. known[d] = 0 /\ installed[d] = 1
    BY <1>2
  <2>2. 0 =< 1
    OBVIOUS
  <2> QED
    BY <2>1, <2>2
<1>4. worker.pc # "publish"
  BY <1>1
<1> QED
  BY <1>3, <1>4 DEF VersionInv

(* Steps that leave versions alone and do not carry one.                   *)
LEMMA VersionsUntouched ==
  ASSUME VersionInv, UNCHANGED <<installed, known>>,
         worker'.pc = "publish" => UNCHANGED worker
  PROVE  VersionInv' /\ \A d \in Devices : known'[d] = known[d]
  BY DEF VersionInv

LEMMA VersionNext ==
  ASSUME TypeOK, VersionInv, [Next]_vars
  PROVE  VersionInv' /\ \A d \in Devices : known'[d] >= known[d]
<1>1. known \in [Devices -> Nat] /\ installed \in [Devices -> Nat]
      /\ worker \in Worker
  BY DEF TypeOK
<1>2. \A d \in Devices : known[d] >= known[d]
  BY <1>1
<1>3. CASE UNCHANGED <<installed, known>> /\ (worker'.pc = "publish" => UNCHANGED worker)
  BY <1>2, <1>3, VersionsUntouched
<1>4. CASE GetFirmwareVersion
  <2>1. worker.cmd.device \in Devices
    BY <1>1, <1>4, CommandFields DEF GetFirmwareVersion, At, Worker
  <2>2. worker'.version = installed[worker.cmd.device] /\ worker'.cmd = worker.cmd
    BY <1>1, <1>4 DEF GetFirmwareVersion, Worker
  <2>3. installed' = installed /\ known' = known
    BY <1>4 DEF GetFirmwareVersion
  <2> QED
    BY <1>1, <1>2, <2>1, <2>2, <2>3 DEF VersionInv
<1>5. CASE PublishVersion
  <2>1. worker'.pc = "idle" /\ installed' = installed
    BY <1>5 DEF PublishVersion, Done, Idle
  <2>2. worker.pc = "publish"
    BY <1>5 DEF PublishVersion, At
  <2>3. worker.version \in Nat
    BY <1>1 DEF Worker
  <2>4. ASSUME NEW d \in Devices
        PROVE  known'[d] =< installed[d] /\ known'[d] >= known[d]
    <3>1. CASE linkUp /\ worker.cmd.device = d
      <4>1. known'[d] = worker.version
        BY <1>1, <1>5, <3>1 DEF PublishVersion
      <4> QED
        BY <1>1, <2>2, <2>3, <3>1, <4>1 DEF VersionInv
    <3>2. CASE ~(linkUp /\ worker.cmd.device = d)
      <4>1. known'[d] = known[d]
        BY <1>1, <1>5, <3>2 DEF PublishVersion
      <4> QED
        BY <1>1, <4>1 DEF VersionInv
    <3> QED
      BY <3>1, <3>2
  <2> QED
    BY <2>1, <2>4 DEF VersionInv
<1>6. ASSUME NEW j \in DOMAIN jobs, InstallerSucceeds(j)
      PROVE  VersionInv' /\ \A d \in Devices : known'[d] >= known[d]
  <2>1. known' = known /\ worker' = worker
    BY <1>6 DEF InstallerSucceeds
  <2>2. \A d \in Devices : installed'[d] >= installed[d] /\ installed'[d] \in Nat
    BY <1>1, <1>6 DEF InstallerSucceeds
  <2>3. worker.version \in Nat
    BY <1>1 DEF Worker
  <2>4. ASSUME NEW d \in Devices
        PROVE  /\ known'[d] =< installed'[d] /\ known'[d] >= known[d]
               /\ worker'.pc = "publish" /\ worker'.cmd.device = d =>
                    known'[d] =< worker'.version /\ worker'.version =< installed'[d]
    BY <1>1, <2>1, <2>2, <2>3 DEF VersionInv
  <2> QED
    BY <2>4 DEF VersionInv
<1>7. ASSUME Work PROVE VersionInv' /\ \A d \in Devices : known'[d] >= known[d]
  <2>1. CASE TakeCommand
    BY <1>3, <2>1 DEF TakeCommand, Idle
  <2>2. CASE DropMalformed \/ FileMissing \/ AskInstaller \/ AbortRefused \/ SendAborted
             \/ VersionUnknown
    BY <1>3, <2>2 DEF DropMalformed, FileMissing, AskInstaller, AbortRefused, SendAborted,
                      VersionUnknown, Done, Idle
  <2>3. CASE SendInstallation
    <3>1. worker'.pc = "install"
      BY <1>1, <2>3 DEF SendInstallation, Worker
    <3> QED
      BY <1>3, <2>3, <3>1 DEF SendInstallation
  <2>4. CASE AbortAccepted
    <3>1. worker'.pc = "aborted"
      BY <1>1, <2>4 DEF AbortAccepted, Worker
    <3> QED
      BY <1>3, <2>4, <3>1 DEF AbortAccepted
  <2> QED
    BY <1>4, <1>5, <1>7, <2>1, <2>2, <2>3, <2>4 DEF Work, StartInstallation
<1>8. ASSUME Installer PROVE VersionInv' /\ \A d \in Devices : known'[d] >= known[d]
  BY <1>3, <1>6, <1>8 DEF Installer, InstallerFails, SendCompleted, QueueVersion,
                          InstallFailed
<1>9. CASE \/ \E d \in Devices : \/ RequestInstall(d) \/ RequestAbort(d)
                               \/ RegistrationAccepted(d) \/ AnnounceVersion(d)
           \/ RequestMalformed \/ SessionClosed \/ UNCHANGED vars
           \/ \E ds \in SUBSET Devices : SessionOpened(ds)
  BY <1>3, <1>9 DEF RequestInstall, RequestAbort, RequestMalformed, MessageReceived,
                    RegistrationAccepted, AnnounceVersion, SessionOpened, SessionClosed, vars
<1> QED
  BY <1>7, <1>8, <1>9 DEF Next

(* The version on its way lies between what the platform knows and what    *)
(* the device runs, whatever ends between the read and the publish.        *)
THEOREM VersionsInOrder == Spec => []VersionInv
<1>1. TypeOK /\ VersionInv /\ [Next]_vars => VersionInv'
  BY VersionNext
<1> QED
  BY <1>1, VersionInit, TypeCorrect, PTL DEF Spec

(* The platform's knowledge of a device's version never goes back.         *)
THEOREM KnownNeverGoesBack == Spec => VersionsDoNotGoBack
<1>1. TypeOK /\ VersionInv /\ [Next]_vars =>
        [\A d \in Devices : known'[d] >= known[d]]_vars
  BY VersionNext
<1> QED
  BY <1>1, VersionsInOrder, TypeCorrect, PTL DEF Spec, VersionsDoNotGoBack

-----------------------------------------------------------------------------
(* The course of an installation.                                          *)

(* After a status is sent the reports are the old ones and, last among     *)
(* those of its device, the new one.                                       *)
LEMMA StatusSent ==
  ASSUME reports \in [Devices -> Seq(Status)],
         NEW d \in Devices, NEW s, NEW j, SendStatus(d, s, j)
  PROVE  /\ \A e \in Devices : \A i \in DOMAIN reports[e] :
              i \in DOMAIN reports'[e] /\ reports'[e][i] = reports[e][i]
         /\ \A e \in Devices : \A i \in DOMAIN reports'[e] \ DOMAIN reports[e] :
              /\ e = d
              /\ reports'[e][i] = [status |-> s, job |-> j]
              /\ \A k \in DOMAIN reports[e] : k \in 1 .. i - 1
              /\ \A k \in DOMAIN reports'[e] \ {i} : k \in DOMAIN reports[e]
         /\ \E i \in DOMAIN reports'[d] : reports'[d][i] = [status |-> s, job |-> j]
<1> DEFINE r == [status |-> s, job |-> j]
<1> HIDE DEF r
<1>1. reports' = [reports EXCEPT ![d] = Append(reports[d], r)]
  BY DEF SendStatus, r
<1>2. reports'[d] = Append(reports[d], r) /\ \A e \in Devices \ {d} : reports'[e] = reports[e]
  BY <1>1
<1>3. reports[d] \in Seq(Status) /\ Len(reports[d]) \in Nat
      /\ DOMAIN reports[d] = 1 .. Len(reports[d])
  OBVIOUS
<1>4. /\ DOMAIN Append(reports[d], r) = 1 .. Len(reports[d]) + 1
      /\ Append(reports[d], r)[Len(reports[d]) + 1] = r
      /\ \A i \in 1 .. Len(reports[d]) : Append(reports[d], r)[i] = reports[d][i]
  BY <1>3
<1>5. /\ DOMAIN reports'[d] = 1 .. Len(reports[d]) + 1
      /\ reports'[d][Len(reports[d]) + 1] = r
      /\ \A i \in 1 .. Len(reports[d]) : reports'[d][i] = reports[d][i]
  BY <1>2, <1>4
<1>6. \A e \in Devices : \A i \in DOMAIN reports[e] :
        i \in DOMAIN reports'[e] /\ reports'[e][i] = reports[e][i]
  <2>1. \A i \in DOMAIN reports[d] : i \in DOMAIN reports'[d] /\ reports'[d][i] = reports[d][i]
    BY <1>3, <1>5
  <2>2. ASSUME NEW e \in Devices, NEW i \in DOMAIN reports[e]
        PROVE  i \in DOMAIN reports'[e] /\ reports'[e][i] = reports[e][i]
    <3>1. CASE e = d
      BY <2>1, <2>2, <3>1
    <3>2. CASE e # d
      <4>1. reports'[e] = reports[e]
        BY <1>2, <3>2
      <4> QED
        BY <2>2, <4>1
    <3> QED
      BY <3>1, <3>2
  <2> QED
    BY <2>2
<1>7. ASSUME NEW e \in Devices, NEW i \in DOMAIN reports'[e] \ DOMAIN reports[e]
      PROVE  /\ e = d
             /\ reports'[e][i] = r
             /\ \A k \in DOMAIN reports[e] : k \in 1 .. i - 1
             /\ \A k \in DOMAIN reports'[e] \ {i} : k \in DOMAIN reports[e]
  <2>1. e = d
    BY <1>2, <1>7
  <2>2. i = Len(reports[d]) + 1
    BY <1>3, <1>5, <1>7, <2>1
  <2> QED
    BY <1>3, <1>5, <2>1, <2>2
<1>8. \E i \in DOMAIN reports'[d] : reports'[d][i] = r
  BY <1>3, <1>5
<1> QED
  BY <1>6, <1>7, <1>8 DEF r

LEMMA StillAnnounced ==
  ASSUME reports \in [Devices -> Seq(Status)],
         NEW d \in Devices, NEW s, NEW j, SendStatus(d, s, j),
         NEW e \in Devices, NEW k, Announced(e, k)
  PROVE  Announced(e, k)'
  BY StatusSent DEF Announced

(* Sending a status that is no outcome, or the first outcome of a job that *)
(* was announced.                                                          *)
LEMMA OneOutcomeSent ==
  ASSUME reports \in [Devices -> Seq(Status)],
         OneOutcomePerInstallation,
         NEW d \in Devices, NEW s, NEW j, SendStatus(d, s, j),
         s \in Outcomes =>
           /\ Announced(d, j)
           /\ \A i \in DOMAIN reports[d] :
                reports[d][i].status \in Outcomes => reports[d][i].job # j
  PROVE  OneOutcomePerInstallation'
<1>1. ASSUME NEW e \in Devices, NEW i \in DOMAIN reports'[e],
             reports'[e][i].status \in Outcomes
      PROVE  /\ \E k \in 1 .. i - 1 :
                  reports'[e][k] = [status |-> "INSTALLATION", job |-> reports'[e][i].job]
             /\ \A k \in DOMAIN reports'[e] \ {i} :
                  reports'[e][k].job = reports'[e][i].job =>
                    reports'[e][k].status \notin Outcomes
  <2>1. CASE i \in DOMAIN reports[e]
    <3>1. reports'[e][i] = reports[e][i]
      BY <2>1, StatusSent
    <3>2. PICK k \in 1 .. i - 1 :
            reports[e][k] = [status |-> "INSTALLATION", job |-> reports[e][i].job]
      BY <1>1, <2>1, <3>1 DEF OneOutcomePerInstallation
    <3>3. reports[e] \in Seq(Status)
      OBVIOUS
    <3>4. k \in DOMAIN reports[e]
      BY <2>1, <3>3
    <3>5. reports'[e][k] = [status |-> "INSTALLATION", job |-> reports'[e][i].job]
      BY <3>1, <3>2, <3>4, StatusSent
    <3>6. ASSUME NEW l \in DOMAIN reports'[e] \ {i},
                 reports'[e][l].job = reports'[e][i].job
          PROVE  reports'[e][l].status \notin Outcomes
      <4>1. CASE l \in DOMAIN reports[e]
        <5>1. reports'[e][l] = reports[e][l]
          BY <4>1, StatusSent
        <5>2. l \in DOMAIN reports[e] \ {i} /\ reports[e][l].job = reports[e][i].job
          BY <3>1, <3>6, <4>1, <5>1
        <5>3. reports[e][i].status \in Outcomes
          BY <1>1, <3>1
        <5>4. reports[e][l].status \notin Outcomes
          BY <2>1, <5>2, <5>3 DEF OneOutcomePerInstallation
        <5> QED
          BY <5>1, <5>4
      <4>2. CASE l \notin DOMAIN reports[e]
        <5>1. e = d /\ reports'[e][l] = [status |-> s, job |-> j]
          BY <4>2, StatusSent
        <5> QED
          BY <1>1, <2>1, <3>1, <3>6, <5>1
      <4> QED
        BY <4>1, <4>2
    <3> QED
      BY <3>5, <3>6
  <2>2. CASE i \notin DOMAIN reports[e]
    <3>1. /\ e = d
          /\ reports'[e][i] = [status |-> s, job |-> j]
          /\ \A k \in DOMAIN reports[e] : k \in 1 .. i - 1
          /\ \A k \in DOMAIN reports'[e] \ {i} : k \in DOMAIN reports[e]
      BY <2>2, StatusSent
    <3>2. s \in Outcomes
      BY <1>1, <3>1
    <3>3. PICK k \in DOMAIN reports[d] :
            reports[d][k] = [status |-> "INSTALLATION", job |-> j]
      BY <3>2 DEF Announced
    <3>4. k \in 1 .. i - 1
          /\ reports'[e][k] = [status |-> "INSTALLATION", job |-> reports'[e][i].job]
      BY <3>1, <3>3, StatusSent
    <3>5. \A l \in DOMAIN reports'[e] \ {i} :
            reports'[e][l].job = reports'[e][i].job => reports'[e][l].status \notin Outcomes
      BY <3>1, <3>2, StatusSent
    <3> QED
      BY <3>4, <3>5
  <2> QED
    BY <2>1, <2>2
<1> QED
  BY <1>1 DEF OneOutcomePerInstallation

LEMMA CourseInit == Init => CourseInv /\ OneOutcomePerInstallation
<1> SUFFICES ASSUME Init PROVE CourseInv /\ OneOutcomePerInstallation
  OBVIOUS
<1>1. worker.pc = "idle"
  BY DEF Init, Idle
<1>2. DOMAIN jobs = {} /\ \A d \in Devices : DOMAIN reports[d] = {}
  BY DEF Init
<1> QED
  BY <1>1, <1>2 DEF CourseInv, InstallAnnounced, AbortTaken, JobsAnnounced,
                    OutcomesTaken, OneOutcomePerInstallation

(* Nothing sent.                                                           *)
LEMMA NothingSent ==
  ASSUME OneOutcomePerInstallation, UNCHANGED reports
  PROVE  /\ OneOutcomePerInstallation'
         /\ \A d \in Devices, j \in Nat : Announced(d, j) => Announced(d, j)'
  BY DEF OneOutcomePerInstallation, Announced

LEMMA NoOutcomeSent ==
  ASSUME OutcomesTaken, UNCHANGED reports,
         \A d \in Devices, j \in Nat : Told(j, d) => Told(j, d)',
         reports \in [Devices -> Seq(Status)]
  PROVE  OutcomesTaken'
<1>1. ASSUME NEW d \in Devices, NEW i \in DOMAIN reports[d]
      PROVE  reports[d][i].job \in Nat
  <2>1. reports[d] \in Seq(Status)
    OBVIOUS
  <2>2. reports[d][i] \in Status
    BY <1>1, <2>1
  <2> QED
    BY <2>2 DEF Status
<1>2. ASSUME NEW d \in Devices, NEW i \in DOMAIN reports'[d],
             reports'[d][i].status \in Outcomes
      PROVE  Told(reports[d][i].job, d)'
  <2>1. PICK j \in Nat : j = reports[d][i].job
    BY <1>1, <1>2
  <2>2. Told(j, d)
    BY <1>2, <2>1 DEF OutcomesTaken
  <2>3. Told(j, d)'
    BY <2>2
  <2>4. j = reports'[d][i].job
    BY <2>1
  <2> QED
    BY <2>3, <2>4 DEF Told, BeingAborted
<1> QED
  BY <1>2 DEF OutcomesTaken

(* A status sent, one that the job of it took if it is an outcome.         *)
LEMMA OutcomeSent ==
  ASSUME OutcomesTaken,
         reports \in [Devices -> Seq(Status)],
         NEW d \in Devices, NEW s, NEW j \in Nat, SendStatus(d, s, j),
         s \in Outcomes => Told(j, d)',
         \A e \in Devices, k \in Nat : Told(k, e) => Told(k, e)'
  PROVE  OutcomesTaken'
<1>1. ASSUME NEW e \in Devices, NEW i \in DOMAIN reports[e]
      PROVE  reports[e][i].job \in Nat
  <2>1. reports[e] \in Seq(Status)
    OBVIOUS
  <2>2. reports[e][i] \in Status
    BY <1>1, <2>1
  <2> QED
    BY <2>2 DEF Status
<1>2. ASSUME NEW e \in Devices, NEW i \in DOMAIN reports'[e],
             reports'[e][i].status \in Outcomes
      PROVE  Told(reports[e][i].job, e)'
  <2>1. CASE i \in DOMAIN reports[e]
    <3>1. reports'[e][i] = reports[e][i]
      BY <2>1, StatusSent
    <3>2. PICK k \in Nat : k = reports[e][i].job
      BY <1>1, <2>1
    <3>3. Told(k, e)
      BY <1>2, <2>1, <3>1, <3>2 DEF OutcomesTaken
    <3>4. Told(k, e)'
      BY <3>3
    <3>5. k = reports'[e][i].job
      BY <3>1, <3>2
    <3> QED
      BY <3>4, <3>5 DEF Told, BeingAborted
  <2>2. CASE i \notin DOMAIN reports[e]
    <3>1. e = d /\ reports'[e][i] = [status |-> s, job |-> j]
      BY <2>2, StatusSent
    <3>2. Told(j, d)' /\ reports'[e][i].job = j
      BY <1>2, <3>1
    <3> QED
      BY <3>1, <3>2 DEF Told, BeingAborted
  <2> QED
    BY <2>1, <2>2
<1> QED
  BY <1>2 DEF OutcomesTaken

(* A job that changes its state, seen from all jobs.                       *)
LEMMA JobMoves ==
  ASSUME jobs \in Seq(Job), NEW j \in DOMAIN jobs, NEW s,
         jobs' = [jobs EXCEPT ![j].state = s]
  PROVE  /\ DOMAIN jobs' = DOMAIN jobs
         /\ Len(jobs') = Len(jobs)
         /\ \A k \in DOMAIN jobs : jobs'[k].device = jobs[k].device
         /\ \A k \in DOMAIN jobs \ {j} : jobs'[k] = jobs[k]
         /\ jobs'[j] = [device |-> jobs[j].device, state |-> s]
<1>1. jobs[j] \in Job
  OBVIOUS
<1>2. [jobs[j] EXCEPT !.state = s] = [device |-> jobs[j].device, state |-> s]
  BY <1>1 DEF Job
<1> DEFINE job == [device |-> jobs[j].device, state |-> s]
<1>3. job.device = jobs[j].device
  OBVIOUS
<1>4. jobs' = [jobs EXCEPT ![j] = job]
  BY <1>2
<1> HIDE DEF job
<1>5. /\ DOMAIN jobs' = DOMAIN jobs
      /\ Len(jobs') = Len(jobs)
      /\ \A k \in DOMAIN jobs \ {j} : jobs'[k] = jobs[k]
      /\ jobs'[j] = job
  BY <1>4
<1> QED
  BY <1>3, <1>5 DEF job

(* A step of an installation on the installer's threads.                   *)
LEMMA InstallerMoves ==
  ASSUME TypeOK, CourseInv, UNCHANGED worker,
         NEW j \in DOMAIN jobs,
         NEW from \in {"running", "succeeded", "reported", "failed"},
         NEW to \in {"succeeded", "failed", "reported", "over"},
         from = "reported" => to = "over",
         EndsAs(j, from, to),
         \A d \in Devices, k \in Nat : Announced(d, k) => Announced(d, k)'
  PROVE  /\ InstallAnnounced' /\ AbortTaken' /\ JobsAnnounced'
         /\ \A d \in Devices, k \in Nat : Told(k, d) => Told(k, d)'
         /\ to \in {"reported", "over"} => Told(j, jobs[j].device)'
<1> USE DEF CourseInv
<1>1. /\ DOMAIN jobs' = DOMAIN jobs
      /\ Len(jobs') = Len(jobs)
      /\ \A k \in DOMAIN jobs : jobs'[k].device = jobs[k].device
      /\ \A k \in DOMAIN jobs \ {j} : jobs'[k] = jobs[k]
      /\ jobs'[j] = [device |-> jobs[j].device, state |-> to]
  BY JobMoves DEF EndsAs, TypeOK
<1>2. jobs[j].state = from
  BY DEF EndsAs
<1>3. \A k \in DOMAIN jobs : k \in Nat /\ jobs[k].device \in Devices
  BY JobTyped DEF TypeOK
<1>4. InstallAnnounced'
  <2>1. worker.job \in Nat /\ (worker.pc = "install" => worker.cmd.device \in Devices)
    BY DEF TypeOK, Worker
  <2>2. worker.pc = "install" => Announced(worker.cmd.device, worker.job)
    BY DEF InstallAnnounced
  <2>3. worker.pc = "install" => Announced(worker.cmd.device, worker.job)'
    <3> SUFFICES ASSUME worker.pc = "install"
                 PROVE  Announced(worker.cmd.device, worker.job)'
      OBVIOUS
    <3>1. PICK d \in Devices, k \in Nat : d = worker.cmd.device /\ k = worker.job
      BY <2>1
    <3>2. Announced(d, k)
      BY <2>2, <3>1 DEF Announced
    <3>3. Announced(d, k)'
      BY <3>2
    <3>4. d = worker'.cmd.device /\ k = worker'.job
      BY <3>1
    <3> QED
      BY <3>3, <3>4 DEF Announced
  <2> QED
    BY <1>1, <2>3 DEF InstallAnnounced
<1>5. worker.pc = "aborted" => worker.job # j
  BY <1>2 DEF AbortTaken
<1>6. AbortTaken'
  BY <1>1, <1>5 DEF AbortTaken
<1>7. JobsAnnounced'
  <2>1. ASSUME NEW k \in DOMAIN jobs' PROVE Announced(jobs[k].device, k)'
    <3>1. k \in DOMAIN jobs /\ k \in Nat /\ jobs[k].device \in Devices
      BY <1>1, <1>3, <2>1
    <3>2. PICK d \in Devices : d = jobs[k].device
      BY <3>1
    <3>3. Announced(d, k)
      BY <3>1, <3>2 DEF JobsAnnounced, Announced
    <3>4. Announced(d, k)'
      BY <3>1, <3>3
    <3>5. d = jobs'[k].device
      BY <1>1, <3>1, <3>2
    <3> QED
      BY <3>4, <3>5 DEF Announced
  <2> QED
    BY <2>1 DEF JobsAnnounced
<1>8. ASSUME NEW d \in Devices, NEW k \in Nat, Told(k, d) PROVE Told(k, d)'
  <2>1. CASE k = j
    BY <1>1, <1>2, <1>8, <2>1 DEF Told, BeingAborted
  <2>2. CASE k # j
    BY <1>1, <1>8, <2>2 DEF Told, BeingAborted
  <2> QED
    BY <2>1, <2>2
<1>9. to \in {"reported", "over"} => Told(j, jobs[j].device)'
  BY <1>1, <1>5 DEF Told, BeingAborted
<1> QED
  BY <1>4, <1>6, <1>7, <1>8, <1>9

LEMMA NotToldYet ==
  ASSUME OutcomesTaken, NEW d \in Devices, NEW j, ~Told(j, d)
  PROVE  \A i \in DOMAIN reports[d] :
           reports[d][i].status \in Outcomes => reports[d][i].job # j
  BY DEF OutcomesTaken, Told, BeingAborted

LEMMA CourseInstaller ==
  ASSUME TypeOK, CourseInv, OneOutcomePerInstallation, Installer
  PROVE  CourseInv' /\ OneOutcomePerInstallation'
<1>1. PICK j \in DOMAIN jobs :
        \/ InstallerSucceeds(j) \/ InstallerFails(j)
        \/ SendCompleted(j) \/ QueueVersion(j)
        \/ InstallFailed(j)
  BY DEF Installer
<1>2. j \in Nat /\ jobs[j].device \in Devices
  BY JobTyped DEF TypeOK
<1>3. reports \in [Devices -> Seq(Status)]
  BY DEF TypeOK
<1>4. PICK d \in Devices : d = jobs[j].device
  BY <1>2
<1>5. Announced(d, j)
  BY <1>4 DEF CourseInv, JobsAnnounced, Announced
<1>6. OutcomesTaken
  BY DEF CourseInv
<1>7. ASSUME UNCHANGED <<reports, worker>>,
             \/ EndsAs(j, "running", "succeeded")
             \/ EndsAs(j, "running", "failed")
             \/ EndsAs(j, "reported", "over")
      PROVE  CourseInv' /\ OneOutcomePerInstallation'
  <2>1. OneOutcomePerInstallation'
        /\ \A e \in Devices, k \in Nat : Announced(e, k) => Announced(e, k)'
    BY <1>7, NothingSent
  <2>2. InstallAnnounced' /\ AbortTaken' /\ JobsAnnounced'
        /\ \A e \in Devices, k \in Nat : Told(k, e) => Told(k, e)'
    BY <1>7, <2>1, InstallerMoves
  <2>3. OutcomesTaken'
    BY <1>3, <1>6, <1>7, <2>2, NoOutcomeSent
  <2> QED
    BY <2>1, <2>2, <2>3 DEF CourseInv
<1>8. ASSUME NEW from \in {"succeeded", "failed"}, NEW to \in {"reported", "over"},
             NEW s \in Outcomes,
             EndsAs(j, from, to), SendStatus(d, s, j), UNCHANGED worker
      PROVE  CourseInv' /\ OneOutcomePerInstallation'
  <2>1. ~Told(j, d)
    BY <1>8 DEF EndsAs, Told
  <2>2. \A i \in DOMAIN reports[d] :
          reports[d][i].status \in Outcomes => reports[d][i].job # j
    BY <1>6, <2>1, NotToldYet
  <2>3. OneOutcomePerInstallation'
    BY <1>3, <1>5, <1>8, <2>2, OneOutcomeSent
  <2>4. \A e \in Devices, k \in Nat : Announced(e, k) => Announced(e, k)'
    BY <1>3, <1>8, StillAnnounced
  <2>5. /\ InstallAnnounced' /\ AbortTaken' /\ JobsAnnounced'
        /\ \A e \in Devices, k \in Nat : Told(k, e) => Told(k, e)'
        /\ Told(j, jobs[j].device)'
    BY <1>8, <2>4, InstallerMoves
  <2>6. jobs'[j].device = d
    BY <1>4, <1>8, JobMoves DEF EndsAs, TypeOK
  <2>7. Told(j, d)'
    BY <2>5, <2>6 DEF Told, BeingAborted
  <2>8. OutcomesTaken'
    BY <1>2, <1>3, <1>6, <1>8, <2>5, <2>7, OutcomeSent
  <2> QED
    BY <2>3, <2>5, <2>8 DEF CourseInv
<1>9. CASE InstallerSucceeds(j) \/ InstallerFails(j) \/ QueueVersion(j)
  BY <1>7, <1>9 DEF InstallerSucceeds, InstallerFails, QueueVersion
<1>10. CASE SendCompleted(j) \/ InstallFailed(j)
  BY <1>4, <1>8, <1>10 DEF SendCompleted, InstallFailed, Outcomes
<1> QED
  BY <1>1, <1>9, <1>10

(* Steps that neither send nor touch a job.                                *)
LEMMA CourseQuiet ==
  ASSUME TypeOK, CourseInv, OneOutcomePerInstallation,
         UNCHANGED <<jobs, reports>>,
         worker' = worker \/ worker'.pc \notin {"install", "aborted"}
  PROVE  CourseInv' /\ OneOutcomePerInstallation'
<1>1. OneOutcomePerInstallation'
  BY NothingSent
<1>2. \A d \in Devices, j \in Nat : Told(j, d) => Told(j, d)'
  BY DEF Told, BeingAborted
<1>3. OutcomesTaken'
  BY <1>2, NoOutcomeSent DEF CourseInv, TypeOK
<1>4. InstallAnnounced' /\ AbortTaken' /\ JobsAnnounced'
  BY DEF CourseInv, InstallAnnounced, AbortTaken, JobsAnnounced, Announced
<1> QED
  BY <1>1, <1>3, <1>4 DEF CourseInv

(* Jobs stay announced when they are left alone.                           *)
LEMMA JobsStayAnnounced ==
  ASSUME TypeOK, JobsAnnounced, UNCHANGED jobs,
         \A d \in Devices, k \in Nat : Announced(d, k) => Announced(d, k)'
  PROVE  JobsAnnounced'
<1>1. ASSUME NEW k \in DOMAIN jobs PROVE Announced(jobs[k].device, k)'
  <2>1. k \in Nat /\ jobs[k].device \in Devices
    BY JobTyped DEF TypeOK
  <2>2. PICK d \in Devices : d = jobs[k].device
    BY <2>1
  <2>3. Announced(d, k)
    BY <2>2 DEF JobsAnnounced, Announced
  <2>4. Announced(d, k)' /\ d = jobs'[k].device
    BY <2>1, <2>2, <2>3
  <2> QED
    BY <2>4 DEF Announced
<1> QED
  BY <1>1 DEF JobsAnnounced

LEMMA CourseFileMissing ==
  ASSUME TypeOK, CourseInv, OneOutcomePerInstallation, FileMissing
  PROVE  CourseInv' /\ OneOutcomePerInstallation'
<1>1. worker.cmd.device \in Devices
  BY CommandFields DEF FileMissing, At, TypeOK, Worker
<1>2. PICK d \in Devices : d = worker.cmd.device
  BY <1>1
<1>3. SendStatus(d, "FILE_SYSTEM_ERROR", 0) /\ reports \in [Devices -> Seq(Status)]
  BY <1>2 DEF FileMissing, TypeOK
<1>4. "FILE_SYSTEM_ERROR" \notin Outcomes
  BY DEF Outcomes
<1>5. worker'.pc = "idle" /\ jobs' = jobs
  BY DEF FileMissing, Done, Idle
<1>6. OneOutcomePerInstallation'
  BY <1>3, <1>4, OneOutcomeSent
<1>7. \A e \in Devices, k \in Nat : Announced(e, k) => Announced(e, k)'
  BY <1>3, StillAnnounced
<1>8. JobsAnnounced'
  BY <1>5, <1>7, JobsStayAnnounced DEF CourseInv
<1>9. \A e \in Devices, k \in Nat : Told(k, e) => Told(k, e)'
  BY <1>5 DEF Told, BeingAborted
<1>10. OutcomesTaken'
  BY <1>3, <1>4, <1>9, OutcomeSent DEF CourseInv
<1> QED
  BY <1>5, <1>6, <1>8, <1>10 DEF CourseInv, InstallAnnounced, AbortTaken

LEMMA CourseSendInstallation ==
  ASSUME TypeOK, CourseInv, OneOutcomePerInstallation, SendInstallation
  PROVE  CourseInv' /\ OneOutcomePerInstallation'
<1>1. worker.cmd.device \in Devices
  BY CommandFields DEF SendInstallation, At, TypeOK, Worker
<1>2. PICK d \in Devices : d = worker.cmd.device
  BY <1>1
<1>3. Len(jobs) + 1 \in Nat
  BY DEF TypeOK
<1>4. PICK j \in Nat : j = Len(jobs) + 1
  BY <1>3
<1>5. SendStatus(d, "INSTALLATION", j) /\ reports \in [Devices -> Seq(Status)]
  BY <1>2, <1>4 DEF SendInstallation, TypeOK
<1>6. "INSTALLATION" \notin Outcomes
  BY DEF Outcomes
<1>7. worker'.pc = "install" /\ worker'.job = j /\ worker'.cmd.device = d /\ jobs' = jobs
  BY <1>2, <1>4 DEF SendInstallation, TypeOK, Worker
<1>8. OneOutcomePerInstallation'
  BY <1>5, <1>6, OneOutcomeSent
<1>9. \A e \in Devices, k \in Nat : Announced(e, k) => Announced(e, k)'
  BY <1>5, StillAnnounced
<1>10. JobsAnnounced'
  BY <1>7, <1>9, JobsStayAnnounced DEF CourseInv
<1>11. \A e \in Devices, k \in Nat : Told(k, e) => Told(k, e)'
  BY <1>7 DEF Told, BeingAborted
<1>12. OutcomesTaken'
  BY <1>5, <1>6, <1>11, OutcomeSent DEF CourseInv
<1>13. Announced(d, j)'
  BY <1>5, StatusSent DEF Announced
<1>14. InstallAnnounced'
  BY <1>4, <1>7, <1>13 DEF InstallAnnounced, Announced
<1> QED
  BY <1>7, <1>8, <1>10, <1>12, <1>14 DEF CourseInv, AbortTaken

LEMMA CourseAskInstaller ==
  ASSUME TypeOK, CourseInv, OneOutcomePerInstallation, AskInstaller
  PROVE  CourseInv' /\ OneOutcomePerInstallation'
<1>1. UNCHANGED reports /\ worker'.pc = "idle" /\ worker.pc = "install"
  BY DEF AskInstaller, Done, Idle, At
<1> DEFINE job == [device |-> worker.cmd.device, state |-> "running"]
<1>2. jobs' = Append(jobs, job) /\ job.device = worker.cmd.device
  BY DEF AskInstaller
<1> HIDE DEF job
<1>3. /\ DOMAIN jobs = 1 .. Len(jobs)
      /\ DOMAIN jobs' = 1 .. Len(jobs) + 1
      /\ Len(jobs) \in Nat
      /\ jobs'[Len(jobs) + 1] = job
      /\ \A k \in DOMAIN jobs : jobs'[k] = jobs[k]
  BY <1>2 DEF TypeOK
<1>4. OneOutcomePerInstallation'
  BY <1>1, NothingSent
<1>5. ASSUME NEW k \in DOMAIN jobs' PROVE Announced(jobs[k].device, k)'
  <2>1. CASE k \in DOMAIN jobs
    BY <1>1, <1>3, <2>1 DEF CourseInv, JobsAnnounced, Announced
  <2>2. CASE k \notin DOMAIN jobs
    <3>1. k = Len(jobs) + 1
      BY <1>3, <1>5, <2>2
    <3>2. Announced(worker.cmd.device, k)
      BY <1>1, <3>1 DEF CourseInv, InstallAnnounced, Announced
    <3>3. jobs'[k].device = worker.cmd.device
      BY <1>2, <1>3, <3>1
    <3> QED
      BY <1>1, <3>2, <3>3 DEF Announced
  <2> QED
    BY <2>1, <2>2
<1>6. \A e \in Devices, k \in Nat : Told(k, e) => Told(k, e)'
  BY <1>1, <1>3 DEF Told, BeingAborted
<1>7. OutcomesTaken'
  BY <1>1, <1>6, NoOutcomeSent DEF CourseInv, TypeOK
<1> QED
  BY <1>1, <1>4, <1>5, <1>7 DEF CourseInv, InstallAnnounced, AbortTaken, JobsAnnounced

LEMMA CourseAbortAccepted ==
  ASSUME TypeOK, CourseInv, OneOutcomePerInstallation, AbortAccepted
  PROVE  CourseInv' /\ OneOutcomePerInstallation'
<1>1. PICK j \in DOMAIN jobs :
        /\ jobs[j] = [device |-> worker.cmd.device, state |-> "running"]
        /\ jobs' = [jobs EXCEPT ![j].state = "aborted"]
        /\ worker' = [worker EXCEPT !.pc = "aborted", !.job = j]
  BY DEF AbortAccepted
<1>2. worker'.pc = "aborted" /\ worker'.job = j /\ worker'.cmd = worker.cmd
  BY <1>1 DEF TypeOK, Worker
<1>3. /\ DOMAIN jobs' = DOMAIN jobs
      /\ \A k \in DOMAIN jobs : jobs'[k].device = jobs[k].device
      /\ \A k \in DOMAIN jobs \ {j} : jobs'[k] = jobs[k]
      /\ jobs'[j] = [device |-> jobs[j].device, state |-> "aborted"]
  BY <1>1, JobMoves DEF TypeOK
<1>4. UNCHANGED reports
  BY DEF AbortAccepted
<1>5. OneOutcomePerInstallation'
  BY <1>4, NothingSent
<1>6. JobsAnnounced'
  BY <1>3, <1>4 DEF CourseInv, JobsAnnounced, Announced
<1>7. jobs[j].state = "running" /\ jobs[j].device = worker.cmd.device
  BY <1>1
<1>8. \A e \in Devices, k \in Nat : Told(k, e) => Told(k, e)'
  BY <1>2, <1>3, <1>7 DEF Told, BeingAborted
<1>9. OutcomesTaken'
  BY <1>4, <1>8, NoOutcomeSent DEF CourseInv, TypeOK
<1>10. AbortTaken'
  BY <1>2, <1>3, <1>7 DEF AbortTaken
<1> QED
  BY <1>2, <1>5, <1>6, <1>9, <1>10 DEF CourseInv, InstallAnnounced

LEMMA CourseSendAborted ==
  ASSUME TypeOK, CourseInv, OneOutcomePerInstallation, SendAborted
  PROVE  CourseInv' /\ OneOutcomePerInstallation'
<1>1. /\ worker.pc = "aborted" /\ worker.cmd.device \in Devices /\ worker.job \in Nat
      /\ reports \in [Devices -> Seq(Status)]
  BY DEF SendAborted, At, TypeOK, Worker
<1>2. PICK d \in Devices, j \in Nat : d = worker.cmd.device /\ j = worker.job
  BY <1>1
<1>3. SendStatus(d, "ABORTED", j) /\ worker'.pc = "idle" /\ jobs' = jobs
  BY <1>2 DEF SendAborted, Done, Idle
<1>4. j \in DOMAIN jobs /\ jobs[j] = [device |-> d, state |-> "aborted"]
  BY <1>1, <1>2 DEF CourseInv, AbortTaken
<1>5. jobs[j].device = d /\ jobs[j].state = "aborted"
  BY <1>4
<1>6. Announced(d, j)
  BY <1>4, <1>5 DEF CourseInv, JobsAnnounced
<1>7. ~Told(j, d)
  BY <1>1, <1>2 DEF Told, BeingAborted
<1>8. \A i \in DOMAIN reports[d] :
        reports[d][i].status \in Outcomes => reports[d][i].job # j
  BY <1>7, NotToldYet DEF CourseInv
<1>9. OneOutcomePerInstallation'
  BY <1>1, <1>3, <1>6, <1>8, OneOutcomeSent
<1>10. \A e \in Devices, k \in Nat : Announced(e, k) => Announced(e, k)'
  BY <1>1, <1>3, StillAnnounced
<1>11. JobsAnnounced'
  BY <1>3, <1>10, JobsStayAnnounced DEF CourseInv
<1>12. \A e \in Devices, k \in Nat : Told(k, e) => Told(k, e)'
  BY <1>3 DEF Told, BeingAborted
<1>13. Told(j, d)'
  BY <1>3, <1>4, <1>5 DEF Told, BeingAborted
<1>14. OutcomesTaken'
  BY <1>1, <1>3, <1>12, <1>13, OutcomeSent DEF CourseInv
<1> QED
  BY <1>3, <1>9, <1>11, <1>14 DEF CourseInv, InstallAnnounced, AbortTaken

LEMMA CourseNext ==
  ASSUME TypeOK, CourseInv, OneOutcomePerInstallation, [Next]_vars
  PROVE  CourseInv' /\ OneOutcomePerInstallation'
<1>1. CASE TakeCommand
  <2>1. worker'.pc = "run"
    BY <1>1 DEF TakeCommand, Idle
  <2> QED
    BY <1>1, <2>1, CourseQuiet DEF TakeCommand
<1>2. CASE DropMalformed \/ AbortRefused \/ VersionUnknown \/ PublishVersion
  BY <1>2, CourseQuiet DEF DropMalformed, AbortRefused, VersionUnknown, PublishVersion,
                           Done, Idle
<1>3. CASE GetFirmwareVersion
  <2>1. worker'.pc = "publish"
    BY <1>3 DEF GetFirmwareVersion, TypeOK, Worker
  <2> QED
    BY <1>3, <2>1, CourseQuiet DEF GetFirmwareVersion
<1>4. CASE Work
  BY <1>1, <1>2, <1>3, <1>4, CourseFileMissing, CourseSendInstallation,
     CourseAskInstaller, CourseAbortAccepted, CourseSendAborted
  DEF Work, StartInstallation
<1>5. CASE \/ \E d \in Devices : \/ RequestInstall(d) \/ RequestAbort(d)
                               \/ RegistrationAccepted(d) \/ AnnounceVersion(d)
           \/ RequestMalformed \/ SessionClosed \/ UNCHANGED vars
           \/ \E ds \in SUBSET Devices : SessionOpened(ds)
  BY <1>5, CourseQuiet
  DEF RequestInstall, RequestAbort, RequestMalformed, MessageReceived,
      RegistrationAccepted, AnnounceVersion, SessionOpened, SessionClosed, vars
<1> QED
  BY <1>4, <1>5, CourseInstaller DEF Next

LEMMA CourseAlways == Spec => [](OneOutcomePerInstallation /\ CourseInv)
<1>1. Init => TypeOK /\ CourseInv /\ OneOutcomePerInstallation
  BY TypeInit, CourseInit
<1>2. TypeOK /\ CourseInv /\ OneOutcomePerInstallation /\ [Next]_vars =>
        TypeOK' /\ CourseInv' /\ OneOutcomePerInstallation'
  BY TypeNext, CourseNext
<1> QED
  BY <1>1, <1>2, PTL DEF Spec

(* For any devices, requests and overlap of installations, each outcome    *)
(* reported closes, once, an installation of that device that was          *)
(* announced before.                                                       *)
THEOREM EveryOutcomeClosesAnInstallation == Spec => []OneOutcomePerInstallation
<1> QED
  BY CourseAlways, PTL

(* Jobs and what was said of them agree at every moment.                   *)
THEOREM JobsAndReportsAgree == Spec => []CourseInv
<1> QED
  BY CourseAlways, PTL

-----------------------------------------------------------------------------
(* What the platform ends up knowing.                                      *)

VersionOf(d) == [op |-> "version", device |-> d]

Ended(j) == jobs[j].state \in {"succeeded", "reported"}

(* A report of d's version is still to be read from the provider: Wolk is  *)
(* about to ask for it, it waits in the buffer, or an installation of d    *)
(* has ended and is about to ask for it.                                   *)
Coming(d) ==
  \/ d \in announce
  \/ \E i \in DOMAIN m_commandBuffer : m_commandBuffer[i] = VersionOf(d)
  \/ \E j \in DOMAIN jobs : jobs[j].device = d /\ Ended(j)

InHand(d) ==
  \/ worker.pc = "run" /\ worker.cmd = VersionOf(d)
  \/ worker.pc = "publish" /\ worker.cmd.device = d

(* A version the worker carries is the right one, or another report of it  *)
(* follows.                                                                *)
CarriedInv ==
  \A d \in Devices :
    worker.pc = "publish" /\ worker.cmd.device = d =>
      worker.version = installed[d] \/ Coming(d)

(* The latest report was not taken, and no session has come since but such *)
(* as passed d over.                                                       *)
Missed(d) == d \in unreported /\ (linkUp => d \in stranded)

(* What the platform does not know is on its way, or was missed.           *)
KnowInv ==
  \A d \in Devices \ silent :
    known[d] = installed[d] \/ Coming(d) \/ InHand(d) \/ Missed(d)

LEMMA KnowInit == Init => CarriedInv /\ KnowInv
BY DEF Init, Idle, CarriedInv, KnowInv, Missed

(* A report that is coming still is when the buffer only grows, and jobs   *)
(* that ended are left alone.                                              *)
LEMMA StillComing ==
  ASSUME announce \subseteq announce',
         \A i \in DOMAIN m_commandBuffer :
           i \in DOMAIN m_commandBuffer' /\ m_commandBuffer'[i] = m_commandBuffer[i],
         \A j \in DOMAIN jobs :
           Ended(j) => /\ j \in DOMAIN jobs'
                       /\ jobs'[j].device = jobs[j].device
                       /\ jobs'[j].state \in {"succeeded", "reported"},
         NEW d, Coming(d)
  PROVE  Coming(d)'
<1>1. CASE d \in announce
  BY <1>1 DEF Coming
<1>2. CASE \E i \in DOMAIN m_commandBuffer : m_commandBuffer[i] = VersionOf(d)
  BY <1>2 DEF Coming, VersionOf
<1>3. CASE \E j \in DOMAIN jobs : jobs[j].device = d /\ Ended(j)
  BY <1>3 DEF Coming, Ended
<1> QED  BY <1>1, <1>2, <1>3 DEF Coming

(* A pushed command follows those that wait.                               *)
LEMMA PushedLast ==
  ASSUME TypeOK, NEW c \in Command, AddToCommandBuffer(c)
  PROVE  /\ \A i \in DOMAIN m_commandBuffer :
              i \in DOMAIN m_commandBuffer' /\ m_commandBuffer'[i] = m_commandBuffer[i]
         /\ \E i \in DOMAIN m_commandBuffer' : m_commandBuffer'[i] = c
<1>1. m_commandBuffer \in Seq(Command) /\ m_commandBuffer' = Append(m_commandBuffer, c)
  BY DEF TypeOK, AddToCommandBuffer
<1>2. /\ DOMAIN m_commandBuffer = 1 .. Len(m_commandBuffer)
      /\ DOMAIN m_commandBuffer' = 1 .. Len(m_commandBuffer) + 1
      /\ Len(m_commandBuffer) \in Nat
      /\ m_commandBuffer'[Len(m_commandBuffer) + 1] = c
      /\ \A i \in 1 .. Len(m_commandBuffer) : m_commandBuffer'[i] = m_commandBuffer[i]
  BY <1>1
<1>3. Len(m_commandBuffer) + 1 \in DOMAIN m_commandBuffer'
  BY <1>2
<1> QED  BY <1>2, <1>3

(* Steps that leave versions, link and worker alone.                       *)
LEMMA KnowQuiet ==
  ASSUME CarriedInv, KnowInv, UNCHANGED <<worker, installed, linkUp, versions>>,
         \A d \in Devices : Coming(d) => Coming(d)'
  PROVE  CarriedInv' /\ KnowInv'
<1>1. ASSUME NEW d \in Devices, (worker.pc = "publish" /\ worker.cmd.device = d)'
      PROVE  (worker.version = installed[d])' \/ Coming(d)'
  BY <1>1 DEF CarriedInv
<1>2. ASSUME NEW d \in Devices \ silent'
      PROVE  (known[d] = installed[d])' \/ Coming(d)' \/ InHand(d)' \/ Missed(d)'
  BY <1>2 DEF KnowInv, InHand, Missed
<1> QED  BY <1>1, <1>2 DEF CarriedInv, KnowInv

(* Steps of the worker that do without a version, before and after.        *)
LEMMA KnowWorker ==
  ASSUME CarriedInv, KnowInv, UNCHANGED <<installed, linkUp, versions>>,
         worker.pc # "publish", worker.pc = "run" => worker.cmd.op # "version",
         worker'.pc # "publish",
         \A d \in Devices : Coming(d) => Coming(d)'
  PROVE  CarriedInv' /\ KnowInv'
<1>1. \A d : ~InHand(d)
  BY DEF InHand, VersionOf
<1>2. ASSUME NEW d \in Devices \ silent'
      PROVE  (known[d] = installed[d])' \/ Coming(d)' \/ Missed(d)'
  BY <1>1, <1>2 DEF KnowInv, Missed
<1> QED  BY <1>2 DEF CarriedInv, KnowInv

LEMMA KnowTake ==
  ASSUME TypeOK, CarriedInv, KnowInv, TakeCommand
  PROVE  CarriedInv' /\ KnowInv'
<1>1. /\ m_commandBuffer \in Seq(Command) /\ m_commandBuffer # <<>>
      /\ m_commandBuffer' = Tail(m_commandBuffer)
      /\ worker.pc = "idle"
      /\ UNCHANGED <<jobs, installed, linkUp, announce, versions>>
  BY DEF TakeCommand, TypeOK
<1>2. worker'.pc = "run" /\ worker'.cmd = Head(m_commandBuffer)
  BY DEF TakeCommand, Idle
<1>3. ASSUME NEW d \in Devices, Coming(d)
      PROVE  Coming(d)' \/ InHand(d)'
  <2>1. CASE d \in announce \/ \E j \in DOMAIN jobs : jobs[j].device = d /\ Ended(j)
    BY <1>1, <2>1 DEF Coming, Ended
  <2>2. ASSUME NEW i \in DOMAIN m_commandBuffer, m_commandBuffer[i] = VersionOf(d)
        PROVE  Coming(d)' \/ InHand(d)'
    <3>1. /\ Len(m_commandBuffer) \in Nat /\ i \in 1 .. Len(m_commandBuffer)
          /\ Head(m_commandBuffer) = m_commandBuffer[1]
      BY <1>1, <2>2
    <3>2. CASE i = 1
      <4>1. worker'.cmd = VersionOf(d)
        BY <1>2, <2>2, <3>1, <3>2
      <4> QED  BY <1>2, <4>1 DEF InHand, VersionOf
    <3>3. CASE i # 1
      <4>1. i - 1 \in DOMAIN Tail(m_commandBuffer)
            /\ Tail(m_commandBuffer)[i - 1] = m_commandBuffer[i]
        BY <1>1, <3>1, <3>3
      <4>2. \E k \in DOMAIN m_commandBuffer' : m_commandBuffer'[k] = VersionOf(d)
        BY <1>1, <2>2, <4>1
      <4> QED  BY <4>2 DEF Coming, VersionOf
    <3> QED  BY <3>2, <3>3
  <2> QED  BY <1>3, <2>1, <2>2 DEF Coming
<1>4. ASSUME NEW d \in Devices \ silent'
      PROVE  (known[d] = installed[d])' \/ Coming(d)' \/ InHand(d)' \/ Missed(d)'
  <2>1. ~InHand(d)
    BY <1>1 DEF InHand
  <2>2. known[d] = installed[d] \/ Coming(d) \/ Missed(d)
    BY <1>1, <1>4, <2>1 DEF KnowInv
  <2> QED  BY <1>1, <1>3, <2>2 DEF Missed
<1> QED  BY <1>2, <1>4 DEF CarriedInv, KnowInv

(* Nothing is moved but the worker.                                        *)
LEMMA SameComing ==
  ASSUME UNCHANGED <<m_commandBuffer, jobs, announce>>
  PROVE  \A d \in Devices : Coming(d) => Coming(d)'
BY DEF Coming, Ended, VersionOf

LEMMA KnowVersion ==
  ASSUME TypeOK, CarriedInv, KnowInv,
         VersionUnknown \/ GetFirmwareVersion \/ PublishVersion
  PROVE  CarriedInv' /\ KnowInv'
<1>1. worker.cmd \in Command /\ worker \in Worker
  BY DEF TypeOK, Worker
<1>2. \A d \in Devices : Coming(d) => Coming(d)'
  BY SameComing DEF VersionUnknown, GetFirmwareVersion, PublishVersion
<1>3. UNCHANGED <<installed, linkUp>>
  BY DEF VersionUnknown, GetFirmwareVersion, PublishVersion
<1>4. CASE VersionUnknown
  <2>1. /\ worker'.pc = "idle" /\ silent' = silent \cup {worker.cmd.device}
        /\ worker.pc = "run" /\ UNCHANGED <<known, unreported, stranded>>
    BY <1>4 DEF VersionUnknown, Done, Idle, At
  <2>2. ASSUME NEW d \in Devices \ silent'
        PROVE  (known[d] = installed[d])' \/ Coming(d)' \/ Missed(d)'
    <3>1. d \notin silent /\ d # worker.cmd.device
      BY <2>1, <2>2
    <3>2. ~InHand(d)
      BY <2>1, <3>1 DEF InHand, VersionOf
    <3> QED  BY <1>2, <1>3, <2>1, <2>2, <3>1, <3>2 DEF KnowInv, Missed
  <2> QED  BY <2>1, <2>2 DEF CarriedInv, KnowInv
<1>5. CASE GetFirmwareVersion
  <2>1. /\ worker'.pc = "publish" /\ worker'.version = installed[worker.cmd.device]
        /\ worker'.cmd = worker.cmd
        /\ worker.pc = "run" /\ UNCHANGED versions
    BY <1>1, <1>5 DEF GetFirmwareVersion, At, Worker
  <2>2. CarriedInv'
    BY <1>3, <2>1 DEF CarriedInv
  <2>3. ASSUME NEW d \in Devices \ silent'
        PROVE  (known[d] = installed[d])' \/ Coming(d)' \/ InHand(d)' \/ Missed(d)'
    <3>1. InHand(d) => InHand(d)'
      BY <2>1 DEF InHand, VersionOf
    <3> QED  BY <1>2, <1>3, <2>1, <2>3, <3>1 DEF KnowInv, Missed
  <2> QED  BY <2>2, <2>3 DEF KnowInv
<1>6. CASE PublishVersion
  <2> DEFINE d == worker.cmd.device
  <2>1. /\ worker'.pc = "idle" /\ worker.pc = "publish"
        /\ silent' = silent \ {d}
        /\ \/ /\ linkUp
              /\ known' = [known EXCEPT ![d] = worker.version]
              /\ unreported' = unreported \ {d}
              /\ stranded' = stranded \ {d}
           \/ /\ ~linkUp
              /\ unreported' = unreported \cup {d}
              /\ UNCHANGED <<known, stranded>>
    BY <1>6 DEF PublishVersion, Done, Idle, At
  <2>2. known \in [Devices -> Nat]
    BY DEF TypeOK
  <2>3. ASSUME NEW e \in Devices \ silent'
        PROVE  (known[e] = installed[e])' \/ Coming(e)' \/ Missed(e)'
    <3>1. CASE e = d /\ linkUp
      <4>1. known'[e] = worker.version
        BY <2>1, <2>2, <3>1
      <4>2. worker.version = installed[e] \/ Coming(e)
        BY <2>1, <3>1 DEF CarriedInv
      <4> QED  BY <1>2, <1>3, <4>1, <4>2
    <3>2. CASE e = d /\ ~linkUp
      BY <1>3, <2>1, <3>2 DEF Missed
    <3>3. CASE e # d
      <4>1. known'[e] = known[e] /\ e \notin silent
        BY <2>1, <2>2, <2>3, <3>3
      <4>2. ~InHand(e)
        BY <2>1, <3>3 DEF InHand
      <4>3. Missed(e) => Missed(e)'
        BY <1>3, <2>1, <3>3 DEF Missed
      <4> QED  BY <1>2, <1>3, <2>3, <4>1, <4>2, <4>3 DEF KnowInv
    <3> QED  BY <3>1, <3>2, <3>3
  <2> QED  BY <2>1, <2>3 DEF CarriedInv, KnowInv
<1> QED  BY <1>4, <1>5, <1>6

(* What the worker does besides: nothing of versions.                      *)
LEMMA KnowWork ==
  ASSUME TypeOK, CarriedInv, KnowInv, Work
  PROVE  CarriedInv' /\ KnowInv'
<1>1. worker \in Worker
  BY DEF TypeOK
<1>2. CASE DropMalformed \/ FileMissing \/ AbortRefused \/ SendAborted
  BY <1>2, SameComing, KnowWorker
  DEF DropMalformed, FileMissing, AbortRefused, SendAborted, Done, Idle, At
<1>3. CASE SendInstallation
  <2>1. worker'.pc = "install"
    BY <1>1, <1>3 DEF SendInstallation, Worker
  <2> QED  BY <1>3, <2>1, SameComing, KnowWorker DEF SendInstallation, At
<1>4. CASE AskInstaller
  <2>1. \A j \in DOMAIN jobs : j \in DOMAIN jobs' /\ jobs'[j] = jobs[j]
    <3> DEFINE job == [device |-> worker.cmd.device, state |-> "running"]
    <3>1. jobs \in Seq(Job) /\ jobs' = Append(jobs, job)
      BY <1>4 DEF AskInstaller, TypeOK
    <3> HIDE DEF job
    <3> QED  BY <3>1
  <2>2. UNCHANGED <<m_commandBuffer, announce>>
    BY <1>4 DEF AskInstaller
  <2>3. \A d \in Devices : Coming(d) => Coming(d)'
    BY <2>1, <2>2, StillComing DEF Ended
  <2> QED  BY <1>4, <2>3, KnowWorker DEF AskInstaller, Done, Idle, At
<1>5. CASE AbortAccepted
  <2>1. PICK j \in DOMAIN jobs :
          /\ jobs[j] = [device |-> worker.cmd.device, state |-> "running"]
          /\ jobs' = [jobs EXCEPT ![j].state = "aborted"]
          /\ worker' = [worker EXCEPT !.pc = "aborted", !.job = j]
    BY <1>5 DEF AbortAccepted
  <2>2. worker'.pc = "aborted"
    BY <1>1, <2>1 DEF Worker
  <2>3. /\ DOMAIN jobs' = DOMAIN jobs
        /\ \A k \in DOMAIN jobs \ {j} : jobs'[k] = jobs[k]
    BY <2>1, JobMoves DEF TypeOK
  <2>4. ~Ended(j)
    BY <2>1 DEF Ended
  <2>5. UNCHANGED <<m_commandBuffer, announce>>
    BY <1>5 DEF AbortAccepted
  <2>6. \A d \in Devices : Coming(d) => Coming(d)'
    BY <2>3, <2>4, <2>5, StillComing DEF Ended
  <2> QED  BY <1>5, <2>2, <2>6, KnowWorker DEF AbortAccepted, At
<1> QED
  BY <1>2, <1>3, <1>4, <1>5, KnowTake, KnowVersion DEF Work, StartInstallation

(* A new version is followed by the report of it, from the end of the      *)
(* installation to the push of the command.                                *)
LEMMA KnowInstaller ==
  ASSUME TypeOK, CarriedInv, KnowInv, Installer
  PROVE  CarriedInv' /\ KnowInv'
<1>1. PICK j \in DOMAIN jobs :
        \/ InstallerSucceeds(j) \/ InstallerFails(j)
        \/ SendCompleted(j) \/ QueueVersion(j)
        \/ InstallFailed(j)
  BY DEF Installer
<1>2. PICK d \in Devices : d = jobs[j].device
  BY JobTyped DEF TypeOK
<1>3. ASSUME NEW s, jobs' = [jobs EXCEPT ![j].state = s]
      PROVE  /\ DOMAIN jobs' = DOMAIN jobs
             /\ \A k \in DOMAIN jobs : jobs'[k].device = jobs[k].device
             /\ \A k \in DOMAIN jobs \ {j} : jobs'[k] = jobs[k]
             /\ jobs'[j].device = d /\ jobs'[j].state = s
  <2>1. /\ DOMAIN jobs' = DOMAIN jobs
        /\ \A k \in DOMAIN jobs : jobs'[k].device = jobs[k].device
        /\ \A k \in DOMAIN jobs \ {j} : jobs'[k] = jobs[k]
        /\ jobs'[j] = [device |-> jobs[j].device, state |-> s]
    BY <1>3, JobMoves DEF TypeOK
  <2> QED  BY <1>2, <2>1
<1>4. CASE InstallerSucceeds(j)
  <2>1. /\ installed' = [installed EXCEPT ![d] = @ + 1]
        /\ EndsAs(j, "running", "succeeded")
        /\ UNCHANGED <<m_commandBuffer, worker, linkUp, announce, versions>>
    BY <1>2, <1>4 DEF InstallerSucceeds
  <2>2. jobs'[j].device = d /\ jobs'[j].state = "succeeded" /\ j \in DOMAIN jobs'
    BY <1>3, <2>1 DEF EndsAs
  <2>3. Coming(d)'
    BY <2>2 DEF Coming, Ended
  <2>4. \A e \in Devices : Coming(e) => Coming(e)'
    BY <1>3, <2>1, StillComing DEF EndsAs, Ended
  <2>5. \A e \in Devices : e # d => installed'[e] = installed[e]
    BY <2>1 DEF TypeOK
  <2>6. ASSUME NEW e \in Devices, (worker.pc = "publish" /\ worker.cmd.device = e)'
        PROVE  (worker.version = installed[e])' \/ Coming(e)'
    BY <2>1, <2>3, <2>4, <2>5, <2>6 DEF CarriedInv
  <2>7. ASSUME NEW e \in Devices \ silent'
        PROVE  (known[e] = installed[e])' \/ Coming(e)' \/ InHand(e)' \/ Missed(e)'
    <3>1. InHand(e) => InHand(e)'
      BY <2>1 DEF InHand
    <3> QED  BY <2>1, <2>3, <2>4, <2>5, <2>7, <3>1 DEF KnowInv, Missed
  <2> QED  BY <2>6, <2>7 DEF CarriedInv, KnowInv
<1>5. CASE InstallerFails(j) \/ SendCompleted(j) \/ InstallFailed(j)
  <2>1. UNCHANGED <<m_commandBuffer, worker, installed, linkUp, announce, versions>>
    BY <1>5 DEF InstallerFails, SendCompleted, InstallFailed
  <2>2. \/ EndsAs(j, "running", "failed") \/ EndsAs(j, "succeeded", "reported")
        \/ EndsAs(j, "failed", "over")
    BY <1>5 DEF InstallerFails, SendCompleted, InstallFailed
  <2>3. \A e \in Devices : Coming(e) => Coming(e)'
    BY <1>3, <2>1, <2>2, StillComing DEF EndsAs, Ended
  <2> QED  BY <2>1, <2>3, KnowQuiet
<1>6. CASE QueueVersion(j)
  <2>1. /\ EndsAs(j, "reported", "over") /\ AddToCommandBuffer(VersionOf(d))
        /\ UNCHANGED <<worker, installed, linkUp, announce, versions>>
    BY <1>2, <1>6 DEF QueueVersion, PublishFirmwareVersion, VersionOf
  <2>2. VersionOf(d) \in Command
    BY CommandsMade DEF VersionOf
  <2>3. /\ \A i \in DOMAIN m_commandBuffer :
             i \in DOMAIN m_commandBuffer' /\ m_commandBuffer'[i] = m_commandBuffer[i]
        /\ \E i \in DOMAIN m_commandBuffer' : m_commandBuffer'[i] = VersionOf(d)
    BY <2>1, <2>2, PushedLast
  <2>4. Coming(d)'
    BY <2>3 DEF Coming, VersionOf
  <2>5. ASSUME NEW e \in Devices, Coming(e), e # d PROVE Coming(e)'
    <3>1. CASE e \in announce
      BY <2>1, <3>1 DEF Coming
    <3>2. CASE \E i \in DOMAIN m_commandBuffer : m_commandBuffer[i] = VersionOf(e)
      BY <2>3, <3>2 DEF Coming, VersionOf
    <3>3. ASSUME NEW k \in DOMAIN jobs, jobs[k].device = e, Ended(k) PROVE Coming(e)'
      <4>1. k # j
        BY <1>2, <2>5, <3>3
      <4>2. k \in DOMAIN jobs' /\ jobs'[k] = jobs[k]
        BY <1>3, <2>1, <4>1 DEF EndsAs
      <4> QED  BY <3>3, <4>2 DEF Coming, Ended
    <3> QED  BY <2>5, <3>1, <3>2, <3>3 DEF Coming
  <2> QED  BY <2>1, <2>4, <2>5, KnowQuiet
<1> QED  BY <1>1, <1>4, <1>5, <1>6

LEMMA KnowNext ==
  ASSUME TypeOK, CarriedInv, KnowInv, [Next]_vars
  PROVE  CarriedInv' /\ KnowInv'
<1>1. ASSUME NEW c \in Command, AddToCommandBuffer(c), UNCHANGED <<jobs, announce>>
      PROVE  \A d \in Devices : Coming(d) => Coming(d)'
  BY <1>1, PushedLast, StillComing DEF Ended
<1>2. ASSUME NEW c \in Command, MessageReceived(c) PROVE CarriedInv' /\ KnowInv'
  BY <1>1, <1>2, KnowQuiet DEF MessageReceived
<1>3. CASE RequestMalformed \/ \E d \in Devices : RequestInstall(d) \/ RequestAbort(d)
  BY <1>2, <1>3, CommandsMade DEF RequestMalformed, RequestInstall, RequestAbort
<1>4. CASE \E d \in Devices : RegistrationAccepted(d)
  <2>1. UNCHANGED <<m_commandBuffer, jobs, worker, installed, linkUp, versions>>
        /\ announce \subseteq announce'
    BY <1>4 DEF RegistrationAccepted
  <2>2. \A d \in Devices : Coming(d) => Coming(d)'
    BY <2>1, StillComing DEF Ended
  <2> QED  BY <2>1, <2>2, KnowQuiet
<1>5. ASSUME NEW d \in Devices, AnnounceVersion(d) PROVE CarriedInv' /\ KnowInv'
  <2>1. /\ AddToCommandBuffer(VersionOf(d)) /\ announce' = announce \ {d}
        /\ UNCHANGED <<jobs, worker, installed, linkUp, versions>>
    BY <1>5 DEF AnnounceVersion, PublishFirmwareVersion, VersionOf
  <2>2. VersionOf(d) \in Command
    BY CommandsMade DEF VersionOf
  <2>3. /\ \A i \in DOMAIN m_commandBuffer :
             i \in DOMAIN m_commandBuffer' /\ m_commandBuffer'[i] = m_commandBuffer[i]
        /\ \E i \in DOMAIN m_commandBuffer' : m_commandBuffer'[i] = VersionOf(d)
    BY <2>1, <2>2, PushedLast
  <2>4. Coming(d)'
    BY <2>3 DEF Coming, VersionOf
  <2>5. ASSUME NEW e \in Devices, Coming(e), e # d PROVE Coming(e)'
    BY <2>1, <2>3, <2>5 DEF Coming, Ended, VersionOf
  <2> QED  BY <2>1, <2>4, <2>5, KnowQuiet
<1>6. ASSUME NEW ds \in SUBSET Devices, SessionOpened(ds) PROVE CarriedInv' /\ KnowInv'
  <2>1. /\ UNCHANGED <<m_commandBuffer, jobs, worker, installed, known, silent, unreported>>
        /\ linkUp' = TRUE /\ announce' = announce \cup ds
        /\ stranded' = stranded \cup (unreported \ ds)
    BY <1>6 DEF SessionOpened
  <2>2. \A d \in Devices : Coming(d) => Coming(d)'
    BY <2>1, StillComing DEF Ended
  <2>3. \A d \in Devices : InHand(d) => InHand(d)'
    BY <2>1 DEF InHand, VersionOf
  <2>4. ASSUME NEW d \in Devices, Missed(d) PROVE Missed(d)' \/ Coming(d)'
    BY <2>1, <2>4 DEF Missed, Coming
  <2> QED  BY <2>1, <2>2, <2>3, <2>4 DEF CarriedInv, KnowInv
<1>7. CASE SessionClosed
  <2>1. /\ ~linkUp' /\ UNCHANGED <<m_commandBuffer, jobs, announce, worker, installed>>
        /\ UNCHANGED versions
    BY <1>7 DEF SessionClosed
  <2>2. \A d \in Devices : Coming(d) => Coming(d)'
    BY <2>1, SameComing
  <2>3. \A d \in Devices : InHand(d) => InHand(d)'
    BY <2>1 DEF InHand, VersionOf
  <2>4. \A d \in Devices : Missed(d) => Missed(d)'
    BY <2>1 DEF Missed
  <2> QED  BY <2>1, <2>2, <2>3, <2>4 DEF CarriedInv, KnowInv
<1>8. CASE UNCHANGED vars
  BY <1>8, SameComing, KnowQuiet DEF vars
<1> QED
  BY <1>3, <1>4, <1>5, <1>6, <1>7, <1>8, KnowWork, KnowInstaller DEF Next

(* Online and with nothing left to do, the platform knows the version each *)
(* device runs, unless its last report failed and the sessions since have  *)
(* all passed it over, or its version could not be had: whatever ended     *)
(* between the read of a version and its publish, and however sessions and *)
(* their announcements overlap.                                            *)
THEOREM PlatformLearnsVersions == Spec => []PlatformKnowsVersions
<1>1. TypeOK /\ KnowInv => PlatformKnowsVersions
  <2> SUFFICES ASSUME TypeOK, KnowInv, Quiescent, linkUp,
                      NEW d \in Devices \ (silent \cup stranded)
               PROVE  known[d] = installed[d]
    BY DEF PlatformKnowsVersions
  <2>1. ~InHand(d)
    BY DEF Quiescent, InHand
  <2>2. ~Coming(d)
    BY DEF Quiescent, Coming, Ended
  <2>3. ~Missed(d)
    BY DEF Missed
  <2> QED  BY <2>1, <2>2, <2>3 DEF KnowInv
<1>2. TypeOK /\ CarriedInv /\ KnowInv /\ [Next]_vars => CarriedInv' /\ KnowInv'
  BY KnowNext
<1> QED
  BY <1>1, <1>2, KnowInit, TypeCorrect, PTL DEF Spec

=============================================================================
