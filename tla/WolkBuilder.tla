---------------------------- MODULE WolkBuilder ----------------------------
(***************************************************************************)
(* The builder: setters that take a part as an object or as a lambda,      *)
(* called in any order, any number of times and with nothing at all; and   *)
(* build(), which checks the parts and hands them to a new Wolk.  A Wolk   *)
(* that has both forms of a part uses the object.                          *)
(***************************************************************************)
EXTENDS Naturals

CONSTANTS
  Mandatory,        \* the actuation handler, the actuator and device status providers
  MaxPersistences,  \* bound: how many persistences the user passes
  MaxBuilds         \* bound: how many Wolks are built

Handler == "configurationHandler"
Provider == "configurationProvider"
Listener == "platformStatusListener"
Installer == "firmwareInstaller"
VersionProvider == "firmwareVersionProvider"

Parts == Mandatory \cup {Handler, Provider, Listener}
Forms == {"object", "lambda", "none"}

ASSUME PartsAssumption ==
  /\ Mandatory \cap {Handler, Provider, Listener} = {}
  /\ MaxPersistences \in Nat /\ MaxBuilds \in Nat

VARIABLES
  objects,        \* the parts set as an object
  lambdas,        \* the parts set as a lambda
  m_persistence,  \* 0 null, 1 the default, further ones the user's
  firmware,       \* which of the two firmware parts are set
  wolk,           \* what the Wolk built last was handed
  error,          \* what the latest build() threw
  latest,         \* history: the form of each part set last
  builds,         \* history: Wolks built so far
  passed,         \* history: persistences passed so far
  given           \* history: persistences handed to a Wolk

parts == <<objects, lambdas, firmware, latest>>
vars == <<parts, m_persistence, wolk, error, builds, passed, given>>

Wolk == [objects : SUBSET Parts, lambdas : SUBSET Parts,
         firmware : SUBSET {Installer, VersionProvider},
         latest : [Parts -> Forms], persistence : Nat]

NoWolk == [objects |-> {}, lambdas |-> {}, firmware |-> {},
           latest |-> [part \in Parts |-> "none"], persistence |-> 0]

(* No part is ever there in both forms.                                    *)
TypeOK ==
  /\ objects \subseteq Parts /\ lambdas \subseteq Parts
  /\ objects \cap lambdas = {}
  /\ firmware \subseteq {Installer, VersionProvider}
  /\ latest \in [Parts -> Forms]
  /\ wolk \in Wolk
  /\ error \in {"none", "mandatory", "configuration", "firmware"}
  /\ builds \in Nat /\ passed \in Nat /\ given \subseteq 1 .. passed + 1
  /\ m_persistence \in 0 .. passed + 1

Init ==
  /\ objects = {} /\ lambdas = {} /\ firmware = {}
  /\ latest = [part \in Parts |-> "none"]
  /\ m_persistence = 1
  /\ wolk = NoWolk
  /\ error = "none"
  /\ builds = 0 /\ passed = 0 /\ given = {}

-----------------------------------------------------------------------------
(* The setters.                                                            *)

With(set, part, present) == IF present THEN set \cup {part} ELSE set \ {part}

Last(part, form, present) ==
  latest' = [latest EXCEPT ![part] = IF present THEN form ELSE "none"]

SetterDone == error' = "none" /\ UNCHANGED <<wolk, builds, given>>

(* Either form takes the place of the other, even one that holds nothing.  *)
SetObject ==
  \E part \in Parts, present \in BOOLEAN :
    /\ objects' = With(objects, part, present)
    /\ lambdas' = lambdas \ {part}
    /\ Last(part, "object", present)
    /\ SetterDone
    /\ UNCHANGED <<m_persistence, firmware, passed>>

(* Mutant: the object stays.                                               *)
SetLambda_ObjectStays ==
  \E part \in Parts, present \in BOOLEAN :
    /\ lambdas' = With(lambdas, part, present)
    /\ Last(part, "lambda", present)
    /\ SetterDone
    /\ UNCHANGED <<objects, m_persistence, firmware, passed>>

SetLambda ==
  \E part \in Parts, present \in BOOLEAN :
    /\ lambdas' = With(lambdas, part, present)
    /\ objects' = objects \ {part}
    /\ Last(part, "lambda", present)
    /\ SetterDone
    /\ UNCHANGED <<m_persistence, firmware, passed>>

WithPersistence ==
  /\ passed < MaxPersistences
  /\ \/ m_persistence' = passed + 2 /\ passed' = passed + 1
     \/ m_persistence' = 0 /\ UNCHANGED passed
  /\ SetterDone
  /\ UNCHANGED parts

WithFirmwareUpdate ==
  /\ firmware' \in SUBSET {Installer, VersionProvider}
  /\ SetterDone
  /\ UNCHANGED <<objects, lambdas, latest, m_persistence, passed>>

-----------------------------------------------------------------------------
(* build().                                                                *)

(* Exactly one of the two.                                                 *)
Half(set, one, other) == (one \in set) # (other \in set)

MissingMandatory == ~(Mandatory \subseteq objects \cup lambdas)

(* Both parts, and in the same form.                                       *)
HalfConfiguration ==
  Half(lambdas, Handler, Provider) \/ Half(objects, Handler, Provider)

HalfFirmware == Half(firmware, Installer, VersionProvider)

Throws(what) ==
  /\ error' = what
  /\ UNCHANGED <<parts, m_persistence, wolk, builds, passed, given>>

BuildThrows ==
  \/ MissingMandatory /\ Throws("mandatory")
  \/ ~MissingMandatory /\ HalfConfiguration /\ Throws("configuration")
  \/ ~MissingMandatory /\ ~HalfConfiguration /\ HalfFirmware /\ Throws("firmware")

(* Mutant: the persistence is shared with the Wolk.                        *)
HandOver_Shared ==
  /\ wolk' = [objects |-> objects, lambdas |-> lambdas, firmware |-> firmware,
              latest |-> latest, persistence |-> m_persistence]
  /\ given' = given \cup ({m_persistence} \ {0})
  /\ objects' = objects \ {Listener}
  /\ \/ lambdas' = IF Listener \in objects THEN lambdas ELSE lambdas \ {Listener}
     \/ UNCHANGED lambdas
  /\ latest' = [latest EXCEPT ![Listener] =
                  IF Listener \in lambdas' THEN "lambda" ELSE "none"]
  /\ UNCHANGED m_persistence

(* The persistence and the platform status listener are moved to the Wolk, *)
(* the other parts shared with it.  (What a std::function holds after a    *)
(* move is not specified.)                                                 *)
HandOver ==
  /\ wolk' = [objects |-> objects, lambdas |-> lambdas, firmware |-> firmware,
              latest |-> latest, persistence |-> m_persistence]
  /\ m_persistence' = 0
  /\ given' = given \cup ({m_persistence} \ {0})
  /\ objects' = objects \ {Listener}
  /\ \/ lambdas' = IF Listener \in objects THEN lambdas ELSE lambdas \ {Listener}
     \/ UNCHANGED lambdas
  /\ latest' = [latest EXCEPT ![Listener] =
                  IF Listener \in lambdas' THEN "lambda" ELSE "none"]

Build ==
  /\ builds < MaxBuilds
  /\ ~MissingMandatory /\ ~HalfConfiguration /\ ~HalfFirmware
  /\ HandOver
  /\ builds' = builds + 1
  /\ error' = "none"
  /\ UNCHANGED <<firmware, passed>>

-----------------------------------------------------------------------------

Next ==
  \/ SetObject \/ SetLambda \/ WithPersistence \/ WithFirmwareUpdate
  \/ BuildThrows \/ Build

Spec == Init /\ [][Next]_vars

-----------------------------------------------------------------------------
(* Properties.                                                             *)

(* The form of a part a Wolk that was handed both sets uses.               *)
Used(objs, lambs, part) ==
  IF part \in objs THEN "object" ELSE IF part \in lambs THEN "lambda" ELSE "none"

(* A Wolk uses each part in the form in which it was set last, whatever    *)
(* was set, replaced and taken back before, and the builder is ready to    *)
(* build another such.                                                     *)
LastSetIsUsed ==
  \A part \in Parts :
    /\ Used(wolk.objects, wolk.lambdas, part) = wolk.latest[part]
    /\ Used(objects, lambdas, part) = latest[part]

(* No two Wolks share a persistence, nor does the builder keep one it gave *)
(* away: each backlog is published by one module only.                     *)
PersistenceHasOneOwner ==
  [][ /\ m_persistence' \notin given'
      /\ builds' > builds => wolk'.persistence \notin given ]_vars

(* "Both ConfigurationProvider and ConfigurationHandler must be set."      *)
(* (WolkBuilder.cpp): build() says so when one of them is not.             *)
ErrorIsTrue ==
  error = "configuration" =>
    ~({Handler, Provider} \subseteq objects \cup lambdas)

=============================================================================
