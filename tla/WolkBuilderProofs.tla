-------------------------- MODULE WolkBuilderProofs --------------------------
(***************************************************************************)
(* Proofs about WolkBuilder.                                               *)
(***************************************************************************)
EXTENDS WolkBuilder, TLAPS

USE DEF parts

OneOwner == m_persistence \notin given

IInv == TypeOK /\ LastSetIsUsed /\ OneOwner

LEMMA InitInv == Init => IInv
  BY DEF Init, IInv, TypeOK, LastSetIsUsed, OneOwner, Wolk, NoWolk,
         Forms, Used

LEMMA SetObjectInv == IInv /\ SetObject => IInv'
<1> SUFFICES ASSUME IInv,
                    NEW part \in Parts, NEW present \in BOOLEAN,
                    objects' = With(objects, part, present),
                    lambdas' = lambdas \ {part},
                    Last(part, "object", present),
                    SetterDone,
                    UNCHANGED <<m_persistence, firmware, passed>>
             PROVE  IInv'
  BY DEF SetObject
<1>1. TypeOK'
  BY DEF IInv, TypeOK, With, Last, SetterDone, Forms
<1>2. LastSetIsUsed'
  BY DEF IInv, TypeOK, LastSetIsUsed, With, Last, SetterDone, Used
<1>3. OneOwner'
  BY DEF IInv, OneOwner, SetterDone
<1> QED  BY <1>1, <1>2, <1>3 DEF IInv

LEMMA SetLambdaInv == IInv /\ SetLambda => IInv'
<1> SUFFICES ASSUME IInv,
                    NEW part \in Parts, NEW present \in BOOLEAN,
                    lambdas' = With(lambdas, part, present),
                    objects' = objects \ {part},
                    Last(part, "lambda", present),
                    SetterDone,
                    UNCHANGED <<m_persistence, firmware, passed>>
             PROVE  IInv'
  BY DEF SetLambda
<1>1. TypeOK'
  BY DEF IInv, TypeOK, With, Last, SetterDone, Forms
<1>2. LastSetIsUsed'
  BY DEF IInv, TypeOK, LastSetIsUsed, With, Last, SetterDone, Used
<1>3. OneOwner'
  BY DEF IInv, OneOwner, SetterDone
<1> QED  BY <1>1, <1>2, <1>3 DEF IInv

(* A persistence passed anew has a number nobody was given.                *)
LEMMA WithPersistenceInv == IInv /\ WithPersistence => IInv'
<1> SUFFICES ASSUME IInv, WithPersistence PROVE IInv'
  OBVIOUS
<1>1. TypeOK'
  BY DEF IInv, TypeOK, WithPersistence, SetterDone
<1>2. LastSetIsUsed'
  BY DEF IInv, LastSetIsUsed, WithPersistence, SetterDone
<1>3. OneOwner'
  BY DEF IInv, TypeOK, OneOwner, WithPersistence, SetterDone
<1> QED  BY <1>1, <1>2, <1>3 DEF IInv

LEMMA WithFirmwareUpdateInv == IInv /\ WithFirmwareUpdate => IInv'
  BY DEF IInv, TypeOK, LastSetIsUsed, OneOwner, WithFirmwareUpdate,
         SetterDone

LEMMA BuildThrowsInv == IInv /\ BuildThrows => IInv'
  BY DEF IInv, TypeOK, LastSetIsUsed, OneOwner, BuildThrows, Throws

LEMMA BuildInv == IInv /\ Build => IInv'
<1> SUFFICES ASSUME IInv, Build PROVE IInv'
  OBVIOUS
<1> USE DEF Build, HandOver
<1>1. TypeOK'
  <2>1. wolk' \in Wolk
    BY DEF IInv, TypeOK, Wolk
  <2>2. objects' \subseteq Parts /\ lambdas' \subseteq lambdas /\ objects' \cap lambdas' = {}
    BY DEF IInv, TypeOK
  <2>3. latest' \in [Parts -> Forms]
    BY DEF IInv, TypeOK, Forms
  <2>4. given' \subseteq 1 .. passed' + 1
    BY DEF IInv, TypeOK
  <2> QED  BY <2>1, <2>2, <2>3, <2>4 DEF IInv, TypeOK
<1>2. LastSetIsUsed'
  <2>1. ASSUME NEW part \in Parts
        PROVE  Used(wolk'.objects, wolk'.lambdas, part) = wolk'.latest[part]
    BY DEF IInv, LastSetIsUsed
  <2>2. ASSUME NEW part \in Parts
        PROVE  Used(objects', lambdas', part) = latest'[part]
    BY DEF IInv, TypeOK, LastSetIsUsed, Used
  <2> QED  BY <2>1, <2>2 DEF LastSetIsUsed, Used
<1>3. OneOwner'
  BY DEF IInv, TypeOK, OneOwner
<1> QED  BY <1>1, <1>2, <1>3 DEF IInv

LEMMA NextInv == IInv /\ [Next]_vars => IInv'
<1>1. IInv /\ UNCHANGED vars => IInv'
  BY DEF vars, IInv, TypeOK, LastSetIsUsed, OneOwner
<1> QED
  BY <1>1, SetObjectInv, SetLambdaInv, WithPersistenceInv, WithFirmwareUpdateInv,
     BuildThrowsInv, BuildInv DEF Next

LEMMA AlwaysInv == Spec => []IInv
  BY InitInv, NextInv, PTL DEF Spec

(* Type correctness of the builder, with no part in both forms.            *)
THEOREM TypeCorrect == Spec => []TypeOK
<1>1. IInv => TypeOK
  BY DEF IInv
<1> QED  BY <1>1, AlwaysInv, PTL

(* Every Wolk uses each part in the form set last, for any mandatory parts *)
(* and any sequence of calls.                                              *)
THEOREM LastFormIsUsed == Spec => []LastSetIsUsed
<1>1. IInv => LastSetIsUsed
  BY DEF IInv
<1> QED  BY <1>1, AlwaysInv, PTL

(* No persistence is handed out twice or kept by the builder that gave it. *)
THEOREM OneOwnerAlways == Spec => PersistenceHasOneOwner
<1> DEFINE Owner == m_persistence' \notin given'
                    /\ (builds' > builds => wolk'.persistence \notin given)
<1>1. IInv /\ IInv' /\ [Next]_vars => [Owner]_vars
  <2> SUFFICES ASSUME IInv, IInv', Next PROVE Owner
    BY DEF vars
  <2>1. m_persistence' \notin given'
    BY DEF IInv, OneOwner
  <2>2. CASE Build
    BY <2>1, <2>2 DEF Build, HandOver, IInv, OneOwner
  <2>3. CASE ~Build
    BY <2>1, <2>3 DEF Next, SetObject, SetLambda, WithPersistence, WithFirmwareUpdate,
       BuildThrows, Throws, SetterDone, IInv, TypeOK
  <2> QED  BY <2>2, <2>3
<1> QED  BY <1>1, AlwaysInv, PTL DEF Spec, PersistenceHasOneOwner

=============================================================================
