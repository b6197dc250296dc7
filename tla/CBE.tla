-------------------------------- MODULE CBE --------------------------------
(***************************************************************************)
(* NcCBE (numcosmo/nc_cbe.c), which runs CLASS for a cosmology and keeps   *)
(* what it computed, and three objects that may share one and keep copies  *)
(* and a control of their own: the linear power spectrum                   *)
(* (nc_powspec_ml_cbe.c), the recombination (nc_recomb_cbe.c) and the      *)
(* Boltzmann code (nc_hipert_boltzmann_cbe.c).  The program may create and *)
(* free cosmologies and their submodels, change them and exchange them,    *)
(* between any two calls.                                                  *)
(*                                                                         *)
(* A result is the record of the values it was computed from.  It is       *)
(* foreign when the thermodynamics was computed, by the recombination, for *)
(* another cosmology than the one the NcCBE remembers.  The sources        *)
(* of CLASS are called through thermodynamics_init and the functions after *)
(* it, which compute from what NcCBE hands them.                           *)
(***************************************************************************)
EXTENDS ModelCtrl

CONSTANTS
  Depth,      \* values of the redshift up to which spectra are needed
  MaxChanges  \* bound: changes the program makes

ASSUME DepthAssumption == Depth # {} /\ None \notin Depth
ASSUME MaxChangesAssumption == MaxChanges \in Nat

Thermo == [cosmo : Value, reion : Value, foreign : BOOLEAN]
Call == {"spectra", "lensing"}
Spectra == [cosmo : Value, reion : Value, foreign : BOOLEAN, prim : Value, by : Call,
            target : BOOLEAN, transfer : BOOLEAN, zmax : Depth \cup {None}]
Answer == [by : {"ps", "rc", "cls"}, of : Cosmo]

ASSUME NoneAssumption == None \notin Call \cup Thermo \cup Spectra \cup Answer

VARIABLES
  heap,    \* the models
  cbe,     \* the NcCBE
  ps,      \* the NcPowspecMLCBE: ctrl, zf, and lnPk
  rc,      \* the NcRecombCBE: ctrl_cosmo and Xe_s
  pb,      \* the NcHIPertBoltzmannCBE: ctrl_cosmo, use_lensed_Cls and the Cls
  answer,  \* history: the call that returned last, nothing having changed since
  again,   \* history: times ps made CLASS run for that cosmology since then
  changes  \* history: changes the program made

vars == <<heap, cbe, ps, rc, pb, answer, again, changes>>

CBEType ==
  [ctrl : CtrlType, target : BOOLEAN, lensed : BOOLEAN, transfer : BOOLEAN,
   zmax : Depth \cup {None}, call : Call \cup {None},
   thermo : Thermo \cup {None}, spectra : Spectra \cup {None}]

TypeOK ==
  /\ heap \in HeapType
  /\ cbe \in CBEType
  /\ ps \in [ctrl : CtrlType, zf : Depth, lnPk : Spectra \cup {None}]
  /\ rc \in [ctrl : CtrlType, Xe : Thermo \cup {None}]
  /\ pb \in [ctrl : CtrlType, lensed : BOOLEAN, Cls : Spectra \cup {None}]
  /\ answer \in Answer \cup {None}
  /\ again \in Nat
  /\ changes \in Nat

NewCBE == [ctrl |-> NewCtrl, target |-> FALSE, lensed |-> FALSE, transfer |-> FALSE,
           zmax |-> None, call |-> None, thermo |-> None, spectra |-> None]

Init ==
  /\ heap = NoModels
  /\ cbe = NewCBE
  /\ \E z \in Depth : ps = [ctrl |-> NewCtrl, zf |-> z, lnPk |-> None]
  /\ rc = [ctrl |-> NewCtrl, Xe |-> None]
  /\ pb = [ctrl |-> NewCtrl, lensed |-> TRUE, Cls |-> None]
  /\ answer = None
  /\ again = 0
  /\ changes = 0

-----------------------------------------------------------------------------
(* NcCBE                                                                   *)

ForcedCBE(x) == [x EXCEPT !.ctrl = ForceUpdate(x.ctrl)]

(* _nc_cbe_update_callbacks: what there was is freed with the function     *)
(* that belongs to it.                                                     *)
UpdateCallbacks(x) ==
  LET old == IF x.spectra = None THEN x.call ELSE None
  IN  [ForcedCBE(x) EXCEPT
         !.spectra = None,
         !.call = IF x.target /\ x.lensed THEN "lensing"
                  ELSE IF x.target \/ x.transfer THEN "spectra"
                  ELSE old]

SetCalcTransfer(x) ==
  IF x.transfer THEN x ELSE UpdateCallbacks([x EXCEPT !.transfer = TRUE])

SetTargetCls(x, t) == IF x.target = t THEN x ELSE UpdateCallbacks([x EXCEPT !.target = t])

SetLensedCls(x, l) == UpdateCallbacks([x EXCEPT !.lensed = l])

SetMaxMatterPkZ(x, z) == IF x.zmax = z THEN x ELSE ForcedCBE([x EXCEPT !.zmax = z])

(* _nc_cbe_call_thermo, for models in the state h.                         *)
CallThermo(h, x, c) ==
  [x EXCEPT !.thermo = [cosmo |-> h.val[c], reion |-> h.val[h.subs[c]["reion"]],
                        foreign |-> x.ctrl.model \notin {None, c}]]

(* cbe->call, from the thermodynamics there is.                            *)
CallSpectra(h, x, c) ==
  IF x.call = None THEN [x EXCEPT !.spectra = None]
  ELSE [x EXCEPT !.spectra =
         [cosmo |-> x.thermo.cosmo, reion |-> x.thermo.reion, foreign |-> x.thermo.foreign,
          prim |-> h.val[h.subs[c]["prim"]], by |-> x.call,
          target |-> x.target, transfer |-> x.transfer, zmax |-> x.zmax]]

(* nc_cbe_prepare, which computes everything.                              *)
Prepare(h, x, c) == CallSpectra(h, CallThermo(h, x, c), c)

(* nc_cbe_prepare_if_needed: of the submodels it looks at the primordial   *)
(* one.                                                                    *)
PrepareIfNeeded(h, x, c) ==
  LET seen == [x EXCEPT !.ctrl = Update(h, x.ctrl, c)]
  IN  IF ModelUp(h, x.ctrl, c) THEN Prepare(h, seen, c)
      ELSE IF SubmodelUp(h, x.ctrl, c, "prim") THEN CallSpectra(h, seen, c)
      ELSE seen

(* What nc_cbe_prepare does to the cosmology: _nc_cbe_set_thermo reads the *)
(* fraction of helium.                                                     *)
AfterPrepare(h, x, c) == IF ModelUp(h, x.ctrl, c) THEN ReadYp(h, c) ELSE h

-----------------------------------------------------------------------------
(* The program                                                             *)

Change ==
  /\ changes < MaxChanges /\ changes' = changes + 1
  /\ answer' = None /\ again' = 0

(* The models that nobody holds any more are gone.                         *)
Become(h) ==
  LET dead == Live(heap) \ Live(h)
  IN  /\ heap' = Without(h, dead)
      /\ cbe' = [cbe EXCEPT !.ctrl = Forget(@, dead)]
      /\ ps' = [ps EXCEPT !.ctrl = Forget(@, dead)]
      /\ rc' = [rc EXCEPT !.ctrl = Forget(@, dead)]
      /\ pb' = [pb EXCEPT !.ctrl = Forget(@, dead)]

(* A submodel that is new, or that another cosmology has.                  *)
Submodel(h, c, i) ==
  {AddSubmodel(h, c, i, a) : a \in OfKind(i) \cap Live(h)} \cup
  {AddSubmodel(NewModel(h, a, v), c, i, a) : a \in OfKind(i) \ Live(h), v \in Value}

(* A cosmology is given its submodels before it is used.                   *)
New ==
  /\ \E c \in Cosmo \ heap.held, v \in Value :
       \E h \in Submodel([NewModel(heap, c, v) EXCEPT !.held = @ \cup {c}], c, "prim") :
         heap' \in Submodel(h, c, "reion")
  /\ Change /\ UNCHANGED <<cbe, ps, rc, pb>>

Set ==
  /\ \E a \in Live(heap), v \in Value : heap' = SetParam(heap, a, v)
  /\ Change /\ UNCHANGED <<cbe, ps, rc, pb>>

Exchange ==
  /\ \E c \in heap.held, i \in Kind : \E h \in Submodel(heap, c, i) : Become(h)
  /\ Change

Release ==
  /\ \E c \in heap.held : Become([heap EXCEPT !.held = @ \ {c}])
  /\ Change

(* Some other object reads the fraction of helium.                         *)
Helium ==
  /\ \E c \in heap.held : heap' = ReadYp(heap, c)
  /\ UNCHANGED <<cbe, ps, rc, pb, answer, again, changes>>

(* ncm_powspec_set_zf.                                                     *)
SetZf ==
  /\ \E z \in Depth \ {ps.zf} : ps' = [ps EXCEPT !.zf = z, !.ctrl = ForceUpdate(@)]
  /\ Change /\ UNCHANGED <<heap, cbe, rc, pb>>

(* nc_hipert_boltzmann_set_lensed_Cls forces an update even when nothing   *)
(* changes.                                                                *)
SetLensed ==
  /\ \E l \in BOOLEAN : pb' = [pb EXCEPT !.lensed = l, !.ctrl = ForceUpdate(@)]
  /\ Change /\ UNCHANGED <<heap, cbe, ps, rc>>

RunsFor(c) == IF answer # None /\ answer.of = c THEN again ELSE 0

(* ncm_powspec_prepare_if_needed of the NcPowspecMLCBE, and the spectrum   *)
(* it reads from the NcCBE.                                                *)
Powspec(c) ==
  /\ c \in heap.held
  /\ answer' = [by |-> "ps", of |-> c]
  /\ IF Up(heap, ps.ctrl, c)
     THEN LET x == SetMaxMatterPkZ(SetCalcTransfer(cbe), ps.zf)
          IN  /\ cbe' = PrepareIfNeeded(heap, x, c)
              /\ heap' = AfterPrepare(heap, x, c)
              /\ ps' = [ps EXCEPT !.ctrl = Update(heap, @, c), !.lnPk = cbe'.spectra]
              /\ again' = IF ModelUp(heap, x.ctrl, c) THEN RunsFor(c) + 1 ELSE RunsFor(c)
     ELSE UNCHANGED <<cbe, heap, ps>> /\ again' = RunsFor(c)
  /\ UNCHANGED <<rc, pb, changes>>

(* nc_recomb_prepare_if_needed of the NcRecombCBE, which looks at the      *)
(* cosmology again after it computed.  The NcCBE computes the              *)
(* thermodynamics whichever cosmology it remembers, and remembers it still *)
Recomb(c) ==
  /\ c \in heap.held
  /\ answer' = [by |-> "rc", of |-> c]
  /\ IF Up(heap, rc.ctrl, c)
     THEN /\ cbe' = CallThermo(heap, cbe, c)
          /\ heap' = ReadYp(heap, c)
          /\ rc' = [ctrl |-> Update(heap', Update(heap, rc.ctrl, c), c), Xe |-> cbe'.thermo]
     ELSE UNCHANGED <<cbe, heap, rc>>
  /\ again' = RunsFor(c)
  /\ UNCHANGED <<ps, pb, changes>>

(* nc_hipert_boltzmann_prepare_if_needed of the NcHIPertBoltzmannCBE, and  *)
(* the Cls it copies; the nc_cbe_set_tensor of its prepare forces an       *)
(* update.                                                                 *)
Boltzmann(c) ==
  /\ c \in heap.held
  /\ answer' = [by |-> "cls", of |-> c]
  /\ IF Up(heap, pb.ctrl, c)
     THEN LET x == ForcedCBE(SetLensedCls(SetTargetCls(cbe, TRUE), pb.lensed))
          IN  /\ cbe' = PrepareIfNeeded(heap, x, c)
              /\ heap' = AfterPrepare(heap, x, c)
              /\ pb' = [pb EXCEPT !.ctrl = Update(heap, @, c), !.Cls = cbe'.spectra]
     ELSE UNCHANGED <<cbe, heap, pb>>
  /\ again' = RunsFor(c)
  /\ UNCHANGED <<ps, rc, changes>>

Next ==
  \/ New \/ Set \/ Exchange \/ Release \/ Helium \/ SetZf \/ SetLensed
  \/ \E c \in Cosmo : Powspec(c) \/ Recomb(c) \/ Boltzmann(c)

Spec == Init /\ [][Next]_vars

-----------------------------------------------------------------------------
(* Properties                                                              *)

(* Whoever prepares one of the three objects for a cosmology gets what     *)
(* CLASS computes from the parameters the cosmology, and for spectra its   *)
(* primordial model, have now, with the settings asked for: whatever       *)
(* models lived at the same addresses before, and whatever counters agree. *)
(* The recombination and the Boltzmann code follow the reionization model  *)
(* too, and whoever used the NcCBE last.  For the power spectrum two cases *)
(* are excepted, which the next two properties state: a reionization model *)
(* that changed, and thermodynamics the recombination left in the NcCBE    *)
(* for another cosmology.                                                  *)
Answers ==
  answer # None =>
    LET c == answer.of
        of == CASE answer.by = "ps" -> ps.lnPk
                [] answer.by = "rc" -> rc.Xe
                [] answer.by = "cls" -> pb.Cls
    IN  /\ of # None
        /\ of.cosmo = heap.val[c] \/ (answer.by = "ps" /\ of.foreign)
        /\ answer.by # "rc" => of.prim = heap.val[heap.subs[c]["prim"]]
        /\ answer.by # "ps" => of.reion = heap.val[heap.subs[c]["reion"]]
        /\ answer.by = "ps" => of.transfer /\ of.zmax = ps.zf
        /\ answer.by = "cls" => of.target /\ of.by = IF pb.lensed THEN "lensing" ELSE "spectra"

(* ncm_powspec.c:466 says that the spectrum is prepared "using the model   *)
(* @model if it was changed since last preparation", and nc_cbe.c:1823     *)
(* that the NcCBE "Prepares all necessary Class structures": a power       *)
(* spectrum prepared for a cosmology is one of that cosmology as it is.    *)
(* Not so when the recombination has computed the thermodynamics of        *)
(* another one in the same NcCBE (nc_recomb_cbe.c:145) and of the first    *)
(* only the primordial model changed since.                                *)
PowspecOfCosmology ==
  answer # None /\ answer.by = "ps" => ps.lnPk.cosmo = heap.val[answer.of]

(* By the same lines it is one of the reionization model the cosmology     *)
(* has.  Not so when that changed and nothing else: of what changed the    *)
(* NcCBE asks for the cosmology and the primordial model (nc_cbe.c:1836).  *)
PowspecOfReionization ==
  answer # None /\ answer.by = "ps" =>
    ps.lnPk.reion = heap.val[heap.subs[answer.of]["reion"]]

(* Both: a power spectrum is of the cosmology and of the submodels it was  *)
(* asked for, as they are.                                                 *)
PowspecFresh == PowspecOfCosmology /\ PowspecOfReionization

(* A change is answered by at most two runs of CLASS for the power         *)
(* spectrum, although reading a cosmology may change it                    *)
(* (nc_hicosmo_de.c:565), whatever the other two objects do in between.    *)
AtMostTwice == again <= 2
=============================================================================
