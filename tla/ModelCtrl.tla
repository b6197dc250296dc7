----------------------------- MODULE ModelCtrl -----------------------------
(***************************************************************************)
(* Models and those who remember them.  A NcmModel counts its changes in   *)
(* pkey, and a cosmology has submodels, at most one of each kind.  A       *)
(* NcmModelCtrl (numcosmo/math/ncm_model_ctrl.h) keeps a weak reference to *)
(* the model its owner used last, with the pkey it had, and the same of    *)
(* its submodels.  It tells its owner to compute again when the address or *)
(* the counter differs.                                                    *)
(*                                                                         *)
(* Models are at addresses, which the allocator gives again once they are  *)
(* free.  The state of all models is a record:                             *)
(*   held    the cosmologies the program has a reference to                *)
(*   key     pkey                                                          *)
(*   val     what the program set the parameters to                        *)
(*   ypKey   HE4_Yp_key, the pkey for which HE_YP was computed             *)
(*   subs    the submodel of each kind a cosmology has, or None            *)
(* The code keeps submodels by position; a kind keeps its position as long *)
(* as the cosmology lives.                                                 *)
(***************************************************************************)
EXTENDS Naturals

CONSTANTS
  Cosmo,    \* addresses of cosmologies
  Prim,     \* addresses of primordial models
  Reion,    \* addresses of reionization models
  Value,    \* what parameters are set to
  None      \* no object

Addr == Cosmo \cup Prim \cup Reion
Kind == {"prim", "reion"}
OfKind(i) == IF i = "prim" THEN Prim ELSE Reion

ASSUME AddrAssumption ==
  /\ Cosmo \cap Prim = {} /\ Cosmo \cap Reion = {} /\ Prim \cap Reion = {}
  /\ None \notin Addr
ASSUME ValueAssumption == Value # {} /\ None \notin Value

HeapType == [held : SUBSET Cosmo, key : [Addr -> Nat \ {0}], val : [Addr -> Value \cup {None}],
             ypKey : [Cosmo -> Nat], subs : [Cosmo -> [Kind -> Addr \cup {None}]]]

NoSubs == [i \in Kind |-> None]

NoModels ==
  [held |-> {}, key |-> [a \in Addr |-> 1], val |-> [a \in Addr |-> None],
   ypKey |-> [c \in Cosmo |-> 0], subs |-> [c \in Cosmo |-> NoSubs]]

(* The models that somebody holds: a cosmology holds its submodels, and    *)
(* the program keeps no reference to them.                                 *)
SubmodelsOf(h, c) == {h.subs[c][i] : i \in Kind} \ {None}
Live(h) == h.held \cup UNION {SubmodelsOf(h, c) : c \in h.held}

(* Mutant of FirstKey: what a control has that saw no model.               *)
FirstKeyZero == 0

(* ncm_model_init.                                                         *)
FirstKey == 1

NewModel(h, a, v) == [h EXCEPT !.key[a] = FirstKey, !.val[a] = v]

(* Of a model that is gone nothing is left.                                *)
Without(h, dead) ==
  [h EXCEPT !.key = [a \in Addr |-> IF a \in dead THEN 1 ELSE @[a]],
            !.val = [a \in Addr |-> IF a \in dead THEN None ELSE @[a]],
            !.ypKey = [c \in Cosmo |-> IF c \in dead THEN 0 ELSE @[c]],
            !.subs = [c \in Cosmo |-> IF c \in dead THEN NoSubs ELSE @[c]]]

(* Every setter of a parameter counts as a change.                         *)
SetParam(h, a, v) == [h EXCEPT !.val[a] = v, !.key[a] = @ + 1]

(* ncm_model_add_submodel: the submodel takes the place of one of its kind *)
AddSubmodel(h, c, i, a) == [h EXCEPT !.subs[c][i] = a]

(* Mutant of ReadYp: what is kept is the counter before the change.        *)
ReadYpOldKey(h, c) ==
  IF h.key[c] = h.ypKey[c] THEN h
  ELSE [h EXCEPT !.key[c] = @ + 1, !.ypKey[c] = h.key[c]]

(* nc_hicosmo_Yp_4He with a fixed HE_YP: what is read of a cosmology may   *)
(* change it.                                                              *)
ReadYp(h, c) ==
  IF h.key[c] = h.ypKey[c] THEN h
  ELSE [h EXCEPT !.key[c] = @ + 1, !.ypKey[c] = h.key[c] + 1]

-----------------------------------------------------------------------------
(* NcmModelCtrl                                                            *)

SubCtrlType == [model : Addr \cup {None}, key : Nat]
CtrlType == [model : Addr \cup {None}, key : Nat, sub : [Kind -> SubCtrlType]]

NoSubCtrl == [model |-> None, key |-> 0]
NewCtrl == [model |-> None, key |-> 0, sub |-> [i \in Kind |-> NoSubCtrl]]

(* A control made for a submodel, or set to it.                            *)
SubCtrl(h, a) == [model |-> a, key |-> h.key[a]]

(* ncm_model_ctrl_set_model: the counters of submodels that are the same   *)
(* object as before are left.                                              *)
SetModel(h, ctrl, c) ==
  [model |-> c,
   key |-> IF ctrl.model = c THEN ctrl.key ELSE h.key[c],
   sub |-> [i \in Kind |-> IF h.subs[c][i] = None THEN NoSubCtrl
                           ELSE IF ctrl.sub[i].model = h.subs[c][i] THEN ctrl.sub[i]
                           ELSE SubCtrl(h, h.subs[c][i])]]

(* ncm_model_ctrl_update: first the cosmology, then each submodel.         *)
UpdateModel(h, ctrl, c) ==
  IF ctrl.model # c THEN SetModel(h, ctrl, c) ELSE [ctrl EXCEPT !.key = h.key[c]]

UpdateSub(h, sub, a) ==
  IF a = None THEN NoSubCtrl
  ELSE IF sub.model # a THEN SubCtrl(h, a)
  ELSE [sub EXCEPT !.key = h.key[a]]

Update(h, ctrl, c) ==
  LET top == UpdateModel(h, ctrl, c)
  IN  [top EXCEPT !.sub = [i \in Kind |-> UpdateSub(h, top.sub[i], h.subs[c][i])]]

(* What it finds changed, as it leaves it in last_update and               *)
(* submodel_last_update.  When the cosmology is another one the submodels  *)
(* have been set before they are compared.                                 *)
ModelUp(h, ctrl, c) == ctrl.model # c \/ ctrl.key # h.key[c]

SubmodelUp(h, ctrl, c, i) ==
  LET a == h.subs[c][i]
  IN  a # None /\ UpdateModel(h, ctrl, c).sub[i] # SubCtrl(h, a)

Up(h, ctrl, c) == ModelUp(h, ctrl, c) \/ \E i \in Kind : SubmodelUp(h, ctrl, c, i)

(* ncm_model_ctrl_force_update.                                            *)
ForceUpdate(ctrl) == [ctrl EXCEPT !.model = None, !.sub = [i \in Kind |-> NoSubCtrl]]

(* Mutant of Forget: the references are plain pointers.                    *)
ForgetNothing(ctrl, dead) == ctrl

(* The weak references to models that are no more read NULL.               *)
Forget(ctrl, dead) ==
  [ctrl EXCEPT
     !.model = IF @ \in dead THEN None ELSE @,
     !.sub = [i \in Kind |-> IF @[i].model \in dead THEN [@[i] EXCEPT !.model = None] ELSE @[i]]]
=============================================================================
