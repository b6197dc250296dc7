----------------------------- MODULE CBEProofs -----------------------------
(***************************************************************************)
(* What is proved about NcCBE and the objects that share one, for any sets *)
(* of addresses and values and any number of changes.                      *)
(***************************************************************************)
EXTENDS CBE, TLAPS

(* A cosmology the program holds has both submodels, and they have values. *)
(* One that it does not hold has none.                                     *)
HeapInv(h) ==
  /\ h \in HeapType
  /\ \A c \in h.held, i \in Kind : h.subs[c][i] \in OfKind(i)
  /\ \A c \in Cosmo \ h.held : h.subs[c] = NoSubs
  /\ \A a \in Live(h) : h.val[a] \in Value

(* A control knows models that live, as they are or as they were.          *)
Known(h, ctrl) ==
  /\ ctrl \in CtrlType
  /\ ctrl.model # None => ctrl.model \in h.held /\ ctrl.key <= h.key[ctrl.model]
  /\ \A i \in Kind : ctrl.sub[i].model # None =>
       ctrl.sub[i].model \in Live(h) /\ ctrl.sub[i].key <= h.key[ctrl.sub[i].model]

(* The values v and w were computed from the models a control knows: they  *)
(* are those of the models unless these were changed since.                *)
Remembers(h, ctrl, v) ==
  ctrl.model # None /\ ctrl.key = h.key[ctrl.model] => v = h.val[ctrl.model]

RemembersSub(h, ctrl, i, w) ==
  ctrl.model # None /\ ctrl.sub[i].model # None /\ ctrl.sub[i].key = h.key[ctrl.sub[i].model]
    => w = h.val[ctrl.sub[i].model]

CBEInv(h, x) ==
  /\ x.target \/ x.transfer => x.call # None
  /\ x.ctrl.model # None => x.thermo # None
  /\ x.ctrl.model # None /\ x.call # None =>
       x.spectra # None /\ x.spectra.transfer = x.transfer /\ x.spectra.zmax = x.zmax
  /\ Known(h, x.ctrl)
  /\ ~ x.thermo.foreign => Remembers(h, x.ctrl, x.thermo.cosmo)
  /\ x.call # None => /\ ~ x.spectra.foreign => Remembers(h, x.ctrl, x.spectra.cosmo)
                      /\ RemembersSub(h, x.ctrl, "prim", x.spectra.prim)

PSInv(h, p) ==
  /\ Known(h, p.ctrl)
  /\ ~ p.lnPk.foreign => Remembers(h, p.ctrl, p.lnPk.cosmo)
  /\ RemembersSub(h, p.ctrl, "prim", p.lnPk.prim)
  /\ p.ctrl.model # None => p.lnPk # None /\ p.lnPk.transfer /\ p.lnPk.zmax = p.zf

RCInv(h, r) ==
  /\ Known(h, r.ctrl)
  /\ Remembers(h, r.ctrl, r.Xe.cosmo)
  /\ RemembersSub(h, r.ctrl, "reion", r.Xe.reion)
  /\ r.ctrl.model # None => r.Xe # None

CallOf(b) == IF b.lensed THEN "lensing" ELSE "spectra"

PBInv(h, b) ==
  /\ Known(h, b.ctrl)
  /\ Remembers(h, b.ctrl, b.Cls.cosmo)
  /\ RemembersSub(h, b.ctrl, "prim", b.Cls.prim)
  /\ RemembersSub(h, b.ctrl, "reion", b.Cls.reion)
  /\ b.ctrl.model # None => b.Cls # None /\ b.Cls.target /\ b.Cls.by = CallOf(b)

AnswerHeld == answer # None => answer.of \in heap.held

(* When the power spectrum made CLASS run for a cosmology, its fraction of helium is known, and    *)
(* after the second time the NcCBE has seen it.                            *)
RunInv ==
  /\ again <= 2
  /\ again > 0 => /\ answer # None
                  /\ heap.key[answer.of] = heap.ypKey[answer.of]
                  /\ cbe.transfer /\ cbe.zmax = ps.zf
  /\ again > 1 => ~ ModelUp(heap, cbe.ctrl, answer.of)

IInv ==
  /\ TypeOK
  /\ HeapInv(heap)
  /\ CBEInv(heap, cbe)
  /\ PSInv(heap, ps)
  /\ RCInv(heap, rc)
  /\ PBInv(heap, pb)
  /\ AnswerHeld
  /\ RunInv
  /\ Answers

-----------------------------------------------------------------------------
(* Controls                                                                *)

(* What a control is when it has just been updated.                        *)
Seen(h, c) ==
  [model |-> c, key |-> h.key[c],
   sub |-> [i \in Kind |-> IF h.subs[c][i] = None THEN NoSubCtrl ELSE SubCtrl(h, h.subs[c][i])]]

(* An address is no kind of None.                                          *)
LEMMA NoneFacts ==
  /\ None \notin Addr /\ None \notin Cosmo
  /\ \A i \in Kind : OfKind(i) \subseteq Addr /\ None \notin OfKind(i) /\ OfKind(i) \cap Cosmo = {}
BY AddrAssumption DEF Addr, Kind, OfKind

(* On each of its paths ncm_model_ctrl_update leaves the control as if it  *)
(* had been made for the models as they are.                               *)
LEMMA UpdateSees ==
  ASSUME NEW h \in HeapType, NEW ctrl \in CtrlType, NEW c \in Cosmo
  PROVE  Update(h, ctrl, c) = Seen(h, c)
<1> DEFINE top == UpdateModel(h, ctrl, c)
<1>1. top = [model |-> c, key |-> h.key[c], sub |-> top.sub]
      /\ \A i \in Kind : top.sub[i] \in SubCtrlType
  <2>1. CASE ctrl.model # c
    <3>1. \A i \in Kind : h.subs[c][i] \in Addr \cup {None}
      BY DEF HeapType
    <3>2. \A a \in Addr : SubCtrl(h, a) \in SubCtrlType
      BY DEF SubCtrl, SubCtrlType, HeapType
    <3>3. NoSubCtrl \in SubCtrlType
      BY DEF NoSubCtrl, SubCtrlType
    <3> QED
      BY <2>1, <3>1, <3>2, <3>3 DEF UpdateModel, SetModel, CtrlType
  <2>2. CASE ctrl.model = c
    BY <2>2 DEF UpdateModel, CtrlType
  <2> QED
    BY <2>1, <2>2
<1>2. \A i \in Kind : UpdateSub(h, top.sub[i], h.subs[c][i])
        = IF h.subs[c][i] = None THEN NoSubCtrl ELSE SubCtrl(h, h.subs[c][i])
  <2> SUFFICES ASSUME NEW i \in Kind, NEW s \in SubCtrlType, s = top.sub[i]
               PROVE  UpdateSub(h, s, h.subs[c][i])
                        = IF h.subs[c][i] = None THEN NoSubCtrl ELSE SubCtrl(h, h.subs[c][i])
    BY <1>1
  <2>1. s = [model |-> s.model, key |-> s.key]
    BY DEF SubCtrlType
  <2> QED
    BY <2>1 DEF UpdateSub, SubCtrl
<1> HIDE DEF top
<1>3. Update(h, ctrl, c)
        = [top EXCEPT !.sub = [i \in Kind |-> UpdateSub(h, top.sub[i], h.subs[c][i])]]
  BY DEF Update, top
<1> QED
  BY <1>1, <1>2, <1>3 DEF Seen

(* A control that was just updated knows the models.                       *)
LEMMA SeenKnown ==
  ASSUME NEW h, HeapInv(h), NEW c \in h.held
  PROVE  /\ c \in Cosmo /\ Known(h, Seen(h, c))
         /\ Seen(h, c).model = c /\ Seen(h, c).key = h.key[c]
         /\ \A i \in Kind : /\ Seen(h, c).sub[i].model = h.subs[c][i]
                            /\ Seen(h, c).sub[i].key = h.key[h.subs[c][i]]
                            /\ h.subs[c][i] \in Live(h)
<1>1. c \in Cosmo /\ h.key[c] \in Nat /\ \A a \in Addr : h.key[a] \in Nat
  BY DEF HeapInv, HeapType, Addr
<1>2. \A i \in Kind : h.subs[c][i] \in Addr /\ h.subs[c][i] # None
  BY NoneFacts DEF HeapInv
<1>3. \A i \in Kind : h.subs[c][i] \in Live(h)
  BY <1>2 DEF Live, SubmodelsOf
<1>4. Seen(h, c) = [model |-> c, key |-> h.key[c],
                    sub |-> [i \in Kind |-> [model |-> h.subs[c][i], key |-> h.key[h.subs[c][i]]]]]
  BY <1>2 DEF Seen, SubCtrl
<1>5. Seen(h, c) \in CtrlType
  BY <1>1, <1>2, <1>4 DEF CtrlType, SubCtrlType, Addr
<1>6. Seen(h, c).model = c /\ Seen(h, c).key = h.key[c] /\ c \in Cosmo
  BY <1>1, <1>4
<1>7. \A i \in Kind : /\ Seen(h, c).sub[i].model = h.subs[c][i]
                      /\ Seen(h, c).sub[i].key = h.key[h.subs[c][i]]
                      /\ h.subs[c][i] \in Live(h)
  BY <1>3, <1>4
<1>8. \A i \in Kind : Seen(h, c).sub[i].key <= h.key[Seen(h, c).sub[i].model]
  BY <1>1, <1>2, <1>7
<1>9. Known(h, Seen(h, c))
  BY <1>1, <1>5, <1>6, <1>7, <1>8 DEF Known
<1> QED
  BY <1>6, <1>7, <1>9

(* A control that finds no change has seen the models as they are.         *)
LEMMA NotUp ==
  ASSUME NEW h, HeapInv(h), NEW c \in h.held, NEW ctrl \in CtrlType,
         ~ ModelUp(h, ctrl, c)
  PROVE  /\ ctrl.model = c /\ ctrl.key = h.key[c]
         /\ \A i \in Kind : ~ SubmodelUp(h, ctrl, c, i) =>
              ctrl.sub[i].model = h.subs[c][i] /\ ctrl.sub[i].key = h.key[h.subs[c][i]]
<1>1. ctrl.model = c /\ ctrl.key = h.key[c]
  BY DEF ModelUp
<1>2. UpdateModel(h, ctrl, c).sub = ctrl.sub
  BY <1>1 DEF UpdateModel, CtrlType
<1>3. \A i \in Kind : h.subs[c][i] # None
  BY NoneFacts DEF HeapInv
<1> QED
  BY <1>1, <1>2, <1>3 DEF SubmodelUp, SubCtrl

-----------------------------------------------------------------------------
(* Models                                                                  *)

(* What may happen to the models in a step that frees those in gone: what  *)
(* is left is as it was, or counts one change more.                        *)
Follows(h, h2, gone) ==
  /\ Live(h) \ gone \subseteq Live(h2)
  /\ h.held \ gone \subseteq h2.held
  /\ \A a \in Live(h) \ gone :
       (h2.key[a] = h.key[a] /\ h2.val[a] = h.val[a]) \/ h2.key[a] > h.key[a]

(* With one submodel more one model more is live.                          *)
LEMMA LiveGrows ==
  ASSUME NEW h, NEW h2, NEW a, h2.held = h.held,
         \A d \in h.held : SubmodelsOf(h, d) \subseteq SubmodelsOf(h2, d)
                           /\ SubmodelsOf(h2, d) \subseteq SubmodelsOf(h, d) \cup {a}
  PROVE  Live(h2) \subseteq Live(h) \cup {a} /\ Live(h) \subseteq Live(h2)
<1>1. ASSUME NEW b \in Live(h2) PROVE b \in Live(h) \cup {a}
  <2>1. b \in h.held \/ \E d \in h.held : b \in SubmodelsOf(h2, d)
    BY DEF Live
  <2>2. b \in h.held \/ b = a \/ \E d \in h.held : b \in SubmodelsOf(h, d)
    BY <2>1
  <2> QED
    BY <2>2 DEF Live
<1>2. ASSUME NEW b \in Live(h) PROVE b \in Live(h2)
  <2>1. b \in h.held \/ \E d \in h.held : b \in SubmodelsOf(h, d)
    BY DEF Live
  <2>2. b \in h.held \/ \E d \in h.held : b \in SubmodelsOf(h2, d)
    BY <2>1
  <2> QED
    BY <2>2 DEF Live
<1> QED
  BY <1>1, <1>2

(* Whoever is live has an address, and is a cosmology only if it is held.  *)
LEMMA LiveFacts ==
  ASSUME NEW h \in HeapType
  PROVE  /\ Live(h) \subseteq Addr /\ h.held \subseteq Live(h)
         /\ h.held \subseteq Cosmo /\ Cosmo \subseteq Addr
         /\ \A c \in h.held, i \in Kind : h.subs[c][i] # None => h.subs[c][i] \in Live(h)
BY NoneFacts DEF Live, SubmodelsOf, HeapType, Addr

(* A cosmology that is live is held: nobody's submodel is one.             *)
LEMMA LiveCosmo ==
  ASSUME NEW h, HeapInv(h), NEW c \in Live(h), c \in Cosmo
  PROVE  c \in h.held
<1>1. \A d \in h.held, i \in Kind : h.subs[d][i] \notin Cosmo
  BY NoneFacts DEF HeapInv
<1> QED
  BY <1>1 DEF Live, SubmodelsOf

(* A control of things as they were is one of things as they are, when it  *)
(* forgets the models that are gone: a model at the address of one that is *)
(* gone is not taken for it, and no change takes a counter back.           *)
LEMMA KnownFollows ==
  ASSUME NEW h, NEW h2, NEW gone, HeapInv(h), HeapInv(h2), Follows(h, h2, gone),
         NEW ctrl, Known(h, ctrl)
  PROVE  /\ Known(h2, Forget(ctrl, gone))
         /\ \A v : Remembers(h, ctrl, v) => Remembers(h2, Forget(ctrl, gone), v)
         /\ \A w : \A i \in Kind : RemembersSub(h, ctrl, i, w) => RemembersSub(h2, Forget(ctrl, gone), i, w)
<1> DEFINE f == Forget(ctrl, gone)
<1>1. ctrl \in CtrlType /\ h \in HeapType /\ h2 \in HeapType
  BY DEF Known, HeapInv
<1>2. \A a \in Addr : h.key[a] \in Nat /\ h2.key[a] \in Nat
  BY <1>1 DEF HeapType
<1>3. /\ f \in CtrlType
      /\ f.key = ctrl.key
      /\ f.model = IF ctrl.model \in gone THEN None ELSE ctrl.model
      /\ \A i \in Kind : /\ f.sub[i].model = IF ctrl.sub[i].model \in gone THEN None ELSE ctrl.sub[i].model
                         /\ f.sub[i].key = ctrl.sub[i].key
  BY <1>1 DEF Forget, CtrlType, SubCtrlType
<1>4. Live(h) \subseteq Addr /\ h.held \subseteq Live(h)
  BY <1>1, LiveFacts
<1>5. ctrl.key \in Nat /\ \A i \in Kind : ctrl.sub[i].key \in Nat
  BY <1>1 DEF CtrlType, SubCtrlType
<1> HIDE DEF f
<1>6. ASSUME f.model # None
      PROVE  /\ f.model = ctrl.model /\ f.model \in h.held \ gone /\ f.model \in h2.held
             /\ ctrl.key <= h.key[f.model] /\ f.model \in Addr
             /\ (h2.key[f.model] = h.key[f.model] /\ h2.val[f.model] = h.val[f.model])
                  \/ h2.key[f.model] > h.key[f.model]
  BY <1>3, <1>4, <1>6 DEF Known, Follows
<1>7. ASSUME NEW i \in Kind, f.sub[i].model # None
      PROVE  /\ f.sub[i].model = ctrl.sub[i].model
             /\ f.sub[i].model \in Live(h2) /\ f.sub[i].model \in Addr
             /\ ctrl.sub[i].key <= h.key[f.sub[i].model]
             /\ (h2.key[f.sub[i].model] = h.key[f.sub[i].model] /\ h2.val[f.sub[i].model] = h.val[f.sub[i].model])
                  \/ h2.key[f.sub[i].model] > h.key[f.sub[i].model]
  BY <1>3, <1>4, <1>7 DEF Known, Follows
<1>8. Known(h2, f)
  BY <1>2, <1>3, <1>5, <1>6, <1>7 DEF Known
<1>9. ASSUME NEW v, Remembers(h, ctrl, v)  PROVE Remembers(h2, f, v)
  BY <1>2, <1>3, <1>5, <1>6, <1>9 DEF Remembers
<1>10. ASSUME NEW i \in Kind, NEW w, RemembersSub(h, ctrl, i, w)  PROVE RemembersSub(h2, f, i, w)
  BY <1>2, <1>3, <1>5, <1>6, <1>7, <1>10 DEF RemembersSub
<1> QED
  BY <1>8, <1>9, <1>10 DEF f

(* When no model is gone, no control forgets.                              *)
LEMMA ForgetNone ==
  ASSUME NEW ctrl \in CtrlType
  PROVE  Forget(ctrl, {}) = ctrl
BY DEF Forget, CtrlType, SubCtrlType

(* Reading the fraction of helium changes at most a counter, and leaves it *)
(* known for the counter there is.                                         *)
LEMMA ReadYpFollows ==
  ASSUME NEW h, HeapInv(h), NEW c \in h.held
  PROVE  /\ HeapInv(ReadYp(h, c)) /\ Follows(h, ReadYp(h, c), {})
         /\ ReadYp(h, c).held = h.held /\ ReadYp(h, c).val = h.val /\ ReadYp(h, c).subs = h.subs
         /\ ReadYp(h, c).key[c] = ReadYp(h, c).ypKey[c]
         /\ \A d \in h.held : h.key[d] = h.ypKey[d] =>
              ReadYp(h, c).key[d] = h.key[d] /\ ReadYp(h, c).ypKey[d] = h.ypKey[d]
<1> DEFINE r == ReadYp(h, c)
<1>1. h \in HeapType /\ c \in Cosmo /\ c \in Addr /\ h.held \subseteq Addr
  BY LiveFacts DEF HeapInv, HeapType, Addr
<1>2. h.key[c] \in Nat \ {0}
  BY <1>1 DEF HeapType
<1>3. CASE h.key[c] = h.ypKey[c]
  BY <1>1, <1>3 DEF ReadYp, Follows
<1>4. CASE h.key[c] # h.ypKey[c]
  <2>1. r = [h EXCEPT !.key[c] = @ + 1, !.ypKey[c] = h.key[c] + 1]
    BY <1>4 DEF ReadYp
  <2>2. /\ r.held = h.held /\ r.val = h.val /\ r.subs = h.subs
        /\ r.key = [h.key EXCEPT ![c] = @ + 1]
        /\ r.ypKey = [h.ypKey EXCEPT ![c] = h.key[c] + 1]
        /\ r \in HeapType
    <3> DEFINE ky == [h.key EXCEPT ![c] = @ + 1]
               yk == [h.ypKey EXCEPT ![c] = h.key[c] + 1]
    <3>1. r = [h EXCEPT !.key = ky, !.ypKey = yk]
      BY <2>1
    <3>2. ky \in [Addr -> Nat \ {0}] /\ yk \in [Cosmo -> Nat]
      BY <1>1, <1>2 DEF HeapType
    <3> HIDE DEF r, ky, yk
    <3>3. /\ r \in HeapType
          /\ r.held = h.held /\ r.key = ky /\ r.val = h.val /\ r.ypKey = yk /\ r.subs = h.subs
      BY <1>1, <3>1, <3>2 DEF HeapType
    <3> QED
      BY <3>3 DEF ky, yk
  <2> HIDE DEF r
  <2>3. Live(r) = Live(h)
    BY <2>2 DEF Live, SubmodelsOf
  <2>4. HeapInv(r)
    BY <2>2, <2>3 DEF HeapInv
  <2>5. \A a \in Addr : r.key[a] = h.key[a] \/ r.key[a] > h.key[a]
    BY <1>1, <1>2, <2>2 DEF HeapType
  <2>6. Follows(h, r, {})
    BY <1>1, <2>2, <2>3, <2>5, LiveFacts DEF Follows
  <2>7. r.key[c] = r.ypKey[c] /\ \A d \in h.held : h.key[d] = h.ypKey[d] =>
          r.key[d] = h.key[d] /\ r.ypKey[d] = h.ypKey[d]
    BY <1>1, <1>4, <2>2 DEF HeapType
  <2> QED
    BY <2>2, <2>4, <2>6, <2>7 DEF r
<1> QED
  BY <1>3, <1>4

(* Every setter counts.                                                    *)
LEMMA SetFollows ==
  ASSUME NEW h, HeapInv(h), NEW a \in Live(h), NEW v \in Value
  PROVE  HeapInv(SetParam(h, a, v)) /\ Follows(h, SetParam(h, a, v), {})
<1> DEFINE r == SetParam(h, a, v)
<1>1. h \in HeapType /\ a \in Addr /\ Live(h) \subseteq Addr
  BY LiveFacts DEF HeapInv
<1>2. h.key[a] \in Nat \ {0}
  BY <1>1 DEF HeapType
<1>3. /\ r.held = h.held /\ r.ypKey = h.ypKey /\ r.subs = h.subs
      /\ r.key = [h.key EXCEPT ![a] = @ + 1]
      /\ r.val = [h.val EXCEPT ![a] = v]
      /\ r \in HeapType
  <2> DEFINE ky == [h.key EXCEPT ![a] = @ + 1]
             vl == [h.val EXCEPT ![a] = v]
  <2>1. r = [h EXCEPT !.val = vl, !.key = ky]
    BY DEF SetParam
  <2>2. ky \in [Addr -> Nat \ {0}] /\ vl \in [Addr -> Value \cup {None}]
    BY <1>1, <1>2 DEF HeapType
  <2> HIDE DEF r, ky, vl
  <2>3. /\ r \in HeapType
        /\ r.held = h.held /\ r.key = ky /\ r.val = vl /\ r.ypKey = h.ypKey /\ r.subs = h.subs
    BY <1>1, <2>1, <2>2 DEF HeapType
  <2> QED
    BY <2>3 DEF ky, vl
<1> HIDE DEF r
<1>4. Live(r) = Live(h)
  BY <1>3 DEF Live, SubmodelsOf
<1>5. \A b \in Live(h) : r.val[b] \in Value
  BY <1>1, <1>3 DEF HeapInv, HeapType
<1>6. HeapInv(r)
  BY <1>3, <1>4, <1>5 DEF HeapInv
<1>7. \A b \in Addr : (r.key[b] = h.key[b] /\ r.val[b] = h.val[b]) \/ r.key[b] > h.key[b]
  BY <1>1, <1>2, <1>3 DEF HeapType
<1>8. Follows(h, r, {})
  BY <1>1, <1>3, <1>4, <1>7 DEF Follows
<1> QED
  BY <1>6, <1>8 DEF r

(* Of the models that are left nothing is lost with those that are gone.   *)
LEMMA WithoutFacts ==
  ASSUME NEW h \in HeapType, NEW dead, dead \cap Live(h) = {}
  PROVE  /\ Without(h, dead) \in HeapType
         /\ Without(h, dead).held = h.held /\ Live(Without(h, dead)) = Live(h)
         /\ \A a \in Live(h) : Without(h, dead).key[a] = h.key[a] /\ Without(h, dead).val[a] = h.val[a]
         /\ \A c \in h.held : Without(h, dead).subs[c] = h.subs[c]
         /\ \A c \in Cosmo : h.subs[c] = NoSubs \/ c \in dead => Without(h, dead).subs[c] = NoSubs
<1> DEFINE r == Without(h, dead)
           ky == [a \in Addr |-> IF a \in dead THEN 1 ELSE h.key[a]]
           vl == [a \in Addr |-> IF a \in dead THEN None ELSE h.val[a]]
           yk == [c \in Cosmo |-> IF c \in dead THEN 0 ELSE h.ypKey[c]]
           sb == [c \in Cosmo |-> IF c \in dead THEN NoSubs ELSE h.subs[c]]
<1>1. r = [h EXCEPT !.key = ky, !.val = vl, !.ypKey = yk, !.subs = sb]
  BY DEF Without
<1>2. /\ ky \in [Addr -> Nat \ {0}] /\ vl \in [Addr -> Value \cup {None}] /\ yk \in [Cosmo -> Nat]
      /\ sb \in [Cosmo -> [Kind -> Addr \cup {None}]]
  BY DEF HeapType, NoSubs
<1> HIDE DEF r, ky, vl, yk, sb
<1>3. r \in HeapType /\ r.held = h.held /\ r.key = ky /\ r.val = vl /\ r.ypKey = yk /\ r.subs = sb
  BY <1>1, <1>2 DEF HeapType
<1>4. Live(h) \subseteq Addr /\ h.held \subseteq Live(h) /\ h.held \subseteq Cosmo
  BY LiveFacts
<1>5. \A a \in Live(h) : r.key[a] = h.key[a] /\ r.val[a] = h.val[a]
  BY <1>3, <1>4 DEF ky, vl
<1>6. \A c \in h.held : r.subs[c] = h.subs[c]
  BY <1>3, <1>4 DEF sb
<1>7. \A c \in Cosmo : h.subs[c] = NoSubs \/ c \in dead => r.subs[c] = NoSubs
  BY <1>3 DEF sb
<1>8. Live(r) = Live(h)
  BY <1>3, <1>6 DEF Live, SubmodelsOf
<1> QED
  BY <1>3, <1>5, <1>6, <1>7, <1>8 DEF r

(* Giving a cosmology a submodel changes no model that is live.            *)
LEMMA SubmodelFacts ==
  ASSUME NEW h \in HeapType, NEW c \in h.held, NEW i \in Kind, NEW h2 \in Submodel(h, c, i),
         \A a \in Live(h) : h.val[a] \in Value
  PROVE  /\ h2 \in HeapType /\ h2.held = h.held
         /\ h2.subs[c][i] \in OfKind(i)
         /\ \A d \in Cosmo, j \in Kind : d # c \/ j # i => h2.subs[d][j] = h.subs[d][j]
         /\ \A d \in Cosmo \ {c} : h2.subs[d] = h.subs[d]
         /\ \A a \in Live(h) : h2.key[a] = h.key[a] /\ h2.val[a] = h.val[a]
         /\ h2.val[h2.subs[c][i]] \in Value
<1>1. c \in Cosmo /\ Live(h) \subseteq Addr
  BY LiveFacts
<1>2. PICK a \in OfKind(i) :
        \/ a \in Live(h) /\ h2 = AddSubmodel(h, c, i, a)
        \/ a \notin Live(h) /\ \E v \in Value : h2 = AddSubmodel(NewModel(h, a, v), c, i, a)
  BY DEF Submodel
<1>3. a \in Addr
  BY NoneFacts
<1> DEFINE sb == [h.subs EXCEPT ![c][i] = a]
<1>4. /\ sb \in [Cosmo -> [Kind -> Addr \cup {None}]]
      /\ sb[c][i] = a
      /\ \A d \in Cosmo, j \in Kind : d # c \/ j # i => sb[d][j] = h.subs[d][j]
      /\ \A d \in Cosmo \ {c} : sb[d] = h.subs[d]
  BY <1>1, <1>3 DEF HeapType
<1>5. CASE a \in Live(h) /\ h2 = AddSubmodel(h, c, i, a)
  <2>1. h2 = [h EXCEPT !.subs = sb]
    BY <1>5 DEF AddSubmodel
  <2> HIDE DEF sb
  <2>2. /\ h2 \in HeapType
        /\ h2.held = h.held /\ h2.key = h.key /\ h2.val = h.val /\ h2.subs = sb
    BY <1>4, <2>1 DEF HeapType
  <2> QED
    BY <1>4, <1>5, <2>2
<1>6. ASSUME a \notin Live(h), NEW v \in Value, h2 = AddSubmodel(NewModel(h, a, v), c, i, a)
      PROVE  /\ h2 \in HeapType /\ h2.held = h.held /\ h2.subs = sb
             /\ h2.val[a] = v /\ \A b \in Live(h) : h2.key[b] = h.key[b] /\ h2.val[b] = h.val[b]
  <2> DEFINE ky == [h.key EXCEPT ![a] = FirstKey]
             vl == [h.val EXCEPT ![a] = v]
             m == NewModel(h, a, v)
  <2>1. m = [h EXCEPT !.key = ky, !.val = vl]
    BY DEF NewModel
  <2>2. ky \in [Addr -> Nat \ {0}] /\ vl \in [Addr -> Value \cup {None}]
    BY <1>3 DEF HeapType, FirstKey
  <2>3. vl[a] = v /\ \A b \in Live(h) : ky[b] = h.key[b] /\ vl[b] = h.val[b]
    BY <1>1, <1>3, <1>6 DEF HeapType
  <2>4. h2 = [m EXCEPT !.subs = [m.subs EXCEPT ![c][i] = a]]
    BY <1>6 DEF AddSubmodel
  <2> HIDE DEF m, ky, vl
  <2>5. m \in HeapType /\ m.held = h.held /\ m.key = ky /\ m.val = vl /\ m.subs = h.subs
    BY <2>1, <2>2 DEF HeapType
  <2>6. h2 = [m EXCEPT !.subs = sb]
    BY <2>4, <2>5
  <2> HIDE DEF sb
  <2>7. h2 \in HeapType /\ h2.held = m.held /\ h2.key = m.key /\ h2.val = m.val /\ h2.subs = sb
    BY <1>4, <2>5, <2>6 DEF HeapType
  <2> QED
    BY <2>3, <2>5, <2>7
<1> HIDE DEF sb
<1> QED
  BY <1>2, <1>4, <1>5, <1>6

(* Exchanging a submodel frees at most the one there was.                  *)
LEMMA ExchangeFollows ==
  ASSUME NEW h, HeapInv(h), NEW c \in h.held, NEW i \in Kind, NEW m \in Submodel(h, c, i),
         NEW gone, gone = Live(h) \ Live(m)
  PROVE  HeapInv(Without(m, gone)) /\ Follows(h, Without(m, gone), gone)
<1>1. h \in HeapType /\ c \in Cosmo /\ h.held \subseteq Cosmo /\ \A a \in Live(h) : h.val[a] \in Value
  BY LiveFacts DEF HeapInv
<1>2. /\ m \in HeapType /\ m.held = h.held
      /\ m.subs[c][i] \in OfKind(i)
      /\ \A d \in Cosmo, j \in Kind : d # c \/ j # i => m.subs[d][j] = h.subs[d][j]
      /\ \A d \in Cosmo \ {c} : m.subs[d] = h.subs[d]
      /\ \A a \in Live(h) : m.key[a] = h.key[a] /\ m.val[a] = h.val[a]
      /\ m.val[m.subs[c][i]] \in Value
  BY <1>1, SubmodelFacts
<1>3. \A d \in m.held, j \in Kind : m.subs[d][j] \in OfKind(j)
  BY <1>1, <1>2 DEF HeapInv
<1>4. \A d \in Cosmo \ m.held : m.subs[d] = NoSubs
  BY <1>1, <1>2 DEF HeapInv
<1>5. Live(m) \subseteq Live(h) \cup {m.subs[c][i]}
  BY <1>1, <1>2 DEF Live, SubmodelsOf
<1>6. \A a \in Live(m) : m.val[a] \in Value
  BY <1>1, <1>2, <1>5
<1> DEFINE r == Without(m, gone)
<1>7. /\ r \in HeapType /\ r.held = m.held /\ Live(r) = Live(m)
      /\ \A a \in Live(m) : r.key[a] = m.key[a] /\ r.val[a] = m.val[a]
      /\ \A d \in m.held : r.subs[d] = m.subs[d]
      /\ \A d \in Cosmo : m.subs[d] = NoSubs => r.subs[d] = NoSubs
  <2>1. gone \cap Live(m) = {}
    OBVIOUS
  <2> QED
    BY <1>2, <2>1, WithoutFacts
<1> HIDE DEF r
<1>8. HeapInv(r)
  BY <1>3, <1>4, <1>6, <1>7 DEF HeapInv
<1>9. Live(h) \ gone \subseteq Live(m)
  OBVIOUS
<1>10. Follows(h, r, gone)
  BY <1>2, <1>7, <1>9 DEF Follows
<1> QED
  BY <1>8, <1>10 DEF r

(* Releasing a cosmology frees it and the submodels only it had.           *)
LEMMA ReleaseFollows ==
  ASSUME NEW h, HeapInv(h), NEW c \in h.held, NEW m, m = [h EXCEPT !.held = h.held \ {c}],
         NEW gone, gone = Live(h) \ Live(m)
  PROVE  HeapInv(Without(m, gone)) /\ Follows(h, Without(m, gone), gone)
<1>1. h \in HeapType /\ c \in Cosmo /\ c \in Live(h) /\ h.held \subseteq Cosmo /\ h.held \subseteq Live(h)
      /\ \A a \in Live(h) : h.val[a] \in Value
  BY LiveFacts DEF HeapInv
<1>2. m \in HeapType /\ m.held = h.held \ {c} /\ m.key = h.key /\ m.val = h.val /\ m.subs = h.subs
  <2> DEFINE hd == h.held \ {c}
  <2>1. hd \in SUBSET Cosmo
    BY <1>1
  <2> HIDE DEF hd
  <2>2. m = [h EXCEPT !.held = hd]
    BY DEF hd
  <2>3. m \in HeapType /\ m.held = hd /\ m.key = h.key /\ m.val = h.val /\ m.subs = h.subs
    BY <1>1, <2>1, <2>2 DEF HeapType
  <2> QED
    BY <2>3 DEF hd
<1>3. Live(m) \subseteq Live(h) /\ m.held \subseteq Live(m)
  BY <1>2, LiveFacts DEF Live, SubmodelsOf
<1>4. c \notin Live(m)
  <2>1. \A d \in h.held, j \in Kind : h.subs[d][j] # c
    BY <1>1, NoneFacts DEF HeapInv
  <2> QED
    BY <1>2, <2>1 DEF Live, SubmodelsOf
<1> DEFINE r == Without(m, gone)
<1>5. /\ r \in HeapType /\ r.held = m.held /\ Live(r) = Live(m)
      /\ \A a \in Live(m) : r.key[a] = m.key[a] /\ r.val[a] = m.val[a]
      /\ \A d \in m.held : r.subs[d] = m.subs[d]
      /\ \A d \in Cosmo : m.subs[d] = NoSubs \/ d \in gone => r.subs[d] = NoSubs
  <2>1. gone \cap Live(m) = {}
    OBVIOUS
  <2>2. m \in HeapType
    BY <1>2
  <2> QED
    BY ONLY <2>1, <2>2, WithoutFacts
<1> HIDE DEF r
<1>6. \A d \in Cosmo \ r.held : r.subs[d] = NoSubs
  <2>1. c \in gone
    BY <1>1, <1>4
  <2>2. \A d \in Cosmo \ h.held : m.subs[d] = NoSubs
    BY <1>2 DEF HeapInv
  <2> QED
    BY <1>1, <1>2, <1>5, <2>1, <2>2
<1>7. HeapInv(r)
  BY <1>1, <1>2, <1>3, <1>5, <1>6 DEF HeapInv
<1>8. Live(h) \ gone \subseteq Live(m)
  OBVIOUS
<1>9. Follows(h, r, gone)
  <2>1. h.held \ gone \subseteq r.held
    BY <1>1, <1>2, <1>4, <1>5
  <2>2. \A a \in Live(h) \ gone : r.key[a] = h.key[a] /\ r.val[a] = h.val[a]
    BY <1>2, <1>5, <1>8
  <2> QED
    BY <1>5, <1>8, <2>1, <2>2 DEF Follows
<1> QED
  BY <1>7, <1>9 DEF r

(* A new cosmology, and its submodels, are at addresses nobody uses, or    *)
(* its submodels are another one's.                                        *)
LEMMA NewFollows ==
  ASSUME NEW h, HeapInv(h), NEW c \in Cosmo \ h.held, NEW v \in Value,
         NEW m, m = [NewModel(h, c, v) EXCEPT !.held = h.held \cup {c}],
         NEW m1 \in Submodel(m, c, "prim"), NEW m2 \in Submodel(m1, c, "reion")
  PROVE  HeapInv(m2) /\ Follows(h, m2, {})
<1>1. h \in HeapType /\ h.held \subseteq Cosmo /\ c \in Addr /\ c \notin Live(h)
      /\ Live(h) \subseteq Addr /\ h.held \subseteq Live(h) /\ \A a \in Live(h) : h.val[a] \in Value
  BY LiveFacts, LiveCosmo DEF HeapInv
<1>2. /\ m \in HeapType /\ m.held = h.held \cup {c} /\ m.subs = h.subs /\ m.val[c] = v
      /\ \A a \in Live(h) : m.key[a] = h.key[a] /\ m.val[a] = h.val[a]
  <2> DEFINE ky == [h.key EXCEPT ![c] = FirstKey]
             vl == [h.val EXCEPT ![c] = v]
             hd == h.held \cup {c}
             n == NewModel(h, c, v)
  <2>1. n = [h EXCEPT !.key = ky, !.val = vl]
    BY DEF NewModel
  <2>2. ky \in [Addr -> Nat \ {0}] /\ vl \in [Addr -> Value \cup {None}] /\ hd \in SUBSET Cosmo
    BY <1>1 DEF HeapType, FirstKey
  <2>3. vl[c] = v /\ \A a \in Live(h) : ky[a] = h.key[a] /\ vl[a] = h.val[a]
    BY <1>1 DEF HeapType
  <2>4. m = [n EXCEPT !.held = hd]
    OBVIOUS
  <2> HIDE DEF n, ky, vl, hd
  <2>5. n \in HeapType /\ n.held = h.held /\ n.key = ky /\ n.val = vl /\ n.subs = h.subs
    BY <1>1, <2>1, <2>2 DEF HeapType
  <2>6. m \in HeapType /\ m.held = hd /\ m.key = n.key /\ m.val = n.val /\ m.subs = n.subs
    BY <2>2, <2>4, <2>5 DEF HeapType
  <2> QED
    BY <2>3, <2>5, <2>6 DEF hd
<1>3. Live(m) = Live(h) \cup {c}
  <2>1. SubmodelsOf(m, c) = {}
    BY <1>1, <1>2 DEF SubmodelsOf, HeapInv, NoSubs
  <2> QED
    BY <1>2, <2>1 DEF Live, SubmodelsOf
<1>4. \A a \in Live(m) : m.val[a] \in Value
  BY <1>1, <1>2, <1>3
<1>5. /\ m1 \in HeapType /\ m1.held = m.held
      /\ m1.subs[c]["prim"] \in OfKind("prim")
      /\ \A d \in Cosmo, j \in Kind : d # c \/ j # "prim" => m1.subs[d][j] = m.subs[d][j]
      /\ \A d \in Cosmo \ {c} : m1.subs[d] = m.subs[d]
      /\ \A a \in Live(m) : m1.key[a] = m.key[a] /\ m1.val[a] = m.val[a]
      /\ m1.val[m1.subs[c]["prim"]] \in Value
  BY <1>2, <1>4, SubmodelFacts DEF Kind
<1>6. Live(m1) \subseteq Live(m) \cup {m1.subs[c]["prim"]} /\ Live(m) \subseteq Live(m1)
  <2>1. \A i \in Kind : m.subs[c][i] = None
    BY <1>1, <1>2 DEF HeapInv, NoSubs
  <2>2. \A d \in m.held : d # c => SubmodelsOf(m1, d) = SubmodelsOf(m, d)
    BY <1>1, <1>2, <1>5 DEF SubmodelsOf
  <2>3. SubmodelsOf(m, c) \subseteq SubmodelsOf(m1, c)
        /\ SubmodelsOf(m1, c) \subseteq SubmodelsOf(m, c) \cup {m1.subs[c]["prim"]}
    BY <1>1, <1>2, <1>5, <2>1 DEF SubmodelsOf
  <2>4. PICK p : p = m1.subs[c]["prim"]
    OBVIOUS
  <2>5. \A d \in m.held : SubmodelsOf(m, d) \subseteq SubmodelsOf(m1, d)
          /\ SubmodelsOf(m1, d) \subseteq SubmodelsOf(m, d) \cup {p}
    BY <2>2, <2>3, <2>4
  <2>6. m1.held = m.held
    BY <1>5
  <2>7. Live(m1) \subseteq Live(m) \cup {p} /\ Live(m) \subseteq Live(m1)
    BY ONLY <2>5, <2>6, LiveGrows
  <2> QED
    BY <2>4, <2>7
<1>7. \A a \in Live(m1) : m1.val[a] \in Value
  BY <1>4, <1>5, <1>6
<1>8. /\ m2 \in HeapType /\ m2.held = m1.held
      /\ m2.subs[c]["reion"] \in OfKind("reion")
      /\ \A d \in Cosmo, j \in Kind : d # c \/ j # "reion" => m2.subs[d][j] = m1.subs[d][j]
      /\ \A d \in Cosmo \ {c} : m2.subs[d] = m1.subs[d]
      /\ \A a \in Live(m1) : m2.key[a] = m1.key[a] /\ m2.val[a] = m1.val[a]
      /\ m2.val[m2.subs[c]["reion"]] \in Value
  BY <1>2, <1>5, <1>7, SubmodelFacts DEF Kind
<1>9. Live(m2) \subseteq Live(m1) \cup {m2.subs[c]["reion"]} /\ Live(m1) \subseteq Live(m2)
  <2>1. m1.subs[c]["reion"] = None
    BY <1>1, <1>2, <1>5 DEF HeapInv, NoSubs, Kind
  <2>2. \A d \in m1.held : d # c => SubmodelsOf(m2, d) = SubmodelsOf(m1, d)
    BY <1>1, <1>2, <1>5, <1>8 DEF SubmodelsOf
  <2>3. SubmodelsOf(m1, c) \subseteq SubmodelsOf(m2, c)
        /\ SubmodelsOf(m2, c) \subseteq SubmodelsOf(m1, c) \cup {m2.subs[c]["reion"]}
    BY <1>8, <2>1 DEF SubmodelsOf, Kind
  <2>4. PICK p : p = m2.subs[c]["reion"]
    OBVIOUS
  <2>5. \A d \in m1.held : SubmodelsOf(m1, d) \subseteq SubmodelsOf(m2, d)
          /\ SubmodelsOf(m2, d) \subseteq SubmodelsOf(m1, d) \cup {p}
    BY <2>2, <2>3, <2>4
  <2>6. m2.held = m1.held
    BY <1>8
  <2>7. Live(m2) \subseteq Live(m1) \cup {p} /\ Live(m1) \subseteq Live(m2)
    BY ONLY <2>5, <2>6, LiveGrows
  <2> QED
    BY <2>4, <2>7
<1>10. \A a \in Live(m2) : m2.val[a] \in Value
  BY <1>7, <1>8, <1>9
<1>11. \A d \in Cosmo \ {c} : m2.subs[d] = h.subs[d]
  <2>1. \A d \in Cosmo \ {c} : m2.subs[d] = m1.subs[d] /\ m1.subs[d] = m.subs[d]
    BY <1>5, <1>8
  <2>2. m.subs = h.subs
    BY <1>2
  <2> QED
    BY ONLY <2>1, <2>2
<1>12. m2.held = h.held \cup {c}
  BY <1>2, <1>5, <1>8
<1>13. \A d \in m2.held, i \in Kind : m2.subs[d][i] \in OfKind(i)
  <2>1. m2.subs[c]["prim"] = m1.subs[c]["prim"]
    BY <1>8 DEF Kind
  <2>2. \A i \in Kind : m2.subs[c][i] \in OfKind(i)
    BY <1>5, <1>8, <2>1 DEF Kind
  <2>3. \A d \in h.held, i \in Kind : h.subs[d][i] \in OfKind(i)
    BY DEF HeapInv
  <2> QED
    BY <1>1, <1>11, <1>12, <2>2, <2>3
<1>14. \A d \in Cosmo \ m2.held : m2.subs[d] = NoSubs
  BY <1>11, <1>12 DEF HeapInv
<1>15. HeapInv(m2)
  BY <1>8, <1>10, <1>13, <1>14 DEF HeapInv
<1>16. Live(h) \subseteq Live(m2) /\ h.held \subseteq m2.held
  BY <1>3, <1>6, <1>9, <1>12
<1>17. \A a \in Live(h) : m2.key[a] = h.key[a] /\ m2.val[a] = h.val[a]
  <2>1. \A a \in Live(h) : a \in Live(m) /\ a \in Live(m1)
    BY <1>3, <1>6
  <2>2. \A a \in Live(m) : m1.key[a] = m.key[a] /\ m1.val[a] = m.val[a]
    BY <1>5
  <2>3. \A a \in Live(m1) : m2.key[a] = m1.key[a] /\ m2.val[a] = m1.val[a]
    BY <1>8
  <2> QED
    BY <1>2, <2>1, <2>2, <2>3
<1> QED
  BY <1>15, <1>16, <1>17 DEF Follows

-----------------------------------------------------------------------------
(* The NcCBE and its users                                                 *)

PSType == [ctrl : CtrlType, zf : Depth, lnPk : Spectra \cup {None}]
RCType == [ctrl : CtrlType, Xe : Thermo \cup {None}]
PBType == [ctrl : CtrlType, lensed : BOOLEAN, Cls : Spectra \cup {None}]

(* A control that was told to forget knows nothing.                        *)
LEMMA ForceFacts ==
  ASSUME NEW ctrl \in CtrlType
  PROVE  /\ ForceUpdate(ctrl) \in CtrlType /\ ForceUpdate(ctrl).model = None
         /\ \A h : Known(h, ForceUpdate(ctrl))
         /\ \A h, v : Remembers(h, ForceUpdate(ctrl), v)
         /\ \A h, w : \A i \in Kind : RemembersSub(h, ForceUpdate(ctrl), i, w)
<1> DEFINE f == ForceUpdate(ctrl)
<1>1. f \in CtrlType /\ f.model = None /\ \A i \in Kind : f.sub[i].model = None
  BY DEF ForceUpdate, NoSubCtrl, CtrlType, SubCtrlType
<1> HIDE DEF f
<1>2. \A h : Known(h, f)
  BY <1>1 DEF Known
<1>3. \A h, v : Remembers(h, f, v)
  BY <1>1 DEF Remembers
<1>4. \A h, w : \A i \in Kind : RemembersSub(h, f, i, w)
  BY <1>1 DEF RemembersSub
<1> QED
  BY <1>1, <1>2, <1>3, <1>4 DEF f

(* What a change of the models leaves of a control that forgets the dead.  *)
LEMMA CtrlFollows ==
  ASSUME NEW ctrl \in CtrlType, NEW gone
  PROVE  /\ Forget(ctrl, gone) \in CtrlType
         /\ Forget(ctrl, gone).model # None => Forget(ctrl, gone).model = ctrl.model
BY DEF Forget, CtrlType, SubCtrlType

(* A change of the models leaves the NcCBE as it should be.                *)
LEMMA CBEFollows ==
  ASSUME NEW h, NEW h2, NEW gone, HeapInv(h), HeapInv(h2), Follows(h, h2, gone),
         NEW x \in CBEType, CBEInv(h, x)
  PROVE  LET y == [x EXCEPT !.ctrl = Forget(@, gone)]
         IN  y \in CBEType /\ CBEInv(h2, y) /\ y.transfer = x.transfer /\ y.zmax = x.zmax
<1> DEFINE f == Forget(x.ctrl, gone)
           y == [x EXCEPT !.ctrl = f]
<1>1. x.ctrl \in CtrlType
  BY DEF CBEType
<1>2. f \in CtrlType /\ (f.model # None => f.model = x.ctrl.model)
  BY <1>1, CtrlFollows
<1>3. /\ Known(h2, f)
      /\ \A v : Remembers(h, x.ctrl, v) => Remembers(h2, f, v)
      /\ \A w : RemembersSub(h, x.ctrl, "prim", w) => RemembersSub(h2, f, "prim", w)
  BY KnownFollows DEF CBEInv, Kind
<1> HIDE DEF f
<1>4. /\ y \in CBEType /\ y.ctrl = f /\ y.target = x.target /\ y.lensed = x.lensed
      /\ y.transfer = x.transfer /\ y.zmax = x.zmax /\ y.call = x.call
      /\ y.thermo = x.thermo /\ y.spectra = x.spectra
  BY <1>2 DEF CBEType
<1> HIDE DEF y
<1>5. CBEInv(h2, y)
  BY <1>2, <1>3, <1>4 DEF CBEInv
<1>6. y \in CBEType /\ CBEInv(h2, y) /\ y.transfer = x.transfer /\ y.zmax = x.zmax
  BY <1>4, <1>5
<1> QED
  BY <1>6 DEF y, f

(* The same of the power spectrum.                                         *)
LEMMA PSFollows ==
  ASSUME NEW h, NEW h2, NEW gone, HeapInv(h), HeapInv(h2), Follows(h, h2, gone),
         NEW p \in PSType, PSInv(h, p)
  PROVE  LET q == [p EXCEPT !.ctrl = Forget(@, gone)]
         IN  q \in PSType /\ PSInv(h2, q) /\ q.zf = p.zf
<1> DEFINE f == Forget(p.ctrl, gone)
           q == [p EXCEPT !.ctrl = f]
<1>1. p.ctrl \in CtrlType
  BY DEF PSType
<1>2. f \in CtrlType /\ (f.model # None => f.model = p.ctrl.model)
  BY <1>1, CtrlFollows
<1>3. /\ Known(h2, f)
      /\ \A v : Remembers(h, p.ctrl, v) => Remembers(h2, f, v)
      /\ \A w : RemembersSub(h, p.ctrl, "prim", w) => RemembersSub(h2, f, "prim", w)
  BY KnownFollows DEF PSInv, Kind
<1> HIDE DEF f
<1>4. q \in PSType /\ q.ctrl = f /\ q.zf = p.zf /\ q.lnPk = p.lnPk
  BY <1>2 DEF PSType
<1> HIDE DEF q
<1>5. PSInv(h2, q)
  BY <1>2, <1>3, <1>4 DEF PSInv
<1>6. q \in PSType /\ PSInv(h2, q) /\ q.zf = p.zf
  BY <1>4, <1>5
<1> QED
  BY <1>6 DEF q, f

(* And of the recombination.                                               *)
LEMMA RCFollows ==
  ASSUME NEW h, NEW h2, NEW gone, HeapInv(h), HeapInv(h2), Follows(h, h2, gone),
         NEW r \in RCType, RCInv(h, r)
  PROVE  LET s == [r EXCEPT !.ctrl = Forget(@, gone)]
         IN  s \in RCType /\ RCInv(h2, s)
<1> DEFINE f == Forget(r.ctrl, gone)
           s == [r EXCEPT !.ctrl = f]
<1>1. r.ctrl \in CtrlType
  BY DEF RCType
<1>2. f \in CtrlType /\ (f.model # None => f.model = r.ctrl.model)
  BY <1>1, CtrlFollows
<1>3. /\ Known(h2, f)
      /\ \A v : Remembers(h, r.ctrl, v) => Remembers(h2, f, v)
      /\ \A w : RemembersSub(h, r.ctrl, "reion", w) => RemembersSub(h2, f, "reion", w)
  BY KnownFollows DEF RCInv, Kind
<1> HIDE DEF f
<1>4. s \in RCType /\ s.ctrl = f /\ s.Xe = r.Xe
  BY <1>2 DEF RCType
<1> HIDE DEF s
<1>5. RCInv(h2, s)
  BY <1>2, <1>3, <1>4 DEF RCInv
<1>6. s \in RCType /\ RCInv(h2, s)
  BY <1>4, <1>5
<1> QED
  BY <1>6 DEF s, f

(* And of the Boltzmann code.                                              *)
LEMMA PBFollows ==
  ASSUME NEW h, NEW h2, NEW gone, HeapInv(h), HeapInv(h2), Follows(h, h2, gone),
         NEW b \in PBType, PBInv(h, b)
  PROVE  LET d == [b EXCEPT !.ctrl = Forget(@, gone)]
         IN  d \in PBType /\ PBInv(h2, d)
<1> DEFINE f == Forget(b.ctrl, gone)
           d == [b EXCEPT !.ctrl = f]
<1>1. b.ctrl \in CtrlType
  BY DEF PBType
<1>2. f \in CtrlType /\ (f.model # None => f.model = b.ctrl.model)
  BY <1>1, CtrlFollows
<1>3. /\ Known(h2, f)
      /\ \A v : Remembers(h, b.ctrl, v) => Remembers(h2, f, v)
      /\ \A w : RemembersSub(h, b.ctrl, "prim", w) => RemembersSub(h2, f, "prim", w)
      /\ \A w : RemembersSub(h, b.ctrl, "reion", w) => RemembersSub(h2, f, "reion", w)
  BY KnownFollows DEF PBInv, Kind
<1> HIDE DEF f
<1>4. d \in PBType /\ d.ctrl = f /\ d.Cls = b.Cls /\ d.lensed = b.lensed
  BY <1>2 DEF PBType
<1> HIDE DEF d
<1>5. PBInv(h2, d)
  BY <1>2, <1>3, <1>4 DEF PBInv, CallOf
<1>6. d \in PBType /\ PBInv(h2, d)
  BY <1>4, <1>5
<1> QED
  BY <1>6 DEF d, f

(* When no model is gone, what was right stays right without forgetting.   *)
LEMMA UsersFollow ==
  ASSUME NEW h, NEW h2, HeapInv(h), HeapInv(h2), Follows(h, h2, {})
  PROVE  /\ \A x \in CBEType : CBEInv(h, x) => CBEInv(h2, x)
         /\ \A p \in PSType : PSInv(h, p) => PSInv(h2, p)
         /\ \A r \in RCType : RCInv(h, r) => RCInv(h2, r)
         /\ \A b \in PBType : PBInv(h, b) => PBInv(h2, b)
<1>1. ASSUME NEW x \in CBEType, CBEInv(h, x)  PROVE CBEInv(h2, x)
  <2>1. [x EXCEPT !.ctrl = Forget(@, {})] = x
    BY ForgetNone DEF CBEType
  <2> QED
    BY <1>1, <2>1, CBEFollows
<1>2. ASSUME NEW p \in PSType, PSInv(h, p)  PROVE PSInv(h2, p)
  <2>1. [p EXCEPT !.ctrl = Forget(@, {})] = p
    BY ForgetNone DEF PSType
  <2> QED
    BY <1>2, <2>1, PSFollows
<1>3. ASSUME NEW r \in RCType, RCInv(h, r)  PROVE RCInv(h2, r)
  <2>1. [r EXCEPT !.ctrl = Forget(@, {})] = r
    BY ForgetNone DEF RCType
  <2> QED
    BY <1>3, <2>1, RCFollows
<1>4. ASSUME NEW b \in PBType, PBInv(h, b)  PROVE PBInv(h2, b)
  <2>1. [b EXCEPT !.ctrl = Forget(@, {})] = b
    BY ForgetNone DEF PBType
  <2> QED
    BY <1>4, <2>1, PBFollows
<1> QED
  BY <1>1, <1>2, <1>3, <1>4

(* A setting that changed is computed with next time.                      *)
LEMMA ForcedInv ==
  ASSUME NEW h, NEW ctrl \in CtrlType, NEW y \in CBEType, y.ctrl = ForceUpdate(ctrl),
         y.target \/ y.transfer => y.call # None
  PROVE  CBEInv(h, y)
BY ForceFacts DEF CBEInv, Kind

(* _nc_cbe_update_callbacks chooses a function whenever there is something *)
(* to compute.                                                             *)
LEMMA UpdateCallbacksInv ==
  ASSUME NEW h, NEW x \in CBEType
  PROVE  LET y == UpdateCallbacks(x)
         IN  /\ y \in CBEType /\ CBEInv(h, y)
             /\ y.target = x.target /\ y.transfer = x.transfer /\ y.zmax = x.zmax
             /\ x.target => y.call = CallOf(x)
<1> DEFINE f == ForceUpdate(x.ctrl)
           k == IF x.target /\ x.lensed THEN "lensing"
                ELSE IF x.target \/ x.transfer THEN "spectra"
                ELSE IF x.spectra = None THEN x.call ELSE None
           z == [x EXCEPT !.ctrl = f]
           y == [z EXCEPT !.spectra = None, !.call = k]
<1>1. f \in CtrlType
  BY ForceFacts DEF CBEType
<1>2. /\ k \in Call \cup {None} /\ (x.target \/ x.transfer => k # None)
      /\ x.target => k = CallOf(x)
  <2>1. "lensing" # None /\ "spectra" # None
    BY NoneAssumption DEF Call
  <2>2. x.call \in Call \cup {None}
    BY DEF CBEType
  <2> QED
    BY <2>1, <2>2 DEF Call, CallOf
<1> HIDE DEF f, k
<1>3. z \in CBEType /\ z.ctrl = f /\ z.target = x.target /\ z.transfer = x.transfer /\ z.zmax = x.zmax
  BY <1>1 DEF CBEType
<1> HIDE DEF z
<1>4. /\ y \in CBEType /\ y.ctrl = z.ctrl /\ y.target = z.target /\ y.transfer = z.transfer
      /\ y.zmax = z.zmax /\ y.call = k
  BY <1>2, <1>3 DEF CBEType
<1>5. y = UpdateCallbacks(x)
  BY DEF UpdateCallbacks, ForcedCBE, y, z, k, f
<1> HIDE DEF y
<1>6. y.ctrl = ForceUpdate(x.ctrl) /\ x.ctrl \in CtrlType
  BY <1>3, <1>4 DEF f, CBEType
<1>7. y.target \/ y.transfer => y.call # None
  BY <1>2, <1>3, <1>4
<1>8. CBEInv(h, y)
  BY <1>4, <1>6, <1>7, ForcedInv
<1>9. /\ y \in CBEType /\ CBEInv(h, y) /\ y.target = x.target
      /\ y.transfer = x.transfer /\ y.zmax = x.zmax /\ (x.target => y.call = CallOf(x))
  BY <1>2, <1>3, <1>4, <1>8
<1> QED
  BY <1>5, <1>9

(* What a setter of the NcCBE leaves, and when it changes nothing.         *)
LEMMA SettersInv ==
  ASSUME NEW h, NEW x \in CBEType, CBEInv(h, x)
  PROVE  /\ LET y == SetCalcTransfer(x)
            IN  /\ y \in CBEType /\ CBEInv(h, y) /\ y.transfer = TRUE /\ y.zmax = x.zmax
                /\ x.transfer => y = x
         /\ LET y == SetTargetCls(x, TRUE)
            IN  /\ y \in CBEType /\ CBEInv(h, y) /\ y.target = TRUE
                /\ y.transfer = x.transfer /\ y.zmax = x.zmax
<1>1. LET y == SetCalcTransfer(x)
      IN  /\ y \in CBEType /\ CBEInv(h, y) /\ y.transfer = TRUE /\ y.zmax = x.zmax
          /\ x.transfer => y = x
  <2>1. CASE x.transfer = TRUE
    BY <2>1 DEF SetCalcTransfer
  <2>2. CASE x.transfer = FALSE
    <3> DEFINE t == [x EXCEPT !.transfer = TRUE]
               y == UpdateCallbacks(t)
    <3>1. t \in CBEType /\ t.transfer = TRUE /\ t.zmax = x.zmax
      BY DEF CBEType
    <3> HIDE DEF t
    <3>2. y \in CBEType /\ CBEInv(h, y) /\ y.transfer = TRUE /\ y.zmax = x.zmax
      BY <3>1, UpdateCallbacksInv
    <3>3. y = SetCalcTransfer(x)
      BY <2>2 DEF SetCalcTransfer, t
    <3> QED
      BY <2>2, <3>2, <3>3
  <2> QED
    BY <2>1, <2>2 DEF CBEType
<1>2. LET y == SetTargetCls(x, TRUE)
      IN  /\ y \in CBEType /\ CBEInv(h, y) /\ y.target = TRUE
          /\ y.transfer = x.transfer /\ y.zmax = x.zmax
  <2>1. CASE x.target = TRUE
    BY <2>1 DEF SetTargetCls
  <2>2. CASE x.target # TRUE
    <3> DEFINE t == [x EXCEPT !.target = TRUE]
               y == UpdateCallbacks(t)
    <3>1. t \in CBEType /\ t.target = TRUE /\ t.transfer = x.transfer /\ t.zmax = x.zmax
      BY DEF CBEType
    <3> HIDE DEF t
    <3>2. /\ y \in CBEType /\ CBEInv(h, y) /\ y.target = TRUE
          /\ y.transfer = x.transfer /\ y.zmax = x.zmax
      BY <3>1, UpdateCallbacksInv
    <3>3. y = SetTargetCls(x, TRUE)
      BY <2>2 DEF SetTargetCls, t
    <3> QED
      BY <3>2, <3>3
  <2> QED
    BY <2>1, <2>2
<1> QED
  BY <1>1, <1>2

(* The same of lensing.                                                    *)
LEMMA SetLensedInv ==
  ASSUME NEW h, NEW x \in CBEType, NEW l \in BOOLEAN
  PROVE  /\ SetLensedCls(x, l) \in CBEType /\ CBEInv(h, SetLensedCls(x, l))
         /\ SetLensedCls(x, l).target = x.target
         /\ SetLensedCls(x, l).transfer = x.transfer /\ SetLensedCls(x, l).zmax = x.zmax
         /\ x.target => SetLensedCls(x, l).call = IF l THEN "lensing" ELSE "spectra"
<1> DEFINE t == [x EXCEPT !.lensed = l]
<1>1. /\ t \in CBEType /\ t.target = x.target /\ t.transfer = x.transfer /\ t.zmax = x.zmax
      /\ CallOf(t) = IF l THEN "lensing" ELSE "spectra"
  BY DEF CBEType, CallOf
<1>2. SetLensedCls(x, l) = UpdateCallbacks(t)
  BY DEF SetLensedCls
<1> HIDE DEF t
<1> QED
  BY <1>1, <1>2, UpdateCallbacksInv

(* A control that is forced leaves what it is for.                         *)
LEMMA ForcedCBEInv ==
  ASSUME NEW h, NEW y \in CBEType, y.target \/ y.transfer => y.call # None
  PROVE  LET f == ForcedCBE(y)
         IN  /\ f \in CBEType /\ CBEInv(h, f) /\ f.target = y.target /\ f.ctrl.model = None
             /\ f.transfer = y.transfer /\ f.zmax = y.zmax /\ f.call = y.call
<1> DEFINE k == ForceUpdate(y.ctrl)
           f == [y EXCEPT !.ctrl = k]
<1>1. y.ctrl \in CtrlType /\ k \in CtrlType /\ k.model = None
  BY ForceFacts DEF CBEType
<1> HIDE DEF k
<1>2. /\ f \in CBEType /\ f.ctrl = k /\ f.target = y.target
      /\ f.transfer = y.transfer /\ f.zmax = y.zmax /\ f.call = y.call
  BY <1>1 DEF CBEType
<1>3. f = ForcedCBE(y)
  BY DEF ForcedCBE, f, k
<1> HIDE DEF f
<1>4. f.ctrl = ForceUpdate(y.ctrl)
  BY <1>2 DEF k
<1>5. f.target \/ f.transfer => f.call # None
  BY <1>2
<1>6. CBEInv(h, f)
  BY <1>1, <1>2, <1>4, <1>5, ForcedInv
<1> QED
  BY <1>1, <1>2, <1>3, <1>6

(* And of the redshift.                                                    *)
LEMMA SetMaxMatterPkZInv ==
  ASSUME NEW h, NEW x \in CBEType, CBEInv(h, x), NEW z \in Depth
  PROVE  LET y == SetMaxMatterPkZ(x, z)
         IN  /\ y \in CBEType /\ CBEInv(h, y) /\ y.transfer = x.transfer /\ y.zmax = z
             /\ x.zmax = z => y = x
<1>1. CASE x.zmax = z
  BY <1>1 DEF SetMaxMatterPkZ
<1>2. CASE x.zmax # z
  <2> DEFINE t == [x EXCEPT !.zmax = z]
  <2>1. /\ t \in CBEType /\ t.target = x.target /\ t.transfer = x.transfer
        /\ t.call = x.call /\ t.zmax = z
    BY DEF CBEType
  <2>2. SetMaxMatterPkZ(x, z) = ForcedCBE(t)
    BY <1>2 DEF SetMaxMatterPkZ
  <2> HIDE DEF t
  <2> QED
    BY <1>2, <2>1, <2>2, ForcedCBEInv DEF CBEInv
<1> QED
  BY <1>1, <1>2

(* The thermodynamics and the spectra are those of the models there are.   *)
LEMMA ComputeFacts ==
  ASSUME NEW h, HeapInv(h), NEW c \in h.held, NEW x \in CBEType
  PROVE  /\ LET y == CallThermo(h, x, c)
            IN  /\ y = [x EXCEPT !.thermo = y.thermo] /\ y.thermo \in Thermo
                /\ y.thermo # None
                /\ y.thermo.cosmo = h.val[c] /\ y.thermo.reion = h.val[h.subs[c]["reion"]]
                /\ y.thermo.foreign = (x.ctrl.model \notin {None, c})
         /\ x.call # None /\ x.thermo # None =>
              LET y == CallSpectra(h, x, c)
              IN  /\ y = [x EXCEPT !.spectra = y.spectra] /\ y.spectra \in Spectra
                  /\ y.spectra # None
                  /\ y.spectra.cosmo = x.thermo.cosmo /\ y.spectra.reion = x.thermo.reion
                  /\ y.spectra.prim = h.val[h.subs[c]["prim"]]
                  /\ y.spectra.transfer = x.transfer /\ y.spectra.zmax = x.zmax
                  /\ y.spectra.foreign = x.thermo.foreign
                  /\ y.spectra.target = x.target /\ y.spectra.by = x.call
<1>1. /\ h.val[c] \in Value /\ h.val[h.subs[c]["reion"]] \in Value
      /\ h.val[h.subs[c]["prim"]] \in Value
  <2>1. c \in Live(h)
    BY DEF Live
  <2>2. h.subs[c]["reion"] \in Live(h) /\ h.subs[c]["prim"] \in Live(h)
    BY SeenKnown DEF Kind
  <2> QED
    BY <2>1, <2>2 DEF HeapInv
<1>2. None \notin Thermo /\ None \notin Spectra
  BY NoneAssumption
<1> DEFINE t == [cosmo |-> h.val[c], reion |-> h.val[h.subs[c]["reion"]],
                 foreign |-> x.ctrl.model \notin {None, c}]
           s == [cosmo |-> x.thermo.cosmo, reion |-> x.thermo.reion,
                 foreign |-> x.thermo.foreign,
                 prim |-> h.val[h.subs[c]["prim"]], by |-> x.call,
                 target |-> x.target, transfer |-> x.transfer, zmax |-> x.zmax]
<1>3. /\ t \in Thermo /\ t.cosmo = h.val[c] /\ t.reion = h.val[h.subs[c]["reion"]]
      /\ t.foreign = (x.ctrl.model \notin {None, c})
  BY <1>1 DEF Thermo
<1>4. /\ s.cosmo = x.thermo.cosmo /\ s.reion = x.thermo.reion /\ s.prim = h.val[h.subs[c]["prim"]]
      /\ s.transfer = x.transfer /\ s.zmax = x.zmax /\ s.foreign = x.thermo.foreign
      /\ s.target = x.target /\ s.by = x.call
  OBVIOUS
<1>5. ASSUME x.call # None, x.thermo # None
      PROVE  s \in Spectra
  <2>1. x.call \in Call /\ x.thermo \in Thermo /\ x.target \in BOOLEAN /\ x.transfer \in BOOLEAN
        /\ x.zmax \in Depth \cup {None}
    BY <1>5 DEF CBEType
  <2>2. x.thermo.cosmo \in Value /\ x.thermo.reion \in Value /\ x.thermo.foreign \in BOOLEAN
    BY <2>1 DEF Thermo
  <2> QED
    BY <1>1, <2>1, <2>2 DEF Spectra
<1>6. CallThermo(h, x, c) = [x EXCEPT !.thermo = t]
  BY DEF CallThermo
<1>7. x.call # None => CallSpectra(h, x, c) = [x EXCEPT !.spectra = s]
  BY DEF CallSpectra
<1> HIDE DEF t, s
<1>8. LET y == CallThermo(h, x, c)
      IN  /\ y = [x EXCEPT !.thermo = y.thermo] /\ y.thermo \in Thermo
          /\ y.thermo # None
          /\ y.thermo.cosmo = h.val[c] /\ y.thermo.reion = h.val[h.subs[c]["reion"]]
          /\ y.thermo.foreign = (x.ctrl.model \notin {None, c})
  <2>1. [x EXCEPT !.thermo = t].thermo = t
    BY DEF CBEType
  <2> QED
    BY <1>2, <1>3, <1>6, <2>1
<1>9. ASSUME x.call # None, x.thermo # None
      PROVE  LET y == CallSpectra(h, x, c)
             IN  /\ y = [x EXCEPT !.spectra = y.spectra] /\ y.spectra \in Spectra
                 /\ y.spectra # None
                 /\ y.spectra.cosmo = x.thermo.cosmo /\ y.spectra.reion = x.thermo.reion
                 /\ y.spectra.prim = h.val[h.subs[c]["prim"]]
                 /\ y.spectra.transfer = x.transfer /\ y.spectra.zmax = x.zmax
                 /\ y.spectra.foreign = x.thermo.foreign
                 /\ y.spectra.target = x.target /\ y.spectra.by = x.call
  <2>1. [x EXCEPT !.spectra = s].spectra = s
    BY DEF CBEType
  <2> QED
    BY <1>2, <1>4, <1>5, <1>7, <1>9, <2>1
<1> QED
  BY <1>8, <1>9

(* The NcCBE n is as x would be after it prepared for a cosmology.          *)
IsPrepared(h, x, c, n) ==
  /\ n \in CBEType /\ n.ctrl = Seen(h, c) /\ n.target = x.target /\ n.transfer = x.transfer
  /\ n.zmax = x.zmax /\ n.call = x.call
  /\ n.thermo # None /\ (~ n.thermo.foreign => n.thermo.cosmo = h.val[c])
  /\ n.spectra \in Spectra /\ n.spectra # None
  /\ ~ n.spectra.foreign => n.spectra.cosmo = h.val[c]
  /\ n.spectra.prim = h.val[h.subs[c]["prim"]]
  /\ n.spectra.transfer = x.transfer /\ n.spectra.zmax = x.zmax

(* When everything was computed its spectra are those of the cosmology and *)
(* its submodels, and were computed as it was told.                        *)
IsComplete(h, x, c, s) ==
  /\ s.cosmo = h.val[c] /\ s.reion = h.val[h.subs[c]["reion"]] /\ ~ s.foreign
  /\ s.target = x.target /\ s.by = x.call

(* After nc_cbe_prepare_if_needed the spectra are those of the primordial  *)
(* model, and of the cosmology unless they are foreign.  When it was the   *)
(* cosmology that changed they are complete.                               *)
LEMMA PrepareFacts ==
  ASSUME NEW h, HeapInv(h), NEW c \in h.held, NEW x \in CBEType, CBEInv(h, x), x.call # None
  PROVE  LET y == PrepareIfNeeded(h, x, c)
         IN  /\ y \in CBEType /\ CBEInv(h, y)
             /\ y.ctrl = Seen(h, c) /\ y.transfer = x.transfer /\ y.zmax = x.zmax
             /\ y.spectra \in Spectra /\ y.spectra # None
             /\ ~ y.spectra.foreign => y.spectra.cosmo = h.val[c]
             /\ y.spectra.prim = h.val[h.subs[c]["prim"]]
             /\ y.spectra.transfer = x.transfer /\ y.spectra.zmax = x.zmax
             /\ ModelUp(h, x.ctrl, c) => IsComplete(h, x, c, y.spectra)
<1> DEFINE s == [x EXCEPT !.ctrl = Seen(h, c)]
           y == PrepareIfNeeded(h, x, c)
<1>1. x.ctrl \in CtrlType /\ h \in HeapType /\ c \in Cosmo
  BY LiveFacts DEF CBEType, HeapInv
<1>2. Update(h, x.ctrl, c) = Seen(h, c)
  BY <1>1, UpdateSees
<1>3. /\ Seen(h, c) \in CtrlType /\ Known(h, Seen(h, c))
      /\ Seen(h, c).model = c /\ Seen(h, c).key = h.key[c]
      /\ Seen(h, c).sub["prim"].model = h.subs[c]["prim"]
      /\ Seen(h, c).sub["prim"].key = h.key[h.subs[c]["prim"]]
  BY SeenKnown DEF Known, Kind
<1>4. /\ \A v : v = h.val[c] => Remembers(h, Seen(h, c), v)
      /\ \A w : w = h.val[h.subs[c]["prim"]] => RemembersSub(h, Seen(h, c), "prim", w)
  BY <1>3 DEF Remembers, RemembersSub
<1>5. /\ s \in CBEType /\ s.ctrl = Seen(h, c) /\ s.target = x.target /\ s.lensed = x.lensed
      /\ s.transfer = x.transfer /\ s.zmax = x.zmax /\ s.call = x.call
      /\ s.thermo = x.thermo /\ s.spectra = x.spectra
  BY <1>3 DEF CBEType
<1>6. y = IF ModelUp(h, x.ctrl, c) THEN Prepare(h, s, c)
          ELSE IF SubmodelUp(h, x.ctrl, c, "prim") THEN CallSpectra(h, s, c)
          ELSE s
  BY <1>2 DEF PrepareIfNeeded
<1> HIDE DEF s, y
<1>7. c # None
  BY <1>1, NoneFacts
<1>8. ASSUME NEW n \in CBEType, n.call # None, n.thermo # None, n.ctrl = Seen(h, c), n.target = x.target,
             n.transfer = x.transfer, n.zmax = x.zmax, n.call = x.call,
             ~ n.thermo.foreign => n.thermo.cosmo = h.val[c]
      PROVE  /\ IsPrepared(h, x, c, CallSpectra(h, n, c))
             /\ LET sp == CallSpectra(h, n, c).spectra
                IN  /\ sp.cosmo = n.thermo.cosmo /\ sp.reion = n.thermo.reion
                    /\ sp.foreign = n.thermo.foreign /\ sp.target = x.target /\ sp.by = x.call
  <2> DEFINE sp == CallSpectra(h, n, c).spectra
             m == [n EXCEPT !.spectra = sp]
  <2>1. /\ CallSpectra(h, n, c) = m
        /\ sp \in Spectra /\ sp # None
        /\ sp.cosmo = n.thermo.cosmo /\ sp.reion = n.thermo.reion
        /\ sp.prim = h.val[h.subs[c]["prim"]]
        /\ sp.transfer = n.transfer /\ sp.zmax = n.zmax /\ sp.foreign = n.thermo.foreign
        /\ sp.target = n.target /\ sp.by = n.call
    BY <1>8, ComputeFacts
  <2> HIDE DEF sp
  <2>2. /\ m \in CBEType /\ m.ctrl = n.ctrl /\ m.target = n.target /\ m.transfer = n.transfer
        /\ m.zmax = n.zmax /\ m.call = n.call /\ m.thermo = n.thermo /\ m.spectra = sp
    BY <2>1 DEF CBEType
  <2> HIDE DEF m
  <2>3. IsPrepared(h, x, c, m)
    BY <1>8, <2>1, <2>2 DEF IsPrepared
  <2> QED
    BY <1>8, <2>1, <2>2, <2>3
<1>9. ASSUME ModelUp(h, x.ctrl, c)
      PROVE  IsPrepared(h, x, c, y) /\ IsComplete(h, x, c, y.spectra)
  <2> DEFINE th == CallThermo(h, s, c).thermo
             n == [s EXCEPT !.thermo = th]
  <2>1. /\ CallThermo(h, s, c) = n /\ th \in Thermo /\ th # None
        /\ th.cosmo = h.val[c] /\ th.reion = h.val[h.subs[c]["reion"]]
        /\ th.foreign = (s.ctrl.model \notin {None, c})
    BY <1>5, ComputeFacts
  <2>5. ~ th.foreign
    BY <1>3, <1>5, <2>1
  <2>2. y = CallSpectra(h, n, c)
    BY <1>6, <1>9, <2>1 DEF Prepare
  <2> HIDE DEF th
  <2>3. /\ n \in CBEType /\ n.ctrl = s.ctrl /\ n.target = s.target /\ n.transfer = s.transfer
        /\ n.zmax = s.zmax /\ n.call = s.call /\ n.thermo = th
    BY <1>5, <2>1 DEF CBEType
  <2> HIDE DEF n
  <2>4. /\ IsPrepared(h, x, c, y)
        /\ y.spectra.cosmo = n.thermo.cosmo /\ y.spectra.reion = n.thermo.reion
        /\ y.spectra.foreign = n.thermo.foreign
        /\ y.spectra.target = x.target /\ y.spectra.by = x.call
    BY <1>5, <1>8, <2>1, <2>2, <2>3
  <2> QED
    BY <2>1, <2>5, <2>3, <2>4 DEF IsComplete
<1>10. ASSUME ~ ModelUp(h, x.ctrl, c)
       PROVE  IsPrepared(h, x, c, y)
  <2>1. /\ x.ctrl.model = c /\ x.ctrl.key = h.key[c]
        /\ ~ SubmodelUp(h, x.ctrl, c, "prim") =>
             x.ctrl.sub["prim"].model = h.subs[c]["prim"]
             /\ x.ctrl.sub["prim"].key = h.key[h.subs[c]["prim"]]
    BY <1>1, <1>10, NotUp DEF Kind
  <2>2. x.thermo # None /\ (~ x.thermo.foreign => x.thermo.cosmo = h.val[c])
    BY <1>7, <2>1 DEF CBEInv, Remembers
  <2>3. CASE SubmodelUp(h, x.ctrl, c, "prim")
    <3>1. y = CallSpectra(h, s, c)
      BY <1>6, <1>10, <2>3
    <3>2. IsPrepared(h, x, c, y)
      BY <1>5, <1>8, <2>2, <3>1
    <3> QED
      BY <1>10, <3>2
  <2>4. CASE ~ SubmodelUp(h, x.ctrl, c, "prim")
    <3>1. y = s
      BY <1>6, <1>10, <2>4
    <3>2. /\ x.spectra # None /\ x.spectra.transfer = x.transfer /\ x.spectra.zmax = x.zmax
          /\ ~ x.spectra.foreign => x.spectra.cosmo = h.val[c]
      BY <1>7, <2>1 DEF CBEInv, Remembers
    <3>3. x.spectra.prim = h.val[h.subs[c]["prim"]]
      <4>1. h.subs[c]["prim"] # None
        BY NoneFacts DEF HeapInv, Kind
      <4> QED
        BY <1>7, <2>1, <2>4, <4>1 DEF CBEInv, RemembersSub
    <3>4. x.spectra \in Spectra
      BY <3>2 DEF CBEType
    <3>5. IsPrepared(h, x, c, y)
      BY <1>5, <2>2, <3>1, <3>2, <3>3, <3>4 DEF IsPrepared
    <3> QED
      BY <1>10, <3>5
  <2> QED
    BY <2>3, <2>4
<1>11. IsPrepared(h, x, c, y) /\ (ModelUp(h, x.ctrl, c) => IsComplete(h, x, c, y.spectra))
  BY <1>9, <1>10
<1>12. CBEInv(h, y)
  BY <1>3, <1>4, <1>11 DEF CBEInv, IsPrepared
<1> QED
  BY <1>11, <1>12 DEF y, IsPrepared

-----------------------------------------------------------------------------
(* Steps                                                                   *)

(* The types of the parts.                                                 *)
LEMMA TypeParts ==
  TypeOK <=> /\ heap \in HeapType /\ cbe \in CBEType /\ ps \in PSType /\ rc \in RCType
             /\ pb \in PBType
             /\ answer \in Answer \cup {None} /\ again \in Nat /\ changes \in Nat
BY DEF TypeOK, PSType, RCType, PBType

(* What is true of the result of each call.                                *)
AnswerOK(h, p, r, b, a) ==
  /\ a.by = "ps" => /\ p.lnPk # None /\ (~ p.lnPk.foreign => p.lnPk.cosmo = h.val[a.of])
                    /\ p.lnPk.prim = h.val[h.subs[a.of]["prim"]]
                    /\ p.lnPk.transfer /\ p.lnPk.zmax = p.zf
  /\ a.by = "rc" => /\ r.Xe # None /\ r.Xe.cosmo = h.val[a.of]
                    /\ r.Xe.reion = h.val[h.subs[a.of]["reion"]]
  /\ a.by = "cls" => /\ b.Cls # None /\ b.Cls.cosmo = h.val[a.of]
                     /\ b.Cls.prim = h.val[h.subs[a.of]["prim"]]
                     /\ b.Cls.reion = h.val[h.subs[a.of]["reion"]]
                     /\ b.Cls.target /\ b.Cls.by = CallOf(b)

(* That is what Answers says.                                              *)
LEMMA AnswersParts ==
  ASSUME answer \in Answer \cup {None}
  PROVE  Answers <=> (answer # None => AnswerOK(heap, ps, rc, pb, answer))
<1>1. CASE answer = None
  BY <1>1 DEF Answers
<1>2. CASE answer # None
  <2>1. answer.by \in {"ps", "rc", "cls"}
    BY <1>2 DEF Answer
  <2>2. CASE answer.by = "ps"
    BY <1>2, <2>2 DEF Answers, AnswerOK, CallOf
  <2>3. CASE answer.by = "rc"
    BY <1>2, <2>3 DEF Answers, AnswerOK, CallOf
  <2>4. CASE answer.by = "cls"
    BY <1>2, <2>4 DEF Answers, AnswerOK, CallOf
  <2> QED
    BY <2>1, <2>2, <2>3, <2>4
<1> QED
  BY <1>1, <1>2

(* At the start nobody knows anything.                                     *)
LEMMA InitInv == Init => IInv
<1> SUFFICES ASSUME Init  PROVE IInv
  OBVIOUS
<1>1. NewCtrl \in CtrlType /\ NewCtrl.model = None /\ \A i \in Kind : NewCtrl.sub[i].model = None
  BY DEF NewCtrl, NoSubCtrl, CtrlType, SubCtrlType
<1>2. HeapInv(heap)
  <2>1. heap \in HeapType /\ heap.held = {} /\ heap.subs = [c \in Cosmo |-> NoSubs]
    BY DEF Init, NoModels, HeapType, NoSubs
  <2> QED
    BY <2>1 DEF HeapInv, Live
<1> DEFINE k == NewCtrl
<1> HIDE DEF k
<1>3. /\ cbe \in CBEType /\ cbe.ctrl = NewCtrl /\ cbe.call = None /\ cbe.target = FALSE
      /\ cbe.transfer = FALSE
  BY <1>1 DEF Init, NewCBE, CBEType
<1>4. ps \in PSType /\ ps.ctrl = NewCtrl
  BY <1>1 DEF Init, PSType
<1>5. rc \in RCType /\ rc.ctrl = NewCtrl
  BY <1>1 DEF Init, RCType
<1>13. pb \in PBType /\ pb.ctrl = NewCtrl
  BY <1>1 DEF Init, PBType
<1>6. Known(heap, NewCtrl)
  BY <1>1 DEF Known
<1>7. CBEInv(heap, cbe)
  BY <1>1, <1>3, <1>6 DEF CBEInv, Remembers
<1>8. PSInv(heap, ps)
  BY <1>1, <1>4, <1>6 DEF PSInv, Remembers, RemembersSub
<1>9. RCInv(heap, rc)
  BY <1>1, <1>5, <1>6 DEF RCInv, Remembers, RemembersSub
<1>14. PBInv(heap, pb)
  BY <1>1, <1>13, <1>6 DEF PBInv, Remembers, RemembersSub
<1>10. answer = None /\ again = 0 /\ changes = 0
  BY DEF Init
<1>11. TypeOK
  BY <1>2, <1>3, <1>4, <1>5, <1>13, <1>10, TypeParts DEF HeapInv
<1>12. AnswerHeld /\ RunInv /\ Answers
  BY <1>10 DEF AnswerHeld, RunInv, Answers
<1> QED
  BY <1>2, <1>7, <1>8, <1>9, <1>14, <1>11, <1>12 DEF IInv

(* A change of the program's is right when what it leaves in each part is. *)
LEMMA ChangeInv ==
  ASSUME IInv, Change, HeapInv(heap'),
         cbe' \in CBEType, CBEInv(heap', cbe'), ps' \in PSType, PSInv(heap', ps'),
         rc' \in RCType, RCInv(heap', rc'), pb' \in PBType, PBInv(heap', pb')
  PROVE  IInv'
<1>1. answer' = None /\ again' = 0 /\ changes' \in Nat
  BY TypeParts DEF IInv, Change
<1>2. TypeOK'
  <2>1. heap' \in HeapType
    BY DEF HeapInv
  <2>2. TypeOK' <=> /\ heap' \in HeapType /\ cbe' \in CBEType /\ ps' \in PSType /\ rc' \in RCType
                    /\ pb' \in PBType
                    /\ answer' \in Answer \cup {None} /\ again' \in Nat /\ changes' \in Nat
    BY DEF TypeOK, PSType, RCType, PBType
  <2> QED
    BY <1>1, <2>1, <2>2
<1>3. AnswerHeld' /\ RunInv' /\ Answers'
  BY <1>1 DEF AnswerHeld, RunInv, Answers
<1> QED
  BY <1>2, <1>3 DEF IInv

(* A change that frees nothing needs no control to forget.                 *)
LEMMA ChangeFollows ==
  ASSUME IInv, Change, HeapInv(heap'), Follows(heap, heap', {}), UNCHANGED <<cbe, ps, rc, pb>>
  PROVE  IInv'
<1>1. cbe \in CBEType /\ ps \in PSType /\ rc \in RCType /\ pb \in PBType
  BY TypeParts DEF IInv
<1>2. CBEInv(heap', cbe) /\ PSInv(heap', ps) /\ RCInv(heap', rc) /\ PBInv(heap', pb)
  BY <1>1, UsersFollow DEF IInv
<1>3. cbe' = cbe /\ ps' = ps /\ rc' = rc /\ pb' = pb
  OBVIOUS
<1> QED
  BY <1>1, <1>2, <1>3, ChangeInv

(* A new cosmology.                                                        *)
LEMMA NewInv == IInv /\ New => IInv'
<1> SUFFICES ASSUME IInv, New  PROVE IInv'
  OBVIOUS
<1>1. PICK c \in Cosmo \ heap.held, v \in Value :
        \E m1 \in Submodel([NewModel(heap, c, v) EXCEPT !.held = @ \cup {c}], c, "prim") :
          heap' \in Submodel(m1, c, "reion")
  BY DEF New
<1>2. [NewModel(heap, c, v) EXCEPT !.held = @ \cup {c}]
        = [NewModel(heap, c, v) EXCEPT !.held = heap.held \cup {c}]
  BY DEF NewModel, IInv, HeapInv, HeapType
<1>3. HeapInv(heap') /\ Follows(heap, heap', {})
  <2>1. HeapInv(heap)
    BY DEF IInv
  <2> DEFINE m == [NewModel(heap, c, v) EXCEPT !.held = heap.held \cup {c}]
  <2>2. PICK m1 \in Submodel(m, c, "prim") : heap' \in Submodel(m1, c, "reion")
    BY <1>1, <1>2
  <2>3. m = [NewModel(heap, c, v) EXCEPT !.held = heap.held \cup {c}]
    OBVIOUS
  <2> HIDE DEF m
  <2> QED
    BY <2>1, <2>2, <2>3, NewFollows
<1> QED
  BY <1>3, ChangeFollows DEF New

(* A parameter of a model that is live.                                    *)
LEMMA SetInv == IInv /\ Set => IInv'
<1> SUFFICES ASSUME IInv, Set  PROVE IInv'
  OBVIOUS
<1>1. HeapInv(heap') /\ Follows(heap, heap', {})
  BY SetFollows DEF IInv, Set
<1> QED
  BY <1>1, ChangeFollows DEF Set

(* Models that are gone are forgotten by the four controls.                *)
LEMMA BecomeInv ==
  ASSUME IInv, Change, NEW h, Become(h),
         HeapInv(Without(h, Live(heap) \ Live(h))),
         Follows(heap, Without(h, Live(heap) \ Live(h)), Live(heap) \ Live(h))
  PROVE  IInv'
<1> DEFINE dead == Live(heap) \ Live(h)
<1>1. /\ heap' = Without(h, dead)
      /\ cbe' = [cbe EXCEPT !.ctrl = Forget(@, dead)]
      /\ ps' = [ps EXCEPT !.ctrl = Forget(@, dead)]
      /\ rc' = [rc EXCEPT !.ctrl = Forget(@, dead)]
      /\ pb' = [pb EXCEPT !.ctrl = Forget(@, dead)]
  BY DEF Become
<1>2. HeapInv(heap') /\ Follows(heap, heap', dead)
  BY <1>1
<1> HIDE DEF dead
<1>3. /\ HeapInv(heap) /\ cbe \in CBEType /\ ps \in PSType /\ rc \in RCType
      /\ CBEInv(heap, cbe) /\ PSInv(heap, ps) /\ RCInv(heap, rc)
      /\ pb \in PBType /\ PBInv(heap, pb)
  BY TypeParts DEF IInv
<1>4. cbe' \in CBEType /\ CBEInv(heap', cbe')
  BY <1>1, <1>2, <1>3, CBEFollows
<1>5. ps' \in PSType /\ PSInv(heap', ps')
  BY <1>1, <1>2, <1>3, PSFollows
<1>6. rc' \in RCType /\ RCInv(heap', rc')
  BY <1>1, <1>2, <1>3, RCFollows
<1>7. pb' \in PBType /\ PBInv(heap', pb')
  BY <1>1, <1>2, <1>3, PBFollows
<1> QED
  BY <1>2, <1>4, <1>5, <1>6, <1>7, ChangeInv

(* A submodel put in the place of another.                                 *)
LEMMA ExchangeInv == IInv /\ Exchange => IInv'
<1> SUFFICES ASSUME IInv, Exchange  PROVE IInv'
  OBVIOUS
<1>1. PICK c \in heap.held, i \in Kind : \E h \in Submodel(heap, c, i) : Become(h)
  BY DEF Exchange
<1> PICK h \in Submodel(heap, c, i) : Become(h)
  BY <1>1
<1>2. /\ HeapInv(Without(h, Live(heap) \ Live(h)))
      /\ Follows(heap, Without(h, Live(heap) \ Live(h)), Live(heap) \ Live(h))
  BY ExchangeFollows DEF IInv
<1> QED
  BY <1>1, <1>2, BecomeInv DEF Exchange

(* A cosmology released.                                                   *)
LEMMA ReleaseInv == IInv /\ Release => IInv'
<1> SUFFICES ASSUME IInv, Release  PROVE IInv'
  OBVIOUS
<1>1. PICK c \in heap.held : Become([heap EXCEPT !.held = @ \ {c}])
  BY DEF Release
<1> DEFINE h == [heap EXCEPT !.held = heap.held \ {c}]
<1>2. /\ HeapInv(Without(h, Live(heap) \ Live(h)))
      /\ Follows(heap, Without(h, Live(heap) \ Live(h)), Live(heap) \ Live(h))
  BY ReleaseFollows DEF IInv
<1>3. Become(h)
  BY <1>1
<1> HIDE DEF h
<1> QED
  BY <1>2, <1>3, BecomeInv DEF Release

(* The redshift up to which the power spectrum is wanted.                  *)
LEMMA SetZfInv == IInv /\ SetZf => IInv'
<1> SUFFICES ASSUME IInv, SetZf  PROVE IInv'
  OBVIOUS
<1>1. PICK z \in Depth : ps' = [ps EXCEPT !.zf = z, !.ctrl = ForceUpdate(@)]
  BY DEF SetZf
<1>2. ps \in PSType /\ ps.ctrl \in CtrlType
  BY TypeParts DEF IInv, PSType
<1> DEFINE f == ForceUpdate(ps.ctrl)
<1>3. f \in CtrlType
  BY <1>2, ForceFacts
<1>4. ps' = [ps EXCEPT !.zf = z, !.ctrl = f]
  BY <1>1
<1> HIDE DEF f
<1>5. ps' \in PSType /\ ps'.ctrl = f
  BY <1>2, <1>3, <1>4 DEF PSType
<1>6. PSInv(heap, ps')
  <2>1. /\ Known(heap, f) /\ f.model = None
        /\ \A v : Remembers(heap, f, v)
        /\ \A w : RemembersSub(heap, f, "prim", w)
    BY <1>2, ForceFacts DEF f, Kind
  <2> QED
    BY <1>5, <2>1 DEF PSInv
<1>7. heap' = heap /\ cbe' = cbe /\ rc' = rc /\ pb' = pb
  BY DEF SetZf
<1>8. /\ HeapInv(heap) /\ CBEInv(heap, cbe) /\ RCInv(heap, rc) /\ PBInv(heap, pb)
      /\ cbe \in CBEType /\ rc \in RCType /\ pb \in PBType
  BY TypeParts DEF IInv
<1> QED
  BY <1>5, <1>6, <1>7, <1>8, ChangeInv DEF SetZf

(* Whether the Cls are wanted lensed.                                      *)
LEMMA SetLensedPBInv == IInv /\ SetLensed => IInv'
<1> SUFFICES ASSUME IInv, SetLensed  PROVE IInv'
  OBVIOUS
<1>1. PICK l \in BOOLEAN : pb' = [pb EXCEPT !.lensed = l, !.ctrl = ForceUpdate(@)]
  BY DEF SetLensed
<1>2. pb \in PBType /\ pb.ctrl \in CtrlType
  BY TypeParts DEF IInv, PBType
<1> DEFINE f == ForceUpdate(pb.ctrl)
<1>3. f \in CtrlType
  BY <1>2, ForceFacts
<1>4. pb' = [pb EXCEPT !.lensed = l, !.ctrl = f]
  BY <1>1
<1> HIDE DEF f
<1>5. pb' \in PBType /\ pb'.ctrl = f
  BY <1>2, <1>3, <1>4 DEF PBType
<1>6. PBInv(heap, pb')
  <2>1. /\ Known(heap, f) /\ f.model = None
        /\ \A v : Remembers(heap, f, v)
        /\ \A w : RemembersSub(heap, f, "prim", w) /\ RemembersSub(heap, f, "reion", w)
    BY <1>2, ForceFacts DEF f, Kind
  <2> QED
    BY <1>5, <2>1 DEF PBInv
<1>7. heap' = heap /\ cbe' = cbe /\ rc' = rc /\ ps' = ps
  BY DEF SetLensed
<1>8. /\ HeapInv(heap) /\ CBEInv(heap, cbe) /\ RCInv(heap, rc) /\ PSInv(heap, ps)
      /\ cbe \in CBEType /\ rc \in RCType /\ ps \in PSType
  BY TypeParts DEF IInv
<1> QED
  BY <1>5, <1>6, <1>7, <1>8, ChangeInv DEF SetLensed

(* Some other object reads the fraction of helium: what was answered stays *)
(* right, and a cosmology whose helium is known does not change.           *)
LEMMA HeliumInv == IInv /\ Helium => IInv'
<1> SUFFICES ASSUME IInv, Helium  PROVE IInv'
  OBVIOUS
<1>1. PICK c \in heap.held : heap' = ReadYp(heap, c)
  BY DEF Helium
<1>2. cbe' = cbe /\ ps' = ps /\ rc' = rc /\ pb' = pb /\ answer' = answer /\ again' = again /\ changes' = changes
  BY DEF Helium
<1>3. /\ HeapInv(heap) /\ cbe \in CBEType /\ ps \in PSType /\ rc \in RCType
      /\ CBEInv(heap, cbe) /\ PSInv(heap, ps) /\ RCInv(heap, rc)
      /\ pb \in PBType /\ PBInv(heap, pb)
      /\ answer \in Answer \cup {None} /\ again \in Nat /\ changes \in Nat
  BY TypeParts DEF IInv
<1>4. /\ HeapInv(heap') /\ Follows(heap, heap', {})
      /\ heap'.held = heap.held /\ heap'.val = heap.val /\ heap'.subs = heap.subs
      /\ \A d \in heap.held : heap.key[d] = heap.ypKey[d] =>
           heap'.key[d] = heap.key[d] /\ heap'.ypKey[d] = heap.ypKey[d]
  BY <1>1, <1>3, ReadYpFollows
<1>5. CBEInv(heap', cbe') /\ PSInv(heap', ps') /\ RCInv(heap', rc') /\ PBInv(heap', pb')
  BY <1>2, <1>3, <1>4, UsersFollow
<1>6. TypeOK'
  <2>1. heap' \in HeapType
    BY <1>4 DEF HeapInv
  <2>2. TypeOK' <=> /\ heap' \in HeapType /\ cbe' \in CBEType /\ ps' \in PSType /\ rc' \in RCType
                    /\ pb' \in PBType
                    /\ answer' \in Answer \cup {None} /\ again' \in Nat /\ changes' \in Nat
    BY DEF TypeOK, PSType, RCType, PBType
  <2> QED
    BY <1>2, <1>3, <2>1, <2>2
<1>7. AnswerHeld'
  BY <1>2, <1>4 DEF IInv, AnswerHeld
<1>8. RunInv'
  BY <1>2, <1>3, <1>4 DEF IInv, RunInv, AnswerHeld, ModelUp
<1>9. Answers'
  BY <1>2, <1>4 DEF IInv, Answers
<1> QED
  BY <1>2, <1>3, <1>4, <1>5, <1>6, <1>7, <1>8, <1>9 DEF IInv

(* A call is right when what it leaves in each part is, and its answer.    *)
LEMMA CallInv ==
  ASSUME IInv, NEW c \in heap.held, NEW b \in {"ps", "rc", "cls"},
         HeapInv(heap'), heap'.held = heap.held,
         cbe' \in CBEType, CBEInv(heap', cbe'), ps' \in PSType, PSInv(heap', ps'),
         rc' \in RCType, RCInv(heap', rc'), pb' \in PBType, PBInv(heap', pb'),
         answer' = [by |-> b, of |-> c], again' \in Nat, changes' = changes,
         AnswerOK(heap', ps', rc', pb', answer'), RunInv'
  PROVE  IInv'
<1>1. c \in Cosmo /\ changes \in Nat
  BY TypeParts DEF IInv, HeapInv, HeapType
<1>2. answer' \in Answer /\ answer'.of = c
  BY <1>1 DEF Answer
<1>3. TypeOK'
  <2>1. heap' \in HeapType
    BY DEF HeapInv
  <2>2. TypeOK' <=> /\ heap' \in HeapType /\ cbe' \in CBEType /\ ps' \in PSType /\ rc' \in RCType
                    /\ pb' \in PBType
                    /\ answer' \in Answer \cup {None} /\ again' \in Nat /\ changes' \in Nat
    BY DEF TypeOK, PSType, RCType, PBType
  <2> QED
    BY <1>1, <1>2, <2>1, <2>2
<1>4. AnswerHeld'
  BY <1>2 DEF AnswerHeld
<1>5. Answers'
  <2>1. answer'.by = b
    OBVIOUS
  <2>2. CASE b = "ps"
    BY <1>2, <2>1, <2>2 DEF Answers, AnswerOK, CallOf
  <2>3. CASE b = "rc"
    BY <1>2, <2>1, <2>3 DEF Answers, AnswerOK, CallOf
  <2>4. CASE b = "cls"
    BY <1>2, <2>1, <2>4 DEF Answers, AnswerOK, CallOf
  <2> QED
    BY <2>2, <2>3, <2>4
<1> QED
  BY <1>3, <1>4, <1>5 DEF IInv

(* What a call does to the cosmology is at most to make its helium known.  *)
LEMMA AfterPrepareFacts ==
  ASSUME NEW h, HeapInv(h), NEW c \in h.held, NEW x
  PROVE  LET g == AfterPrepare(h, x, c)
         IN  /\ HeapInv(g) /\ Follows(h, g, {})
             /\ g.held = h.held /\ g.val = h.val /\ g.subs = h.subs
             /\ ModelUp(h, x.ctrl, c) => g.key[c] = g.ypKey[c]
             /\ h.key[c] = h.ypKey[c] => g.key[c] = h.key[c] /\ g.ypKey[c] = h.ypKey[c]
             /\ ~ ModelUp(h, x.ctrl, c) => g = h
<1>1. CASE ModelUp(h, x.ctrl, c)
  <2>1. AfterPrepare(h, x, c) = ReadYp(h, c)
    BY <1>1 DEF AfterPrepare
  <2> QED
    BY <1>1, <2>1, ReadYpFollows
<1>2. CASE ~ ModelUp(h, x.ctrl, c)
  <2>1. AfterPrepare(h, x, c) = h
    BY <1>2 DEF AfterPrepare
  <2>2. Follows(h, h, {})
    BY DEF Follows
  <2> QED
    BY <1>2, <2>1, <2>2
<1> QED
  BY <1>1, <1>2

(* None is no answer.                                                      *)
LEMMA AnswerIsNotNone ==
  ASSUME NEW b \in {"ps", "rc", "cls"}, NEW c \in Cosmo
  PROVE  [by |-> b, of |-> c] # None
<1>1. [by |-> b, of |-> c] \in Answer
  BY DEF Answer
<1> QED
  BY <1>1, NoneAssumption

(* What RunInv says of the calls made for a cosmology.                     *)
LEMMA RunsFacts ==
  ASSUME IInv, NEW c \in Cosmo
  PROVE  /\ RunsFor(c) \in Nat /\ RunsFor(c) <= 2
         /\ RunsFor(c) > 0 => heap.key[c] = heap.ypKey[c] /\ cbe.transfer /\ cbe.zmax = ps.zf
         /\ RunsFor(c) > 1 => ~ ModelUp(heap, cbe.ctrl, c)
BY TypeParts DEF RunsFor, IInv, RunInv

(* The Boltzmann code, which computes everything whenever it finds a       *)
(* change.                                                                 *)
LEMMA BoltzmannInv ==
  ASSUME IInv, NEW c \in Cosmo, Boltzmann(c)
  PROVE  IInv'
<1>1. /\ HeapInv(heap) /\ cbe \in CBEType /\ ps \in PSType /\ rc \in RCType
      /\ CBEInv(heap, cbe) /\ PSInv(heap, ps) /\ RCInv(heap, rc)
      /\ pb \in PBType /\ PBInv(heap, pb)
  BY TypeParts DEF IInv
<1>2. /\ c \in heap.held /\ answer' = [by |-> "cls", of |-> c] /\ again' = RunsFor(c)
      /\ ps' = ps /\ rc' = rc /\ changes' = changes
  BY DEF Boltzmann
<1>3. answer'.of = c /\ answer'.by = "cls" /\ answer' # None
  BY <1>2, AnswerIsNotNone
<1>4. /\ again' \in Nat /\ again' <= 2
      /\ again' > 0 => heap.key[c] = heap.ypKey[c] /\ cbe.transfer /\ cbe.zmax = ps.zf
      /\ again' > 1 => ~ ModelUp(heap, cbe.ctrl, c)
  BY <1>2, RunsFacts
<1>5. CASE Up(heap, pb.ctrl, c)
  <2> DEFINE x1 == SetTargetCls(cbe, TRUE)
             x2 == SetLensedCls(x1, pb.lensed)
             x == ForcedCBE(x2)
  <2>1. /\ cbe' = PrepareIfNeeded(heap, x, c) /\ heap' = AfterPrepare(heap, x, c)
        /\ pb' = [pb EXCEPT !.ctrl = Update(heap, @, c), !.Cls = cbe'.spectra]
    BY <1>5 DEF Boltzmann
  <2>2. /\ x1 \in CBEType /\ CBEInv(heap, x1) /\ x1.target = TRUE
        /\ x1.transfer = cbe.transfer /\ x1.zmax = cbe.zmax
    BY <1>1, SettersInv
  <2> HIDE DEF x1
  <2>3. pb.lensed \in BOOLEAN
    BY <1>1 DEF PBType
  <2>4. /\ x2 \in CBEType /\ CBEInv(heap, x2) /\ x2.target = TRUE
        /\ x2.transfer = cbe.transfer /\ x2.zmax = cbe.zmax
        /\ x2.call = CallOf(pb)
    BY <2>2, <2>3, SetLensedInv DEF CallOf
  <2> HIDE DEF x2
  <2>5. /\ x \in CBEType /\ CBEInv(heap, x) /\ x.target = TRUE /\ x.ctrl.model = None
        /\ x.transfer = cbe.transfer /\ x.zmax = cbe.zmax /\ x.call = CallOf(pb)
    BY <2>4, ForcedCBEInv DEF CBEInv
  <2> HIDE DEF x
  <2>6. x.call # None
    BY <2>5 DEF CBEInv
  <2>7. ModelUp(heap, x.ctrl, c)
    BY <2>5, NoneFacts DEF ModelUp
  <2>8. /\ cbe' \in CBEType /\ CBEInv(heap, cbe') /\ cbe'.ctrl = Seen(heap, c)
        /\ cbe'.transfer = cbe.transfer /\ cbe'.zmax = cbe.zmax
        /\ cbe'.spectra \in Spectra /\ cbe'.spectra # None
        /\ cbe'.spectra.prim = heap.val[heap.subs[c]["prim"]]
        /\ IsComplete(heap, x, c, cbe'.spectra)
    BY <1>1, <1>2, <2>1, <2>5, <2>6, <2>7, PrepareFacts
  <2>9. /\ cbe'.spectra.cosmo = heap.val[c]
        /\ cbe'.spectra.reion = heap.val[heap.subs[c]["reion"]]
        /\ cbe'.spectra.target /\ cbe'.spectra.by = CallOf(pb)
    BY <2>5, <2>8 DEF IsComplete
  <2>10. /\ HeapInv(heap') /\ Follows(heap, heap', {})
         /\ heap'.held = heap.held /\ heap'.val = heap.val /\ heap'.subs = heap.subs
         /\ heap.key[c] = heap.ypKey[c] => heap'.key[c] = heap.key[c] /\ heap'.ypKey[c] = heap.ypKey[c]
    <3> DEFINE g == AfterPrepare(heap, x, c)
    <3>1. HeapInv(heap) /\ c \in heap.held /\ heap' = g
      BY <1>1, <1>2, <2>1
    <3>2. /\ HeapInv(g) /\ Follows(heap, g, {})
          /\ g.held = heap.held /\ g.val = heap.val /\ g.subs = heap.subs
          /\ ModelUp(heap, x.ctrl, c) => g.key[c] = g.ypKey[c]
          /\ heap.key[c] = heap.ypKey[c] => g.key[c] = heap.key[c] /\ g.ypKey[c] = heap.ypKey[c]
          /\ ~ ModelUp(heap, x.ctrl, c) => g = heap
      BY <3>1, AfterPrepareFacts
    <3> HIDE DEF g
    <3> QED
      BY <3>1, <3>2
  <2>11. /\ Seen(heap, c) \in CtrlType /\ Known(heap, Seen(heap, c))
         /\ Seen(heap, c).model = c /\ Seen(heap, c).key = heap.key[c]
         /\ Seen(heap, c).sub["prim"].model = heap.subs[c]["prim"]
         /\ Seen(heap, c).sub["reion"].model = heap.subs[c]["reion"]
    BY <1>1, <1>2, SeenKnown DEF Known, Kind
  <2>12. pb' \in PBType /\ pb'.ctrl = Seen(heap, c) /\ pb'.Cls = cbe'.spectra /\ pb'.lensed = pb.lensed
    <3>1. Update(heap, pb.ctrl, c) = Seen(heap, c)
      BY <1>1, UpdateSees DEF PBType, HeapInv
    <3> DEFINE k == Seen(heap, c)
               sp == cbe'.spectra
    <3>2. pb' = [pb EXCEPT !.ctrl = k, !.Cls = sp]
      BY <2>1, <3>1
    <3>3. k \in CtrlType /\ sp \in Spectra
      BY <2>8, <2>11
    <3> HIDE DEF k, sp
    <3>4. pb' \in PBType /\ pb'.ctrl = k /\ pb'.Cls = sp /\ pb'.lensed = pb.lensed
      BY <1>1, <3>2, <3>3 DEF PBType
    <3> QED
      BY <3>4 DEF k, sp
  <2>13. CallOf(pb') = CallOf(pb)
    BY <2>12 DEF CallOf
  <2>14. PBInv(heap, pb')
    BY <2>8, <2>9, <2>11, <2>12, <2>13 DEF PBInv, Remembers, RemembersSub
  <2>15. CBEInv(heap', cbe') /\ PSInv(heap', ps') /\ RCInv(heap', rc') /\ PBInv(heap', pb')
    BY <1>1, <1>2, <2>8, <2>10, <2>12, <2>14, UsersFollow
  <2>16. AnswerOK(heap', ps', rc', pb', answer')
    BY <1>3, <2>8, <2>9, <2>10, <2>12, <2>13 DEF AnswerOK
  <2>17. again' > 1 => ~ ModelUp(heap', cbe'.ctrl, c)
    BY <1>4, <2>8, <2>10, <2>11 DEF ModelUp
  <2>18. RunInv'
    BY <1>2, <1>3, <1>4, <2>8, <2>10, <2>17 DEF RunInv
  <2> QED
    BY <1>1, <1>2, <1>4, <2>8, <2>10, <2>12, <2>15, <2>16, <2>18, CallInv
<1>6. CASE ~ Up(heap, pb.ctrl, c)
  <2>1. cbe' = cbe /\ heap' = heap /\ pb' = pb
    BY <1>6 DEF Boltzmann
  <2>2. pb.ctrl \in CtrlType /\ ~ ModelUp(heap, pb.ctrl, c) /\ \A i \in Kind : ~ SubmodelUp(heap, pb.ctrl, c, i)
    BY <1>1, <1>6 DEF PBType, Up
  <2>3. /\ pb.ctrl.model = c /\ pb.ctrl.key = heap.key[c]
        /\ \A i \in Kind : /\ pb.ctrl.sub[i].model = heap.subs[c][i]
                           /\ pb.ctrl.sub[i].key = heap.key[heap.subs[c][i]]
    BY <1>1, <1>2, <2>2, NotUp
  <2>4. c # None /\ \A i \in Kind : heap.subs[c][i] # None
    BY <1>1, <1>2, NoneFacts DEF HeapInv
  <2>5. /\ pb.Cls # None /\ pb.Cls.cosmo = heap.val[c] /\ pb.Cls.target /\ pb.Cls.by = CallOf(pb)
        /\ pb.Cls.prim = heap.val[heap.subs[c]["prim"]]
        /\ pb.Cls.reion = heap.val[heap.subs[c]["reion"]]
    BY <1>1, <2>3, <2>4 DEF PBInv, Remembers, RemembersSub, Kind
  <2>6. AnswerOK(heap', ps', rc', pb', answer')
    BY <1>3, <2>1, <2>5 DEF AnswerOK, CallOf
  <2>7. RunInv'
    BY <1>2, <1>3, <1>4, <2>1 DEF RunInv
  <2> QED
    BY <1>1, <1>2, <1>4, <2>1, <2>6, <2>7, CallInv
<1> QED
  BY <1>5, <1>6

(* The recombination, and the NcCBE of which it asks the thermodynamics.   *)
LEMMA RecombInv ==
  ASSUME IInv, NEW c \in Cosmo, Recomb(c)
  PROVE  IInv'
<1>1. /\ HeapInv(heap) /\ cbe \in CBEType /\ ps \in PSType /\ rc \in RCType
      /\ CBEInv(heap, cbe) /\ PSInv(heap, ps) /\ RCInv(heap, rc)
      /\ pb \in PBType /\ PBInv(heap, pb)
  BY TypeParts DEF IInv
<1>2. c \in heap.held
      /\ answer' = [by |-> "rc", of |-> c] /\ again' = RunsFor(c)
      /\ ps' = ps /\ pb' = pb /\ changes' = changes
  BY DEF Recomb
<1>3. again' \in Nat /\ answer'.of = c /\ answer'.by = "rc" /\ answer' # None
  BY <1>2, AnswerIsNotNone, RunsFacts
<1>4. /\ again' <= 2
      /\ again' > 0 => heap.key[c] = heap.ypKey[c] /\ cbe.transfer /\ cbe.zmax = ps.zf
      /\ again' > 1 => ~ ModelUp(heap, cbe.ctrl, c)
  BY <1>2, RunsFacts
<1>5. CASE Up(heap, rc.ctrl, c)
  <2> DEFINE th == CallThermo(heap, cbe, c).thermo
  <2>1. /\ cbe' = CallThermo(heap, cbe, c) /\ heap' = ReadYp(heap, c)
        /\ rc' = [ctrl |-> Update(heap', Update(heap, rc.ctrl, c), c), Xe |-> cbe'.thermo]
    BY <1>5 DEF Recomb
  <2>2. /\ cbe' = [cbe EXCEPT !.thermo = th] /\ th \in Thermo /\ th # None
        /\ th.cosmo = heap.val[c] /\ th.reion = heap.val[heap.subs[c]["reion"]]
        /\ th.foreign = (cbe.ctrl.model \notin {None, c})
    BY <1>1, <1>2, <2>1, ComputeFacts
  <2> HIDE DEF th
  <2>3. /\ cbe' \in CBEType /\ cbe'.ctrl = cbe.ctrl /\ cbe'.target = cbe.target
        /\ cbe'.transfer = cbe.transfer /\ cbe'.zmax = cbe.zmax /\ cbe'.call = cbe.call
        /\ cbe'.spectra = cbe.spectra /\ cbe'.thermo = th
    BY <1>1, <2>2 DEF CBEType
  <2>4. CBEInv(heap, cbe')
    BY <1>1, <1>2, <2>2, <2>3 DEF CBEInv, Remembers
  <2>5. /\ HeapInv(heap') /\ Follows(heap, heap', {})
        /\ heap'.held = heap.held /\ heap'.val = heap.val /\ heap'.subs = heap.subs
        /\ heap'.key[c] = heap'.ypKey[c]
        /\ heap.key[c] = heap.ypKey[c] => heap'.key[c] = heap.key[c] /\ heap'.ypKey[c] = heap.ypKey[c]
    BY <1>1, <1>2, <2>1, ReadYpFollows
  <2>6. CBEInv(heap', cbe') /\ PSInv(heap', ps') /\ PBInv(heap', pb')
    BY <1>1, <1>2, <2>3, <2>4, <2>5, UsersFollow
  <2>7. rc'.ctrl = Seen(heap', c) /\ rc'.Xe = th /\ Seen(heap', c) \in CtrlType
    <3>1. rc.ctrl \in CtrlType /\ heap \in HeapType /\ heap' \in HeapType
      BY <1>1, <2>5 DEF RCType, HeapInv
    <3>2. Update(heap, rc.ctrl, c) = Seen(heap, c) /\ Seen(heap, c) \in CtrlType
      BY <1>1, <1>2, <3>1, UpdateSees, SeenKnown DEF Known
    <3>3. Update(heap', Update(heap, rc.ctrl, c), c) = Seen(heap', c)
      BY <3>1, <3>2, UpdateSees
    <3>4. Seen(heap', c) \in CtrlType
      BY <1>2, <2>5, SeenKnown DEF Known
    <3> QED
      BY <2>1, <2>3, <3>3, <3>4
  <2>8. rc' \in RCType
    <3>1. rc' = [ctrl |-> Seen(heap', c), Xe |-> th]
      BY <2>1, <2>7
    <3> QED
      BY <2>2, <2>7, <3>1 DEF RCType
  <2>9. RCInv(heap', rc')
    <3>1. /\ Known(heap', Seen(heap', c)) /\ Seen(heap', c).model = c
          /\ Seen(heap', c).sub["reion"].model = heap'.subs[c]["reion"]
      BY <1>2, <2>5, SeenKnown DEF Kind
    <3> QED
      BY <2>2, <2>5, <2>7, <3>1 DEF RCInv, Remembers, RemembersSub
  <2>10. AnswerOK(heap', ps', rc', pb', answer')
    BY <1>3, <2>2, <2>5, <2>7 DEF AnswerOK
  <2>11. RunInv'
    BY <1>2, <1>3, <1>4, <2>3, <2>5 DEF RunInv, ModelUp
  <2> QED
    BY <1>1, <1>2, <1>3, <2>3, <2>5, <2>6, <2>8, <2>9, <2>10, <2>11, CallInv
<1>6. CASE ~ Up(heap, rc.ctrl, c)
  <2>1. cbe' = cbe /\ heap' = heap /\ rc' = rc
    BY <1>6 DEF Recomb
  <2>2. rc.ctrl \in CtrlType /\ ~ ModelUp(heap, rc.ctrl, c) /\ ~ SubmodelUp(heap, rc.ctrl, c, "reion")
    BY <1>1, <1>6 DEF RCType, Up, Kind
  <2>3. /\ rc.ctrl.model = c /\ rc.ctrl.key = heap.key[c]
        /\ rc.ctrl.sub["reion"].model = heap.subs[c]["reion"]
        /\ rc.ctrl.sub["reion"].key = heap.key[heap.subs[c]["reion"]]
    BY <1>1, <1>2, <2>2, NotUp DEF Kind
  <2>4. c # None /\ heap.subs[c]["reion"] # None
    BY <1>1, <1>2, NoneFacts DEF HeapInv, Kind
  <2>5. rc.Xe # None /\ rc.Xe.cosmo = heap.val[c] /\ rc.Xe.reion = heap.val[heap.subs[c]["reion"]]
    BY <1>1, <2>3, <2>4 DEF RCInv, Remembers, RemembersSub
  <2>6. AnswerOK(heap', ps', rc', pb', answer')
    BY <1>3, <2>1, <2>5 DEF AnswerOK
  <2>7. RunInv'
    BY <1>2, <1>3, <1>4, <2>1 DEF RunInv
  <2> QED
    BY <1>1, <1>2, <1>3, <2>1, <2>6, <2>7, CallInv
<1> QED
  BY <1>5, <1>6

(* The power spectrum.  When CLASS has run twice since the last change the *)
(* helium is known and the NcCBE has seen the cosmology with it.           *)
LEMMA PowspecInv ==
  ASSUME IInv, NEW c \in Cosmo, Powspec(c)
  PROVE  IInv'
<1>1. /\ HeapInv(heap) /\ cbe \in CBEType /\ ps \in PSType /\ rc \in RCType
      /\ CBEInv(heap, cbe) /\ PSInv(heap, ps) /\ RCInv(heap, rc)
      /\ pb \in PBType /\ PBInv(heap, pb)
  BY TypeParts DEF IInv
<1>2. c \in heap.held /\ answer' = [by |-> "ps", of |-> c] /\ rc' = rc /\ pb' = pb /\ changes' = changes
  BY DEF Powspec
<1>3. answer'.of = c /\ answer'.by = "ps" /\ answer' # None
  BY <1>2, AnswerIsNotNone
<1>4. /\ RunsFor(c) \in Nat /\ RunsFor(c) <= 2
      /\ RunsFor(c) > 0 => heap.key[c] = heap.ypKey[c] /\ cbe.transfer /\ cbe.zmax = ps.zf
      /\ RunsFor(c) > 1 => ~ ModelUp(heap, cbe.ctrl, c)
  BY RunsFacts
<1>5. CASE Up(heap, ps.ctrl, c)
  <2> DEFINE x1 == SetCalcTransfer(cbe)
             x == SetMaxMatterPkZ(x1, ps.zf)
  <2>1. /\ cbe' = PrepareIfNeeded(heap, x, c) /\ heap' = AfterPrepare(heap, x, c)
        /\ ps' = [ps EXCEPT !.ctrl = Update(heap, @, c), !.lnPk = cbe'.spectra]
        /\ again' = IF ModelUp(heap, x.ctrl, c) THEN RunsFor(c) + 1 ELSE RunsFor(c)
    BY <1>5 DEF Powspec
  <2>2. x1 \in CBEType /\ CBEInv(heap, x1) /\ x1.transfer = TRUE /\ x1.zmax = cbe.zmax
        /\ (cbe.transfer => x1 = cbe)
    BY <1>1, SettersInv
  <2> HIDE DEF x1
  <2>3. x \in CBEType /\ CBEInv(heap, x) /\ x.transfer = TRUE /\ x.zmax = ps.zf
        /\ (x1.zmax = ps.zf => x = x1)
    <3>1. ps.zf \in Depth
      BY <1>1 DEF PSType
    <3> QED
      BY <2>2, <3>1, SetMaxMatterPkZInv
  <2> HIDE DEF x
  <2>4. RunsFor(c) > 0 => x = cbe
    BY <1>4, <2>2, <2>3
  <2>5. x.call # None
    BY <2>3 DEF CBEInv
  <2>6. /\ cbe' \in CBEType /\ CBEInv(heap, cbe') /\ cbe'.ctrl = Seen(heap, c)
        /\ cbe'.transfer = TRUE /\ cbe'.zmax = ps.zf
        /\ cbe'.spectra \in Spectra /\ cbe'.spectra # None
        /\ ~ cbe'.spectra.foreign => cbe'.spectra.cosmo = heap.val[c]
        /\ cbe'.spectra.prim = heap.val[heap.subs[c]["prim"]]
        /\ cbe'.spectra.transfer = TRUE /\ cbe'.spectra.zmax = ps.zf
    BY <1>1, <1>2, <2>1, <2>3, <2>5, PrepareFacts
  <2>7. /\ HeapInv(heap') /\ Follows(heap, heap', {})
        /\ heap'.held = heap.held /\ heap'.val = heap.val /\ heap'.subs = heap.subs
        /\ ModelUp(heap, x.ctrl, c) => heap'.key[c] = heap'.ypKey[c]
        /\ heap.key[c] = heap.ypKey[c] => heap'.key[c] = heap.key[c] /\ heap'.ypKey[c] = heap.ypKey[c]
        /\ ~ ModelUp(heap, x.ctrl, c) => heap' = heap
    <3> DEFINE g == AfterPrepare(heap, x, c)
    <3>1. HeapInv(heap) /\ c \in heap.held /\ heap' = g
      BY <1>1, <1>2, <2>1
    <3>2. /\ HeapInv(g) /\ Follows(heap, g, {})
          /\ g.held = heap.held /\ g.val = heap.val /\ g.subs = heap.subs
          /\ ModelUp(heap, x.ctrl, c) => g.key[c] = g.ypKey[c]
          /\ heap.key[c] = heap.ypKey[c] => g.key[c] = heap.key[c] /\ g.ypKey[c] = heap.ypKey[c]
          /\ ~ ModelUp(heap, x.ctrl, c) => g = heap
      BY <3>1, AfterPrepareFacts
    <3> HIDE DEF g
    <3> QED
      BY <3>1, <3>2
  <2>8. /\ Seen(heap, c) \in CtrlType /\ Known(heap, Seen(heap, c))
        /\ Seen(heap, c).model = c /\ Seen(heap, c).key = heap.key[c]
        /\ Seen(heap, c).sub["prim"].model = heap.subs[c]["prim"]
    BY <1>1, <1>2, SeenKnown DEF Known, Kind
  <2>9. ps' \in PSType /\ ps'.ctrl = Seen(heap, c) /\ ps'.lnPk = cbe'.spectra /\ ps'.zf = ps.zf
    <3>1. Update(heap, ps.ctrl, c) = Seen(heap, c)
      BY <1>1, UpdateSees DEF PSType, HeapInv
    <3> DEFINE k == Seen(heap, c)
               sp == cbe'.spectra
    <3>2. ps' = [ps EXCEPT !.ctrl = k, !.lnPk = sp]
      BY <2>1, <3>1
    <3>3. k \in CtrlType /\ sp \in Spectra
      BY <2>6, <2>8
    <3> HIDE DEF k, sp
    <3>4. ps' \in PSType /\ ps'.ctrl = k /\ ps'.lnPk = sp /\ ps'.zf = ps.zf
      BY <1>1, <3>2, <3>3 DEF PSType
    <3> QED
      BY <3>4 DEF k, sp
  <2>10. PSInv(heap, ps')
    BY <2>6, <2>8, <2>9 DEF PSInv, Remembers, RemembersSub
  <2>11. CBEInv(heap', cbe') /\ PSInv(heap', ps') /\ RCInv(heap', rc') /\ PBInv(heap', pb')
    BY <1>1, <1>2, <2>6, <2>7, <2>9, <2>10, UsersFollow
  <2>12. AnswerOK(heap', ps', rc', pb', answer')
    BY <1>3, <2>6, <2>7, <2>9 DEF AnswerOK
  <2>13. ModelUp(heap, x.ctrl, c) => RunsFor(c) <= 1
    BY <1>4, <2>4
  <2>14. again' \in Nat /\ again' <= 2
    BY <1>4, <2>1, <2>13
  <2>15. again' > 0 => heap'.key[c] = heap'.ypKey[c]
    BY <1>4, <2>1, <2>7
  <2>16. again' > 1 => heap'.key[c] = heap.key[c]
    BY <1>4, <2>1, <2>7
  <2>17. again' > 1 => ~ ModelUp(heap', cbe'.ctrl, c)
    BY <2>6, <2>8, <2>16 DEF ModelUp
  <2>18. RunInv'
    BY <1>3, <2>6, <2>9, <2>14, <2>15, <2>17 DEF RunInv
  <2> QED
    BY <1>1, <1>2, <2>6, <2>7, <2>9, <2>11, <2>12, <2>14, <2>18, CallInv
<1>6. CASE ~ Up(heap, ps.ctrl, c)
  <2>1. cbe' = cbe /\ heap' = heap /\ ps' = ps /\ again' = RunsFor(c)
    BY <1>6 DEF Powspec
  <2>2. ps.ctrl \in CtrlType /\ ~ ModelUp(heap, ps.ctrl, c) /\ ~ SubmodelUp(heap, ps.ctrl, c, "prim")
    BY <1>1, <1>6 DEF PSType, Up, Kind
  <2>3. /\ ps.ctrl.model = c /\ ps.ctrl.key = heap.key[c]
        /\ ps.ctrl.sub["prim"].model = heap.subs[c]["prim"]
        /\ ps.ctrl.sub["prim"].key = heap.key[heap.subs[c]["prim"]]
    BY <1>1, <1>2, <2>2, NotUp DEF Kind
  <2>4. c # None /\ heap.subs[c]["prim"] # None
    BY <1>1, <1>2, NoneFacts DEF HeapInv, Kind
  <2>5. /\ ps.lnPk # None /\ (~ ps.lnPk.foreign => ps.lnPk.cosmo = heap.val[c])
        /\ ps.lnPk.prim = heap.val[heap.subs[c]["prim"]]
        /\ ps.lnPk.transfer /\ ps.lnPk.zmax = ps.zf
    BY <1>1, <2>3, <2>4 DEF PSInv, Remembers, RemembersSub
  <2>6. AnswerOK(heap', ps', rc', pb', answer')
    BY <1>3, <2>1, <2>5 DEF AnswerOK
  <2>7. RunInv'
    BY <1>3, <1>4, <2>1 DEF RunInv
  <2> QED
    BY <1>1, <1>2, <1>4, <2>1, <2>6, <2>7, CallInv
<1> QED
  BY <1>5, <1>6

-----------------------------------------------------------------------------
(* Theorems                                                                *)

(* Every step of the program and of the three objects keeps the invariant: *)
(* a control that agrees goes with a result of the model as it is, except  *)
(* in the NcCBE and the power spectrum when it is foreign.                 *)
THEOREM Invariance == Spec => []IInv
<1>1. Init => IInv
  BY InitInv
<1>2. IInv /\ [Next]_vars => IInv'
  <2> SUFFICES ASSUME IInv, [Next]_vars  PROVE IInv'
    OBVIOUS
  <2>1. CASE New
    BY <2>1, NewInv
  <2>2. CASE Set
    BY <2>2, SetInv
  <2>3. CASE Exchange
    BY <2>3, ExchangeInv
  <2>4. CASE Release
    BY <2>4, ReleaseInv
  <2>5. CASE Helium
    BY <2>5, HeliumInv
  <2>6. CASE SetZf
    BY <2>6, SetZfInv
  <2>7. ASSUME NEW c \in Cosmo, Powspec(c)  PROVE IInv'
    BY <2>7, PowspecInv
  <2>8. ASSUME NEW c \in Cosmo, Recomb(c)  PROVE IInv'
    BY <2>8, RecombInv
  <2>9. ASSUME NEW c \in Cosmo, Boltzmann(c)  PROVE IInv'
    BY <2>9, BoltzmannInv
  <2>10. CASE SetLensed
    BY <2>10, SetLensedPBInv
  <2>11. CASE UNCHANGED vars
    <3>1. /\ heap' = heap /\ cbe' = cbe /\ ps' = ps /\ rc' = rc /\ pb' = pb
          /\ answer' = answer /\ again' = again /\ changes' = changes
      BY <2>11 DEF vars
    <3>2. TypeOK'
      BY <3>1 DEF IInv, TypeOK
    <3>3. AnswerHeld' /\ RunInv'
      BY <3>1 DEF IInv, AnswerHeld, RunInv
    <3>4. Answers'
      BY <3>1 DEF IInv, Answers
    <3> QED
      BY <3>1, <3>2, <3>3, <3>4 DEF IInv
  <2> QED
    BY <2>1, <2>2, <2>3, <2>4, <2>5, <2>6, <2>7, <2>8, <2>9, <2>10, <2>11 DEF Next
<1> QED
  BY <1>1, <1>2, PTL DEF Spec

(* No sequence of calls leaves a part with a value of another type.        *)
THEOREM TypeCorrect == Spec => []TypeOK
<1>1. IInv => TypeOK
  BY DEF IInv
<1> QED
  BY <1>1, Invariance, PTL

(* For any number of models, at addresses used again in any order, whoever *)
(* asks one of the three objects gets what CLASS computes from the models  *)
(* as they are (ncm_model_ctrl_update, nc_cbe_prepare_if_needed), but for  *)
(* the two cases Answers excepts for the power spectrum: foreign           *)
(* thermodynamics, and the reionization model.                             *)
THEOREM AnswersAreFresh == Spec => []Answers
<1>1. IInv => Answers
  BY DEF IInv
<1> QED
  BY <1>1, Invariance, PTL

(* Reading a cosmology may change it, but only once: no change makes the   *)
(* power spectrum run CLASS more than twice.                               *)
THEOREM RunsAtMostTwice == Spec => []AtMostTwice
<1>1. IInv => AtMostTwice
  BY DEF IInv, RunInv, AtMostTwice
<1> QED
  BY <1>1, Invariance, PTL
=============================================================================
