---------------------------- MODULE ScopesProofs ----------------------------
(***************************************************************************)
(* Theorems about Scopes, for any owners, subscribers and futures and any  *)
(* depth of nesting: the current owner, observer and zone are always those *)
(* of the innermost scope that sets them, and reads are attributed to the  *)
(* subscriber that they are meant for.                                     *)
(*                                                                         *)
(* A scope that ends restores what was current when it was entered. So the *)
(* invariant says of every prefix of the scopes what ScopesNest says of    *)
(* all of them: what a scope is to restore is right for the scopes before  *)
(* it.                                                                     *)
(***************************************************************************)
EXTENDS Scopes, SequenceTheorems, TLAPS

OwnerKinds == {"owner", "poll"}
Kinds == {"owner"} \cup Observes

(* Scope i is the innermost one of some kinds among the first n of sc, or   *)
(* i = 0 and there is none.                                                 *)
IsInnermost(sc, n, kinds, i) ==
    /\ i \in 0 .. n
    /\ i > 0 => sc[i].kind \in kinds
    /\ \A j \in 1 .. n : j > i => sc[j].kind \notin kinds

(* What scope e sets, where fu are the futures                              *)
OwnerIn(fu, e) == IF e.kind = "poll" THEN fu[e.of].owner ELSE e.of
SubIn(fu, e) == IF e.kind = "poll" THEN fu[e.of].sub ELSE e.of
Silences(fu, e) ==
    \/ e.kind \in {"untracked", "untrack"}
    \/ e.kind = "poll" /\ ~fu[e.of].diagnostics

(* The first n scopes of sc make o the owner, s the subscriber and z the    *)
(* zone.                                                                    *)
OwnerAt(sc, fu, n, o) ==
    \E i \in 0 .. n : IsInnermost(sc, n, OwnerKinds, i)
                      /\ o = IF i = 0 THEN Root ELSE OwnerIn(fu, sc[i])
SubAt(sc, fu, n, s) ==
    \E i \in 0 .. n : IsInnermost(sc, n, Observes, i)
                      /\ s = IF i = 0 THEN None ELSE SubIn(fu, sc[i])
ZoneAt(sc, fu, n, z) == z = \E i \in 1 .. n : Silences(fu, sc[i])

Context(sc, fu, n, o, s, z) ==
    OwnerAt(sc, fu, n, o) /\ SubAt(sc, fu, n, s) /\ ZoneAt(sc, fu, n, z)

(* It is so for all scopes, and for those before each of them.              *)
Nested(sc, fu, o, s, z) ==
    /\ Context(sc, fu, Len(sc), o, s, z)
    /\ \A n \in 1 .. Len(sc) : Context(sc, fu, n - 1, sc[n].owner, sc[n].sub, sc[n].zone)

Things == Owners \cup Subs \cup Futures \cup {None}
ScopeSet ==
    [kind : Kinds, of : Things, sub : Subs \cup {None}, owner : Owners, zone : BOOLEAN]

TypeOK ==
    /\ owner \in Owners
    /\ observer \in [sub : Subs \cup {None}, untracked : BOOLEAN]
    /\ zone \in BOOLEAN
    /\ scopes \in Seq(ScopeSet)
    /\ futures \in [Futures -> [owner : Owners, sub : Subs \cup {None},
                                diagnostics : BOOLEAN] \cup {None}]
    /\ made \in [Futures -> Subs \cup {None}]

(* A scope that polls a future polls one that was made, and one that        *)
(* untracks has no subscriber.                                              *)
ScopeInv ==
    \A i \in 1 .. Len(scopes) :
        /\ scopes[i].kind = "poll" => scopes[i].of \in Futures /\ futures[scopes[i].of] # None
        /\ scopes[i].kind \in Untracks => scopes[i].of = None

(* A future holds the subscriber that it is to track for.                   *)
FutureInv == \A f \in Futures : futures[f] # None => futures[f].sub = made[f]

(* The untracked flag is only set in the scope that sets it.                *)
FlagInv ==
    observer.untracked =>
        \E i \in 1 .. Len(scopes) : IsInnermost(scopes, Len(scopes), Observes, i)
                                    /\ scopes[i].kind = "untracked"

IInv ==
    /\ TypeOK /\ ScopeInv /\ FutureInv /\ FlagInv
    /\ Nested(scopes, futures, owner, observer.sub, zone)

-----------------------------------------------------------------------------
(* There is one innermost scope: Innermost finds it.                        *)
LEMMA InnermostIs ==
    ASSUME NEW S, scopes \in Seq(S), NEW kinds, NEW i,
           IsInnermost(scopes, Len(scopes), kinds, i)
    PROVE  Innermost(kinds) = i
<1> DEFINE I == {j \in DOMAIN scopes : scopes[j].kind \in kinds} \cup {0}
<1>1. DOMAIN scopes = 1 .. Len(scopes) /\ Len(scopes) \in Nat
  OBVIOUS
<1>2. i \in I /\ \A j \in I : j \in Nat /\ i >= j
  BY <1>1 DEF IsInnermost
<1>3. \A x \in I : (\A y \in I : x >= y) => x = i
  BY <1>1, <1>2
<1> HIDE DEF I
<1>4. Max(I) = i
  BY Zenon, <1>2, <1>3 DEF Max
<1> QED
  BY Zenon, <1>4 DEF I, Innermost

(* What the first n scopes set depends on them and the futures they poll.   *)
LEMMA ContextOfPrefix ==
    ASSUME NEW sc, NEW tc, NEW fu, NEW gu, NEW n \in Nat, NEW o, NEW s, NEW z,
           Context(sc, fu, n, o, s, z),
           \A i \in 1 .. n : tc[i] = sc[i] /\ (sc[i].kind = "poll" => gu[sc[i].of] = fu[sc[i].of])
    PROVE  Context(tc, gu, n, o, s, z)
<1>1. \A i \in 1 .. n : /\ OwnerIn(gu, tc[i]) = OwnerIn(fu, sc[i])
                        /\ SubIn(gu, tc[i]) = SubIn(fu, sc[i])
                        /\ Silences(gu, tc[i]) = Silences(fu, sc[i])
  BY Zenon DEF OwnerIn, SubIn, Silences
<1>2. \A kinds, i : IsInnermost(sc, n, kinds, i) => IsInnermost(tc, n, kinds, i)
  BY DEF IsInnermost
<1>3. OwnerAt(tc, gu, n, o)
  BY <1>1, <1>2 DEF Context, OwnerAt
<1>4. SubAt(tc, gu, n, s)
  BY <1>1, <1>2 DEF Context, SubAt
<1>5. ZoneAt(tc, gu, n, z)
  BY Zenon, <1>1 DEF Context, ZoneAt
<1> QED
  BY Zenon, <1>3, <1>4, <1>5 DEF Context

(* Entering a scope: it is the innermost of its kind, and for the other     *)
(* kinds the innermost stays.                                               *)
LEMMA Pushed ==
    ASSUME NEW S, NEW sc \in Seq(S), NEW e \in S, NEW fu, NEW o, NEW s, NEW z,
           Nested(sc, fu, o, s, z), e.owner = o, e.sub = s, e.zone = z
    PROVE  Nested(Append(sc, e), fu,
                  IF e.kind \in OwnerKinds THEN OwnerIn(fu, e) ELSE o,
                  IF e.kind \in Observes THEN SubIn(fu, e) ELSE s,
                  z \/ Silences(fu, e))
<1> DEFINE tc == Append(sc, e)
           m == Len(sc) + 1
<1>1. Len(sc) \in Nat /\ Len(tc) = m /\ tc[m] = e /\ \A i \in 1 .. Len(sc) : tc[i] = sc[i]
  OBVIOUS
<1> HIDE DEF tc
<1>2. \A n \in 1 .. m : Context(tc, fu, n - 1, tc[n].owner, tc[n].sub, tc[n].zone)
  <2> SUFFICES ASSUME NEW n \in 1 .. m
               PROVE  Context(tc, fu, n - 1, tc[n].owner, tc[n].sub, tc[n].zone)
    OBVIOUS
  <2>1. n - 1 \in Nat /\ \A i \in 1 .. n - 1 : tc[i] = sc[i]
    BY <1>1
  <2>2. Context(sc, fu, n - 1, tc[n].owner, tc[n].sub, tc[n].zone)
    BY <1>1 DEF Nested
  <2> QED
    BY Zenon, <2>1, <2>2, ContextOfPrefix
<1>3. \A kinds : e.kind \in kinds => IsInnermost(tc, m, kinds, m)
  BY <1>1 DEF IsInnermost
<1>4. \A kinds, i : e.kind \notin kinds /\ IsInnermost(sc, Len(sc), kinds, i)
                    => IsInnermost(tc, m, kinds, i)
  BY <1>1 DEF IsInnermost
<1>5. OwnerAt(tc, fu, m, IF e.kind \in OwnerKinds THEN OwnerIn(fu, e) ELSE o)
  <2>1. CASE e.kind \in OwnerKinds
    <3>1. IsInnermost(tc, m, OwnerKinds, m) /\ m \in 0 .. m /\ m # 0
      BY <1>1, <1>3, <2>1
    <3> QED
      BY Zenon, <1>1, <2>1, <3>1 DEF OwnerAt
  <2>2. CASE e.kind \notin OwnerKinds
    <3>1. PICK i \in 0 .. Len(sc) : IsInnermost(sc, Len(sc), OwnerKinds, i)
                                    /\ o = IF i = 0 THEN Root ELSE OwnerIn(fu, sc[i])
      BY Zenon DEF Nested, Context, OwnerAt
    <3>2. i \in 0 .. m /\ IsInnermost(tc, m, OwnerKinds, i) /\ (i # 0 => tc[i] = sc[i])
      BY <1>1, <1>4, <2>2, <3>1
    <3> QED
      BY Zenon, <2>2, <3>1, <3>2 DEF OwnerAt
  <2> QED
    BY Zenon, <2>1, <2>2
<1>6. SubAt(tc, fu, m, IF e.kind \in Observes THEN SubIn(fu, e) ELSE s)
  <2>1. CASE e.kind \in Observes
    <3>1. IsInnermost(tc, m, Observes, m) /\ m \in 0 .. m /\ m # 0
      BY <1>1, <1>3, <2>1
    <3> QED
      BY Zenon, <1>1, <2>1, <3>1 DEF SubAt
  <2>2. CASE e.kind \notin Observes
    <3>1. PICK i \in 0 .. Len(sc) : IsInnermost(sc, Len(sc), Observes, i)
                                    /\ s = IF i = 0 THEN None ELSE SubIn(fu, sc[i])
      BY Zenon DEF Nested, Context, SubAt
    <3>2. i \in 0 .. m /\ IsInnermost(tc, m, Observes, i) /\ (i # 0 => tc[i] = sc[i])
      BY <1>1, <1>4, <2>2, <3>1
    <3> QED
      BY Zenon, <2>2, <3>1, <3>2 DEF SubAt
  <2> QED
    BY Zenon, <2>1, <2>2
<1>7. ZoneAt(tc, fu, m, z \/ Silences(fu, e))
  <2>1. z = \E i \in 1 .. Len(sc) : Silences(fu, sc[i])
    BY Zenon DEF Nested, Context, ZoneAt
  <2>2. (\E i \in 1 .. m : Silences(fu, tc[i]))
           <=> (\E i \in 1 .. Len(sc) : Silences(fu, sc[i])) \/ Silences(fu, e)
    BY <1>1
  <2> QED
    BY <2>1, <2>2, Zenon DEF ZoneAt
<1> QED
  BY Zenon, <1>1, <1>2, <1>5, <1>6, <1>7 DEF Nested, Context, tc

(* All scopes but the innermost, and the innermost.                         *)
LEMMA FrontIs ==
    ASSUME NEW S, NEW sc \in Seq(S), sc # <<>>
    PROVE  /\ Len(sc) \in Nat \ {0} /\ Last(sc) = sc[Len(sc)] /\ Last(sc) \in S
           /\ Front(sc) \in Seq(S) /\ Len(Front(sc)) = Len(sc) - 1
           /\ \A i \in 1 .. Len(sc) - 1 : Front(sc)[i] = sc[i]
<1> DEFINE tc == Front(sc)
           m == Len(sc)
<1>1. m \in Nat \ {0} /\ Last(sc) = sc[m] /\ Last(sc) \in S
  BY DEF Last
<1>2. \A i \in 1 .. m - 1 : sc[i] \in S
  BY <1>1
<1>3. /\ tc \in Seq(S)
      /\ Len(tc) = IF 1 <= m - 1 THEN m - 1 - 1 + 1 ELSE 0
      /\ \A i \in 1 .. m - 1 - 1 + 1 : tc[i] = sc[1 + i - 1]
  BY <1>1, <1>2, SubSeqProperties DEF Front
<1> HIDE DEF tc, m
<1>4. \A i \in 1 .. m - 1 : i \in 1 .. m - 1 - 1 + 1 /\ 1 + i - 1 = i
  BY <1>1
<1>5. Len(tc) = m - 1 /\ \A i \in 1 .. m - 1 : tc[i] = sc[i]
  BY <1>1, <1>3, <1>4
<1> QED
  BY Zenon, <1>1, <1>3, <1>5 DEF tc, m

(* Leaving a scope: what it restores is right for the scopes before it, and *)
(* one that only sets an owner leaves the subscriber as it was.             *)
LEMMA Popped ==
    ASSUME NEW S, NEW sc \in Seq(S), sc # <<>>, NEW fu, NEW o, NEW s, NEW z,
           Nested(sc, fu, o, s, z)
    PROVE  /\ Nested(Front(sc), fu, Last(sc).owner, Last(sc).sub, Last(sc).zone)
           /\ Last(sc).kind \notin Observes => Last(sc).sub = s
<1> DEFINE tc == Front(sc)
           e == Last(sc)
           m == Len(sc)
<1>1. m \in Nat \ {0} /\ Len(tc) = m - 1 /\ e = sc[m] /\ \A i \in 1 .. m - 1 : tc[i] = sc[i]
  BY Zenon, FrontIs
<1> HIDE DEF tc, e, m
<1>2. \A n \in 1 .. m : Context(tc, fu, n - 1, sc[n].owner, sc[n].sub, sc[n].zone)
  <2> SUFFICES ASSUME NEW n \in 1 .. m
               PROVE  Context(tc, fu, n - 1, sc[n].owner, sc[n].sub, sc[n].zone)
    OBVIOUS
  <2>1. n - 1 \in Nat /\ \A i \in 1 .. n - 1 : tc[i] = sc[i]
    BY <1>1
  <2>2. Context(sc, fu, n - 1, sc[n].owner, sc[n].sub, sc[n].zone)
    BY Zenon, <1>1 DEF Nested, m
  <2> QED
    BY Zenon, <2>1, <2>2, ContextOfPrefix
<1>3. Nested(tc, fu, e.owner, e.sub, e.zone)
  <2>1. Context(tc, fu, Len(tc), e.owner, e.sub, e.zone)
    <3>1. m \in 1 .. m
      BY <1>1
    <3> QED
      BY Zenon, <1>1, <1>2, <3>1
  <2>2. \A n \in 1 .. Len(tc) : n \in 1 .. m /\ tc[n] = sc[n]
    BY <1>1
  <2>3. \A n \in 1 .. Len(tc) : Context(tc, fu, n - 1, tc[n].owner, tc[n].sub, tc[n].zone)
    BY Zenon, <1>2, <2>2
  <2> QED
    BY Zenon, <2>1, <2>3 DEF Nested
<1>4. ASSUME e.kind \notin Observes PROVE e.sub = s
  <2>1. SubAt(sc, fu, m, s) /\ SubAt(sc, fu, m - 1, e.sub)
    BY <1>1 DEF Nested, Context, m
  <2>2. PICK i \in 0 .. m : IsInnermost(sc, m, Observes, i)
                            /\ s = IF i = 0 THEN None ELSE SubIn(fu, sc[i])
    BY Zenon, <2>1 DEF SubAt
  <2>3. PICK j \in 0 .. m - 1 : IsInnermost(sc, m - 1, Observes, j)
                                /\ e.sub = IF j = 0 THEN None ELSE SubIn(fu, sc[j])
    BY Zenon, <2>1 DEF SubAt
  <2>4. i = j
    BY <1>1, <1>4, <2>2, <2>3 DEF IsInnermost
  <2> QED
    BY Zenon, <2>2, <2>3, <2>4
<1> QED
  BY Zenon, <1>3, <1>4 DEF tc, e

-----------------------------------------------------------------------------
(* A scope of the kind k that sets x is entered.                            *)
LEMMA Entered ==
    ASSUME IInv, NEW k \in Kinds, NEW x \in Things, Enter(k, x),
           k = "poll" => x \in Futures /\ futures[x] # None,
           k \in Untracks => x = None
    PROVE  /\ scopes' \in Seq(ScopeSet)
           /\ Len(scopes') = Len(scopes) + 1 /\ Len(scopes) \in Nat
           /\ scopes'[Len(scopes) + 1] = Scope(k, x)
           /\ \A i \in 1 .. Len(scopes) : scopes'[i] = scopes[i]
           /\ futures' = futures => ScopeInv'
           /\ Nested(scopes', futures,
                     IF k \in OwnerKinds THEN OwnerIn(futures, Scope(k, x)) ELSE owner,
                     IF k \in Observes THEN SubIn(futures, Scope(k, x)) ELSE observer.sub,
                     zone \/ Silences(futures, Scope(k, x)))
<1> DEFINE e == Scope(k, x)
<1>1. e \in ScopeSet /\ e.kind = k /\ e.of = x
  BY Zenon DEF IInv, TypeOK, Scope, ScopeSet
<1>2. e.owner = owner /\ e.sub = observer.sub /\ e.zone = zone
  BY Zenon DEF Scope
<1>3. scopes' = Append(scopes, e) /\ scopes \in Seq(ScopeSet)
  BY Zenon DEF Enter, IInv, TypeOK
<1> HIDE DEF e
<1>4. /\ scopes' \in Seq(ScopeSet)
      /\ Len(scopes') = Len(scopes) + 1 /\ Len(scopes) \in Nat
      /\ scopes'[Len(scopes) + 1] = e
      /\ \A i \in 1 .. Len(scopes) : scopes'[i] = scopes[i]
  BY <1>1, <1>3
<1>5. futures' = futures => ScopeInv'
  BY <1>1, <1>4 DEF IInv, ScopeInv
<1>6. Nested(scopes', futures,
             IF k \in OwnerKinds THEN OwnerIn(futures, e) ELSE owner,
             IF k \in Observes THEN SubIn(futures, e) ELSE observer.sub,
             zone \/ Silences(futures, e))
  BY <1>1, <1>2, <1>3, Pushed DEF IInv
<1> QED
  BY Zenon, <1>4, <1>5, <1>6 DEF e

(* Every way into a scope preserves the invariant.                          *)
LEMMA EnterInv ==
    ASSUME IInv, \/ \E o \in Owners : WithOwner(o)
                 \/ \E s \in Subs \cup {None} : WithObserver(s) \/ WithObserverUntracked(s)
                 \/ \E d \in BOOLEAN : Untrack(d)
                 \/ \E f \in Futures : Poll(f)
    PROVE  IInv'
<1> USE DEF Kinds, Observes, Untracks, OwnerKinds
<1>1. ASSUME NEW o \in Owners, WithOwner(o) PROVE IInv'
  <2>1. /\ Enter("owner", o) /\ o \in Things /\ owner' = o
        /\ UNCHANGED <<observer, zone, futures, made>>
    BY Zenon, <1>1 DEF WithOwner, Things
  <2>2. Nested(scopes', futures, o, observer.sub, zone)
    <3>1. OwnerIn(futures, Scope("owner", o)) = o /\ ~Silences(futures, Scope("owner", o))
      BY Zenon DEF OwnerIn, Silences, Scope
    <3>2. Nested(scopes', futures, o, observer.sub, zone \/ Silences(futures, Scope("owner", o)))
      BY Zenon, <2>1, <3>1, Entered
    <3>3. (zone \/ Silences(futures, Scope("owner", o))) = zone
      BY Zenon, <3>1 DEF IInv, TypeOK
    <3> QED
      BY Zenon, <3>2, <3>3
  <2>3. ScopeInv' /\ scopes' \in Seq(ScopeSet)
    BY Zenon, <2>1, Entered
  <2>4. FlagInv'
    <3>1. /\ Len(scopes') = Len(scopes) + 1 /\ Len(scopes) \in Nat
          /\ scopes'[Len(scopes) + 1] = Scope("owner", o)
          /\ \A i \in 1 .. Len(scopes) : scopes'[i] = scopes[i]
      BY Zenon, <2>1, Entered
    <3>2. scopes'[Len(scopes) + 1].kind \notin Observes
      BY <3>1 DEF Scope
    <3> SUFFICES ASSUME observer.untracked
                 PROVE  \E i \in 1 .. Len(scopes') : IsInnermost(scopes', Len(scopes'), Observes, i)
                                                     /\ scopes'[i].kind = "untracked"
      BY Zenon, <2>1 DEF FlagInv
    <3>3. PICK i \in 1 .. Len(scopes) : IsInnermost(scopes, Len(scopes), Observes, i)
                                        /\ scopes[i].kind = "untracked"
      BY Zenon DEF IInv, FlagInv
    <3>4. i \in 1 .. Len(scopes') /\ scopes'[i].kind = "untracked"
      BY <3>1, <3>3
    <3>5. IsInnermost(scopes', Len(scopes'), Observes, i)
      BY <3>1, <3>2, <3>3 DEF IsInnermost
    <3> QED
      BY Zenon, <3>4, <3>5
  <2> QED
    BY Zenon, <1>1, <2>1, <2>2, <2>3, <2>4 DEF IInv, TypeOK, FutureInv
<1>2. ASSUME NEW s \in Subs \cup {None}, WithObserver(s) PROVE IInv'
  <2>1. /\ Enter("observer", s) /\ s \in Things /\ observer' = [sub |-> s, untracked |-> FALSE]
        /\ UNCHANGED <<owner, zone, futures, made>>
    BY Zenon, <1>2 DEF WithObserver, Things
  <2>2. Nested(scopes', futures, owner, s, zone)
    <3>1. SubIn(futures, Scope("observer", s)) = s /\ ~Silences(futures, Scope("observer", s))
      BY Zenon DEF SubIn, Silences, Scope
    <3>2. Nested(scopes', futures, owner, s, zone \/ Silences(futures, Scope("observer", s)))
      BY Zenon, <2>1, <3>1, Entered
    <3>3. (zone \/ Silences(futures, Scope("observer", s))) = zone
      BY Zenon, <3>1 DEF IInv, TypeOK
    <3> QED
      BY Zenon, <3>2, <3>3
  <2>3. ScopeInv' /\ scopes' \in Seq(ScopeSet)
    BY Zenon, <2>1, Entered
  <2> QED
    BY Zenon, <2>1, <2>2, <2>3 DEF IInv, TypeOK, FutureInv, FlagInv
<1>3. ASSUME NEW s \in Subs \cup {None}, WithObserverUntracked(s) PROVE IInv'
  <2>1. /\ Enter("untracked", s) /\ s \in Things /\ zone' = TRUE
        /\ observer' = [sub |-> s, untracked |-> s # None]
        /\ UNCHANGED <<owner, futures, made>>
    BY Zenon, <1>3 DEF WithObserverUntracked, Things
  <2>2. Nested(scopes', futures, owner, s, TRUE)
    <3>1. SubIn(futures, Scope("untracked", s)) = s /\ Silences(futures, Scope("untracked", s))
      BY Zenon DEF SubIn, Silences, Scope
    <3>2. Nested(scopes', futures, owner, s, zone \/ Silences(futures, Scope("untracked", s)))
      BY <2>1, <3>1, Entered
    <3>3. (zone \/ Silences(futures, Scope("untracked", s))) = TRUE
      BY Zenon, <3>1
    <3> QED
      BY Zenon, <3>2, <3>3
  <2>3. ScopeInv' /\ scopes' \in Seq(ScopeSet)
    BY Zenon, <2>1, Entered
  <2>4. FlagInv'
    <3>1. /\ Len(scopes') = Len(scopes) + 1 /\ Len(scopes) \in Nat
          /\ scopes'[Len(scopes) + 1] = Scope("untracked", s)
      BY Zenon, <2>1, Entered
    <3>2. Scope("untracked", s).kind = "untracked"
      BY Zenon DEF Scope
    <3> QED
      BY <3>1, <3>2 DEF FlagInv, IsInnermost
  <2> QED
    BY Zenon, <2>1, <2>2, <2>3, <2>4 DEF IInv, TypeOK, FutureInv
<1>4. ASSUME NEW d \in BOOLEAN, Untrack(d) PROVE IInv'
  <2> DEFINE k == IF d THEN "untrack_with_diagnostics" ELSE "untrack"
  <2>1. /\ Enter(k, None) /\ None \in Things /\ zone' = (zone \/ ~d) /\ k \in Untracks
        /\ observer' = [sub |-> None, untracked |-> FALSE]
        /\ UNCHANGED <<owner, futures, made>>
    BY Zenon, <1>4 DEF Untrack, Things
  <2>2. Nested(scopes', futures, owner, None, zone')
    <3>1. SubIn(futures, Scope(k, None)) = None /\ (Silences(futures, Scope(k, None)) <=> ~d)
      BY Zenon DEF SubIn, Silences, Scope
    <3>k. k \in Kinds /\ k \notin OwnerKinds /\ k \in Observes /\ k # "poll"
      OBVIOUS
    <3> HIDE DEF k, Kinds, OwnerKinds, Observes, Untracks
    <3>2. Nested(scopes', futures, owner, None, zone \/ Silences(futures, Scope(k, None)))
      BY Zenon, <2>1, <3>1, <3>k, Entered
    <3>3. (zone \/ Silences(futures, Scope(k, None))) = (zone \/ ~d)
      BY Zenon, <3>1
    <3> QED
      BY Zenon, <2>1, <3>2, <3>3
  <2>3. ScopeInv' /\ scopes' \in Seq(ScopeSet)
    BY Zenon, <2>1, Entered
  <2> QED
    BY Zenon, <2>1, <2>2, <2>3 DEF IInv, TypeOK, FutureInv, FlagInv
<1>5. ASSUME NEW f \in Futures, Poll(f) PROVE IInv'
  <2> DEFINE c == futures[f]
  <2>1. /\ Enter("poll", f) /\ f \in Things /\ c # None
        /\ owner' = c.owner /\ observer' = [sub |-> c.sub, untracked |-> FALSE]
        /\ zone' = (zone \/ ~c.diagnostics)
        /\ UNCHANGED <<futures, made>>
    BY Zenon, <1>5 DEF Poll, Things
  <2>2. Nested(scopes', futures, c.owner, c.sub, zone')
    <3>1. /\ OwnerIn(futures, Scope("poll", f)) = c.owner
          /\ SubIn(futures, Scope("poll", f)) = c.sub
          /\ Silences(futures, Scope("poll", f)) <=> ~c.diagnostics
      BY Zenon DEF OwnerIn, SubIn, Silences, Scope
    <3>2. Nested(scopes', futures, c.owner, c.sub, zone \/ Silences(futures, Scope("poll", f)))
      BY <2>1, <3>1, Entered
    <3>3. (zone \/ Silences(futures, Scope("poll", f))) = (zone \/ ~c.diagnostics)
      BY Zenon, <3>1
    <3> QED
      BY Zenon, <2>1, <3>2, <3>3
  <2>3. ScopeInv' /\ scopes' \in Seq(ScopeSet)
    BY Zenon, <2>1, Entered
  <2>4. c \in [owner : Owners, sub : Subs \cup {None}, diagnostics : BOOLEAN]
    BY Zenon, <2>1 DEF IInv, TypeOK
  <2> QED
    BY Zenon, <2>1, <2>2, <2>3, <2>4 DEF IInv, TypeOK, FutureInv, FlagInv
<1> QED
  BY Zenon, <1>1, <1>2, <1>3, <1>4, <1>5

(* Who reads are attributed to is whom they are meant for.                  *)
LEMMA Attributed == IInv => ReadsAttributed
<1> SUFFICES ASSUME IInv PROVE Tracking = Intended
  BY Zenon DEF ReadsAttributed
<1>1. PICK i \in 0 .. Len(scopes) :
         /\ IsInnermost(scopes, Len(scopes), Observes, i)
         /\ observer.sub = IF i = 0 THEN None ELSE SubIn(futures, scopes[i])
  BY Zenon DEF IInv, Nested, Context, SubAt
<1>2. Innermost(Observes) = i
  BY Zenon, <1>1, InnermostIs DEF IInv, TypeOK
<1>3. observer.untracked => i > 0 /\ scopes[i].kind = "untracked"
  BY <1>1 DEF IInv, FlagInv, IsInnermost
<1>4. CASE i = 0
  BY Zenon, <1>1, <1>2, <1>4 DEF Intended, Tracking
<1>5. CASE i > 0
  <2>1. i \in 1 .. Len(scopes) /\ scopes[i].kind \in Observes
    BY <1>1, <1>5 DEF IsInnermost
  <2>2. /\ scopes[i].kind = "poll" => SubIn(futures, scopes[i]) = made[scopes[i].of]
        /\ scopes[i].kind \in Untracks => SubIn(futures, scopes[i]) = None
    BY Zenon, <2>1 DEF IInv, ScopeInv, FutureInv, SubIn, Untracks
  <2>3. scopes[i].kind = "observer" => SubIn(futures, scopes[i]) = scopes[i].of
    BY Zenon DEF SubIn
  <2> QED
    BY Zenon, <1>1, <1>2, <1>3, <1>5, <2>1, <2>2, <2>3 DEF Intended, Tracking, Observes, Untracks
<1> QED
  BY <1>4, <1>5

(* The invariant holds throughout, for every value of the constants.        *)
THEOREM Invariance == Spec => []IInv
(* A thread starts in no scope.                                             *)
<1>1. Init => IInv
  <2> SUFFICES ASSUME Init PROVE IInv
    OBVIOUS
  <2>1. TypeOK
    <3>1. <<>> \in Seq(ScopeSet)
      OBVIOUS
    <3> QED
      BY Zenon, <3>1, ScopeAssumption DEF Init, TypeOK
  <2>2. ScopeInv /\ FutureInv /\ FlagInv
    BY DEF Init, ScopeInv, FutureInv, FlagInv
  <2>3. Len(scopes) = 0
    BY Zenon DEF Init
  <2>4. \A kinds : IsInnermost(scopes, 0, kinds, 0)
    BY DEF IsInnermost
  <2>5. OwnerAt(scopes, futures, 0, owner) /\ SubAt(scopes, futures, 0, observer.sub)
    BY <2>4 DEF Init, OwnerAt, SubAt
  <2>6. ZoneAt(scopes, futures, 0, zone)
    <3>1. 1 .. 0 = {}
      OBVIOUS
    <3> QED
      BY <3>1, Zenon DEF Init, ZoneAt
  <2> QED
    BY <2>1, <2>2, <2>3, <2>5, <2>6 DEF IInv, Nested, Context
(* Every step preserves the invariant.                                      *)
<1>2. IInv /\ [Next]_vars => IInv'
  <2> SUFFICES ASSUME IInv, [Next]_vars PROVE IInv'
    OBVIOUS
  <2>1. CASE UNCHANGED vars
    BY Zenon, <2>1 DEF vars, IInv, TypeOK, ScopeInv, FutureInv, FlagInv
(* A future is made with the subscriber that it is to track for, and not    *)
(* polled before that.                                                      *)
  <2>2. ASSUME NEW f \in Futures, NEW t \in BOOLEAN, NEW d \in BOOLEAN, NewFuture(f, t, d)
        PROVE  IInv'
    <3> DEFINE c == [owner |-> owner, sub |-> IF t THEN Tracking ELSE None, diagnostics |-> d]
               m == IF t THEN Tracking ELSE None
    <3>1. /\ futures[f] = None
          /\ futures' = [futures EXCEPT ![f] = c]
          /\ made' = [made EXCEPT ![f] = m]
          /\ UNCHANGED <<owner, observer, zone, scopes>>
      BY Zenon, <2>2, Attributed DEF NewFuture, ReadsAttributed
    <3>2. m \in Subs \cup {None} /\ c.sub = m
      BY Zenon DEF IInv, TypeOK, Tracking
    <3>3. c \in [owner : Owners, sub : Subs \cup {None}, diagnostics : BOOLEAN]
      BY Zenon, <3>2 DEF IInv, TypeOK
    <3> HIDE DEF c, m
    <3>4. TypeOK'
      BY Zenon, <3>1, <3>2, <3>3 DEF IInv, TypeOK
    <3>5. \A i \in 1 .. Len(scopes) : scopes[i].kind = "poll" =>
             futures'[scopes[i].of] = futures[scopes[i].of]
      BY Zenon, <3>1 DEF IInv, TypeOK, ScopeInv
    <3>6. ScopeInv'
      BY <3>1, <3>5 DEF IInv, ScopeInv
    <3>7. FutureInv'
      BY Zenon, <3>1, <3>2 DEF IInv, TypeOK, FutureInv
    <3>8. FlagInv'
      BY Zenon, <3>1 DEF IInv, FlagInv
    <3>9. \A n \in 0 .. Len(scopes) : \A o, s, z :
             Context(scopes, futures, n, o, s, z) => Context(scopes, futures', n, o, s, z)
      <4> SUFFICES ASSUME NEW n \in 0 .. Len(scopes), NEW o, NEW s, NEW z,
                          Context(scopes, futures, n, o, s, z)
                   PROVE  Context(scopes, futures', n, o, s, z)
        OBVIOUS
      <4>1. n \in Nat /\ \A i \in 1 .. n : i \in 1 .. Len(scopes)
        BY DEF IInv, TypeOK
      <4> QED
        BY Zenon, <3>5, <4>1, ContextOfPrefix
    <3>10. Nested(scopes, futures', owner, observer.sub, zone)
      <4>1. Len(scopes) \in 0 .. Len(scopes) /\ \A n \in 1 .. Len(scopes) : n - 1 \in 0 .. Len(scopes)
        BY DEF IInv, TypeOK
      <4> QED
        BY Zenon, <3>9, <4>1 DEF IInv, Nested
    <3> QED
      BY Zenon, <3>1, <3>4, <3>6, <3>7, <3>8, <3>10 DEF IInv
(* What a scope restores is right for the scopes that are left.             *)
  <2>3. CASE Leave
    <3> DEFINE e == Last(scopes)
    <3>1. scopes \in Seq(ScopeSet) /\ scopes # <<>>
      BY Zenon, <2>3 DEF Leave, IInv, TypeOK
    <3>2. /\ Nested(Front(scopes), futures, e.owner, e.sub, e.zone)
          /\ e.kind \notin Observes => e.sub = observer.sub
      BY Zenon, <3>1, Popped DEF IInv
    <3>3. /\ owner' = e.owner /\ zone' = e.zone /\ scopes' = Front(scopes)
          /\ observer' = IF e.kind = "owner" THEN observer ELSE [sub |-> e.sub, untracked |-> FALSE]
          /\ UNCHANGED <<futures, made>>
      BY Zenon, <2>3 DEF Leave
    <3>4. e \in ScopeSet /\ Len(scopes) \in Nat \ {0} /\ e = scopes[Len(scopes)]
      BY Zenon, <3>1, FrontIs
    <3>5. /\ Front(scopes) \in Seq(ScopeSet) /\ Len(Front(scopes)) = Len(scopes) - 1
          /\ \A i \in 1 .. Len(scopes) - 1 : Front(scopes)[i] = scopes[i]
      BY Zenon, <3>1, FrontIs
    <3> HIDE DEF e
    <3>6. TypeOK'
      BY Zenon, <3>3, <3>4, <3>5 DEF IInv, TypeOK, ScopeSet
    <3>7. ScopeInv'
      BY SMTT(20), <3>3, <3>4, <3>5 DEF IInv, ScopeInv
    <3>8. FutureInv'
      BY Zenon, <3>3 DEF IInv, FutureInv
    <3>9. FlagInv'
      BY <3>3, <3>4, <3>5 DEF IInv, FlagInv, IsInnermost, Observes, Untracks
    <3>10. observer'.sub = e.sub
      BY Zenon, <3>2, <3>3 DEF Observes, Untracks
    <3> QED
      BY Zenon, <3>2, <3>3, <3>6, <3>7, <3>8, <3>9, <3>10 DEF IInv
  <2> QED
    BY Zenon, <2>1, <2>2, <2>3, EnterInv DEF Next
<1> QED
  BY <1>1, <1>2, PTL DEF Spec

(* At any point of any nesting of scopes and polls the current owner, the   *)
(* Observer and the zone are those of the innermost scope that sets them.   *)
THEOREM ScopesAlwaysNest == Spec => []ScopesNest
<1>1. IInv => ScopesNest
  <2> SUFFICES ASSUME IInv PROVE ScopesNest
    OBVIOUS
  <2>1. scopes \in Seq(ScopeSet) /\ DOMAIN scopes = 1 .. Len(scopes)
    BY DEF IInv, TypeOK
  <2>2. owner = LET i == Innermost({"owner", "poll"})
                IN IF i = 0 THEN Root ELSE OwnerOf(scopes[i])
    BY Zenon, <2>1, InnermostIs
       DEF IInv, Nested, Context, OwnerAt, OwnerKinds, OwnerIn, OwnerOf
  <2>3. observer.sub = LET i == Innermost(Observes)
                       IN IF i = 0 THEN None ELSE SubOf(scopes[i])
    BY Zenon, <2>1, InnermostIs DEF IInv, Nested, Context, SubAt, SubIn, SubOf
  <2>4. zone = \E i \in DOMAIN scopes :
                  \/ scopes[i].kind \in {"untracked", "untrack"}
                  \/ scopes[i].kind = "poll" /\ ~futures[scopes[i].of].diagnostics
    BY <2>1, Zenon DEF IInv, Nested, Context, ZoneAt, Silences
  <2> QED
    BY Zenon, <2>2, <2>3, <2>4 DEF ScopesNest
<1> QED
  BY <1>1, Invariance, PTL

(* Reads are attributed to the subscriber that they are meant for, wherever *)
(* a future is polled and whatever it calls.                                *)
THEOREM ReadsAlwaysAttributed == Spec => []ReadsAttributed
<1> QED
  BY Attributed, Invariance, PTL

=============================================================================
