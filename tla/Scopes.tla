------------------------------- MODULE Scopes -------------------------------
(***************************************************************************)
(* The dynamic scopes of one thread: the current Owner, the Observer that  *)
(* reads are attributed to, the special non-reactive zone, and the         *)
(* ScopedFutures that take the first two along from the place where they   *)
(* are made to every place where they are polled.                          *)
(*                                                                         *)
(* Owners stay alive here, and the program has set a root owner at its     *)
(* start; OwnerTree is about their lives.                                  *)
(***************************************************************************)
EXTENDS Naturals, Sequences, SequencesExt, FiniteSetsExt

CONSTANTS
    Owners,
    Root,
    Subs,           \* subscribers: effects, memos, async computations
    Futures,        \* futures, each made at most once
    None,
    MaxDepth        \* bound on the scopes nested on the thread

ASSUME ScopeAssumption ==
    /\ Root \in Owners
    /\ None \notin Owners \cup Subs
    /\ MaxDepth \in Nat

VARIABLES
    owner,          \* OWNER
    observer,       \* OBSERVER: its subscriber, or None, and its untracked flag
    zone,           \* IS_SPECIAL_ZONE
    scopes,         \* the scopes entered, the outermost first
    futures,        \* what each ScopedFuture holds; None before it is made
    made            \* history: the subscriber whose code made each future, if it is to track

vars == <<owner, observer, zone, scopes, futures, made>>

Init ==
    /\ owner = Root
    /\ observer = [sub |-> None, untracked |-> FALSE]
    /\ zone = FALSE
    /\ scopes = <<>>
    /\ futures = [f \in Futures |-> None]
    /\ made = [f \in Futures |-> None]

(* Observer::get *)
Tracking == IF observer.untracked THEN None ELSE observer.sub

(* A scope: its kind, what it sets, and what to restore when it ends.  The  *)
(* guard of an observer keeps the previous subscriber and not its flag.     *)
Scope(kind, x) ==
    [kind |-> kind, of |-> x, sub |-> observer.sub, owner |-> owner, zone |-> zone]

Enter(kind, x) ==
    /\ Len(scopes) < MaxDepth
    /\ scopes' = Append(scopes, Scope(kind, x))

-----------------------------------------------------------------------------
WithOwner(o) ==
    /\ Enter("owner", o)
    /\ owner' = o
    /\ UNCHANGED <<observer, zone, futures, made>>

WithObserver(s) ==
    /\ Enter("observer", s)
    /\ observer' = [sub |-> s, untracked |-> FALSE]
    /\ UNCHANGED <<owner, zone, futures, made>>

WithObserverUntracked(s) ==
    /\ Enter("untracked", s)
    /\ observer' = [sub |-> s, untracked |-> s # None]
    /\ zone' = TRUE
    /\ UNCHANGED <<owner, futures, made>>

(* untrack, and untrack_with_diagnostics, which does not enter the zone     *)
Untrack(diagnostics) ==
    /\ Enter(IF diagnostics THEN "untrack_with_diagnostics" ELSE "untrack", None)
    /\ observer' = [sub |-> None, untracked |-> FALSE]
    /\ zone' = (zone \/ ~diagnostics)
    /\ UNCHANGED <<owner, futures, made>>

(* The innermost scope of some kinds, as an index; 0 if there is none       *)
Innermost(kinds) == Max({i \in DOMAIN scopes : scopes[i].kind \in kinds} \cup {0})

Untracks == {"untrack", "untrack_with_diagnostics"}
Observes == {"observer", "untracked", "poll"} \cup Untracks

(* The subscriber that the code running now is to track for: the one of the *)
(* scope it runs in, or of the maker of the future it belongs to.           *)
Intended ==
    LET i == Innermost(Observes)
    IN IF i = 0 \/ scopes[i].kind \in Untracks THEN None
       ELSE CASE scopes[i].kind = "poll" -> made[scopes[i].of]
              [] scopes[i].kind = "observer" -> scopes[i].of
              [] OTHER -> Tracking

(* The three constructors of ScopedFuture                                   *)
NewFutureTracked(f, tracked, diagnostics) ==
    /\ futures[f] = None
    /\ tracked => diagnostics
    /\ futures' = [futures EXCEPT ![f] =
          [owner |-> owner, sub |-> Tracking, diagnostics |-> diagnostics]]
    /\ made' = [made EXCEPT ![f] = IF tracked THEN Intended ELSE None]
    /\ UNCHANGED <<owner, observer, zone, scopes>>

NewFuture(f, tracked, diagnostics) ==
    /\ futures[f] = None
    /\ tracked => diagnostics
    /\ futures' = [futures EXCEPT ![f] =
          [owner |-> owner, sub |-> IF tracked THEN Tracking ELSE None,
           diagnostics |-> diagnostics]]
    /\ made' = [made EXCEPT ![f] = IF tracked THEN Intended ELSE None]
    /\ UNCHANGED <<owner, observer, zone, scopes>>

(* A future is polled anywhere, also by another future, but not by itself.  *)
Polled(f) == \E i \in DOMAIN scopes : scopes[i].kind = "poll" /\ scopes[i].of = f

Poll(f) ==
    /\ futures[f] # None /\ ~Polled(f)
    /\ Enter("poll", f)
    /\ owner' = futures[f].owner
    /\ observer' = [sub |-> futures[f].sub, untracked |-> FALSE]
    /\ zone' = (zone \/ ~futures[f].diagnostics)
    /\ UNCHANGED <<futures, made>>

(* The innermost scope ends, normally.                                      *)
LeaveCleared ==
    /\ scopes # <<>>
    /\ LET s == Last(scopes)
       IN /\ owner' = s.owner
          /\ observer' = IF s.kind = "owner" THEN observer
                         ELSE [sub |-> None, untracked |-> FALSE]
          /\ zone' = s.zone
    /\ scopes' = Front(scopes)
    /\ UNCHANGED <<futures, made>>

Leave ==
    /\ scopes # <<>>
    /\ LET s == Last(scopes)
       IN /\ owner' = s.owner
          /\ observer' = IF s.kind = "owner" THEN observer
                         ELSE [sub |-> s.sub, untracked |-> FALSE]
          /\ zone' = s.zone
    /\ scopes' = Front(scopes)
    /\ UNCHANGED <<futures, made>>

Next ==
    \/ \E o \in Owners : WithOwner(o)
    \/ \E s \in Subs \cup {None} : WithObserver(s) \/ WithObserverUntracked(s)
    \/ \E d \in BOOLEAN : Untrack(d)
    \/ \E f \in Futures : Poll(f) \/ \E t, d \in BOOLEAN : NewFuture(f, t, d)
    \/ Leave

Spec == Init /\ [][Next]_vars

-----------------------------------------------------------------------------
(* What a scope sets, its future's context if it is the poll of a future    *)
OwnerOf(s) == IF s.kind = "poll" THEN futures[s.of].owner ELSE s.of
SubOf(s) == IF s.kind = "poll" THEN futures[s.of].sub ELSE s.of

(* At any point of any nesting of scopes and polls, also after an inner     *)
(* scope has ended, the current owner and the Observer (what Observer::is   *)
(* compares) are the ones of the innermost scope that sets them, and        *)
(* warnings are off exactly inside a scope that turns them off.             *)
ScopesNest ==
    /\ LET i == Innermost({"owner", "poll"})
       IN owner = IF i = 0 THEN Root ELSE OwnerOf(scopes[i])
    /\ LET i == Innermost(Observes)
       IN observer.sub = IF i = 0 THEN None ELSE SubOf(scopes[i])
    /\ zone = \E i \in DOMAIN scopes :
                 \/ scopes[i].kind \in {"untracked", "untrack"}
                 \/ scopes[i].kind = "poll" /\ ~futures[scopes[i].of].diagnostics

(* The code of a future tracks for the subscriber it was made under and for *)
(* no other, wherever it is polled and whatever it calls, and for nobody if *)
(* it was made by new_untracked or inside untrack; other code tracks for    *)
(* the scope it is in.                                                      *)
ReadsAttributed == Tracking = Intended

(* "Runs the given function with this subscriber as the thread-local        *)
(* Observer, but without tracking dependencies": with_observer_untracked.   *)
UntrackedDoesNotTrack ==
    LET i == Innermost(Observes)
    IN i # 0 /\ scopes[i].kind = "untracked" => Tracking = None

=============================================================================
