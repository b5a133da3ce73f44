------------------------ MODULE StaticRoutesProofs --------------------------
(***************************************************************************)
(* Theorems about StaticRoutes, for any numbers of pages, requests and     *)
(* tasks, any capacity and any bounds: responses, headers and regeneration *)
(* loops are right in every interleaving, with failures and crashes.       *)
(*                                                                         *)
(* IInv is inductive: the steps of requests and those of build tasks       *)
(* preserve it, with what recording a render does to the retained headers  *)
(* and what renaming a file does to the requests.                          *)
(***************************************************************************)
EXTENDS StaticRoutes, TLAPS

(* Each part of the invariant is about some of the variables, and a step    *)
(* that leaves those alone preserves it.                                    *)
LEMMA Frame ==
    /\ TaskInv /\ UNCHANGED <<pc, path, render, looping, lock>> => TaskInv'
    /\ KeptInv /\ UNCHANGED <<disk, kept, intact, lock, path, render>> => KeptInv'
    /\ ReqInv /\ UNCHANGED <<disk, intact, rpc, rpath, body, tries, renames, calm>> => ReqInv'
    /\ BodyWithItsHeaders /\ UNCHANGED <<rpc, body, headers>> => BodyWithItsHeaders'
    /\ HeadersUnlessOutrun /\ UNCHANGED <<rpc, headers, renames, calm>> => HeadersUnlessOutrun'
    /\ OneLoopPerPath /\ UNCHANGED <<regenerating, looping>>
          /\ (\A t \in looping : path'[t] = path[t]) => OneLoopPerPath'
    /\ WaitersHaveABuilder /\ UNCHANGED <<pc, path, looping, lock, rpc, rpath, builder>>
          => WaitersHaveABuilder'
<1>1. TaskInv /\ UNCHANGED <<pc, path, render, looping, lock>> => TaskInv'
  BY Zenon DEF TaskInv
<1>2. KeptInv /\ UNCHANGED <<disk, kept, intact, lock, path, render>> => KeptInv'
  BY Zenon DEF KeptInv, Publishing
<1>3. ReqInv /\ UNCHANGED <<disk, intact, rpc, rpath, body, tries, renames, calm>> => ReqInv'
  BY Zenon DEF ReqInv
<1>4. BodyWithItsHeaders /\ UNCHANGED <<rpc, body, headers>> => BodyWithItsHeaders'
  BY Zenon DEF BodyWithItsHeaders
<1>5. HeadersUnlessOutrun /\ UNCHANGED <<rpc, headers, renames, calm>> => HeadersUnlessOutrun'
  BY Zenon DEF HeadersUnlessOutrun
<1>6. OneLoopPerPath /\ UNCHANGED <<regenerating, looping>>
         /\ (\A t \in looping : path'[t] = path[t]) => OneLoopPerPath'
  BY Zenon DEF OneLoopPerPath
<1>7. WaitersHaveABuilder /\ UNCHANGED <<pc, path, looping, lock, rpc, rpath, builder>>
         => WaitersHaveABuilder'
  BY Zenon DEF WaitersHaveABuilder
<1> QED
  BY Zenon, <1>1, <1>2, <1>3, <1>4, <1>5, <1>6, <1>7

(* The file on disk is among the renders whose headers are retained: it is  *)
(* the newest or, between a record and its rename, the one before it.       *)
LEMMA KeptOnDisk == IInv => OnDiskIsKept
<1> SUFFICES ASSUME IInv, NEW p \in intact
             PROVE  \E i \in DOMAIN kept[p] : kept[p][i] = disk[p]
  BY Zenon DEF OnDiskIsKept
<1>1. p \in Paths /\ kept[p] \in Seq(1 .. MaxRenders)
  BY Zenon DEF IInv, TypeOK
<1>2. \E i \in 1 .. Len(kept[p]) : kept[p][i] = disk[p]
  BY <1>1 DEF IInv, KeptInv
<1> QED
  BY <1>1, <1>2

(* Headers that are kept are found.                                         *)
LEMMA KeptIsFound == ASSUME IInv, NEW p \in intact PROVE Matches(p, disk[p]) # {}
<1>1. \E i \in DOMAIN kept[p] : kept[p][i] = disk[p]
  BY Zenon, KeptOnDisk DEF OnDiskIsKept
<1> QED
  BY Zenon, <1>1 DEF Matches

(* The steps of a request that is already being handled preserve the        *)
(* invariant.                                                               *)
LEMMA RequestInv ==
    ASSUME IInv, NEW r \in Requests, RequestStep(r)
    PROVE  IInv'
<1> USE StaticAssumption DEF IInv, Building, Nothing, files, tasks, requests
(* A hit answers with headers kept for a file with the identity of the one  *)
(* that was opened.                                                         *)
<1>1. ASSUME Hit(r) PROVE IInv'
  <2>0. PICK h \in 1 .. MaxRenders : /\ FileId[h] = FileId[body[r]]
                                     /\ Lookup(r) /\ Answer(r, h)
    <3>1. PICK i \in Matches(rpath[r], body[r]) : Lookup(r) /\ Answer(r, kept[rpath[r]][i])
      BY Zenon, <1>1 DEF Hit
    <3>2. rpath[r] \in Paths
      BY Zenon, <3>1 DEF Lookup, ReqInv
    <3>3. kept[rpath[r]] \in Seq(1 .. MaxRenders)
      BY Zenon, <3>2 DEF TypeOK
    <3>4. i \in DOMAIN kept[rpath[r]] /\ FileId[kept[rpath[r]][i]] = FileId[body[r]]
      BY Zenon, <3>1 DEF Matches
    <3>5. kept[rpath[r]][i] \in 1 .. MaxRenders
      BY <3>3, <3>4
    <3> QED
      BY Zenon, <3>1, <3>4, <3>5
  <2> USE <2>0 DEF Lookup, Answer
  <2>1. TypeOK'
    <3>1. h \in 0 .. MaxRenders
      OBVIOUS
    <3> QED
      BY <3>1, ZenonT(30) DEF TypeOK
  <2>2. (TaskInv /\ KeptInv /\ OneLoopPerPath)'
    BY Zenon, Frame
  <2>3. ReqInv'
    BY Zenon DEF TypeOK, ReqInv
  <2>4. BodyWithItsHeaders'
    BY DEF TypeOK, ReqInv, BodyWithItsHeaders
  <2>5. HeadersUnlessOutrun'
    BY DEF TypeOK, ReqInv, HeadersUnlessOutrun
  <2>6. WaitersHaveABuilder'
    BY DEF TypeOK, TaskInv, WaitersHaveABuilder
  <2> QED
    BY Zenon, <2>1, <2>2, <2>3, <2>4, <2>5, <2>6
(* A miss on a page that is intact means that it was replaced meanwhile.    *)
<1>2. ASSUME Miss(r) PROVE IInv'
  <2> USE <1>2 DEF Miss, Lookup
  <2>1. TypeOK'
    BY ZenonT(30) DEF TypeOK, ReqInv
  <2>2. (TaskInv /\ KeptInv /\ OneLoopPerPath)'
    BY Zenon, Frame
  <2>3. ReqInv'
    <3>1. rpath[r] \in intact => body[r] # disk[rpath[r]]
      BY Zenon, KeptIsFound
    <3>2. r \in calm => renames[r] > tries[r]
      BY Zenon, <3>1 DEF ReqInv
    <3>3. \A q \in Requests : rpc'[q] = IF q = r THEN "missed" ELSE rpc[q]
      BY Zenon DEF TypeOK
    <3> QED
      BY <3>2, <3>3 DEF ReqInv
  <2>4. BodyWithItsHeaders'
    BY Zenon DEF TypeOK, ReqInv, BodyWithItsHeaders
  <2>5. HeadersUnlessOutrun'
    BY Zenon DEF TypeOK, HeadersUnlessOutrun
  <2>6. WaitersHaveABuilder'
    BY DEF TypeOK, TaskInv, WaitersHaveABuilder
  <2> QED
    BY Zenon, <2>1, <2>2, <2>3, <2>4, <2>5, <2>6
(* The last attempt is lost only to as many replacements as there were      *)
(* attempts.                                                                *)
<1>3. ASSUME GiveUp(r) PROVE IInv'
  <2> USE <1>3 DEF GiveUp, Lookup, Answer
  <2>1. TypeOK'
    <3>1. 0 \in 0 .. MaxRenders
      OBVIOUS
    <3> QED
      BY <3>1, ZenonT(30) DEF TypeOK
  <2>2. (TaskInv /\ KeptInv /\ OneLoopPerPath)'
    BY Zenon, Frame
  <2>3. ReqInv'
    BY Zenon DEF TypeOK, ReqInv
  <2>4. BodyWithItsHeaders'
    BY DEF TypeOK, ReqInv, BodyWithItsHeaders
  <2>5. HeadersUnlessOutrun'
    <3>1. rpath[r] \in intact => body[r] # disk[rpath[r]]
      BY Zenon, KeptIsFound
    <3>2. r \in calm => renames[r] > ReopenAttempts
      BY Zenon, <3>1 DEF TypeOK, ReqInv
    <3> QED
      BY Zenon, <3>2 DEF TypeOK, HeadersUnlessOutrun
  <2>6. WaitersHaveABuilder'
    BY DEF TypeOK, TaskInv, WaitersHaveABuilder
  <2> QED
    BY Zenon, <2>1, <2>2, <2>3, <2>4, <2>5, <2>6
(* A path that is not cached is not intact.                                 *)
<1>4. ASSUME Uncached(r) PROVE IInv'
  <2> USE <1>4 DEF Uncached, Answer
  <2>1. TypeOK'
    <3>1. 0 \in 0 .. MaxRenders
      OBVIOUS
    <3> QED
      BY <3>1, ZenonT(30) DEF TypeOK
  <2>2. (TaskInv /\ KeptInv /\ OneLoopPerPath)'
    BY Zenon, Frame
  <2>3. ReqInv'
    BY Zenon DEF TypeOK, ReqInv
  <2>4. BodyWithItsHeaders'
    BY DEF TypeOK, ReqInv, BodyWithItsHeaders
  <2>5. HeadersUnlessOutrun'
    <3>1. OnDiskIsKept
      BY Zenon, KeptOnDisk
    <3>2. rpath[r] \notin intact
      BY <3>1 DEF OnDiskIsKept
    <3>3. r \notin calm
      BY Zenon, <3>2 DEF ReqInv
    <3> QED
      BY Zenon, <3>3 DEF TypeOK, HeadersUnlessOutrun
  <2>6. WaitersHaveABuilder'
    BY DEF TypeOK, TaskInv, WaitersHaveABuilder
  <2> QED
    BY Zenon, <2>1, <2>2, <2>3, <2>4, <2>5, <2>6
(* The file is going to be opened again.                                    *)
<1>5. ASSUME Cached(r) PROVE IInv'
  <2> USE <1>5 DEF Cached
  <2>1. TypeOK'
    BY ZenonT(30) DEF TypeOK
  <2>2. (TaskInv /\ KeptInv /\ OneLoopPerPath)'
    BY Zenon, Frame
  <2>3. ReqInv'
    <3>1. \A q \in Requests : rpc'[q] = IF q = r THEN "reopen" ELSE rpc[q]
      BY Zenon DEF TypeOK
    <3> QED
      BY <3>1 DEF ReqInv
  <2>4. BodyWithItsHeaders'
    BY Zenon DEF TypeOK, ReqInv, BodyWithItsHeaders
  <2>5. HeadersUnlessOutrun'
    BY Zenon DEF TypeOK, HeadersUnlessOutrun
  <2>6. WaitersHaveABuilder'
    BY DEF TypeOK, TaskInv, WaitersHaveABuilder
  <2> QED
    BY Zenon, <2>1, <2>2, <2>3, <2>4, <2>5, <2>6
(* What is opened again is the file that is there now.                      *)
<1>6. ASSUME Reopen(r) PROVE IInv'
  <2> USE <1>6 DEF Reopen
  <2>1. TypeOK'
    <3>1. disk[rpath[r]] \in 0 .. MaxRenders /\ tries[r] + 1 \in 0 .. ReopenAttempts
      BY DEF TypeOK, ReqInv
    <3> QED
      BY <3>1, ZenonT(30) DEF TypeOK
  <2>2. (TaskInv /\ KeptInv /\ OneLoopPerPath)'
    BY Zenon, Frame
  <2>3. ReqInv'
    <3>1. \A q \in Requests : q # r =>
             rpc'[q] = rpc[q] /\ body'[q] = body[q] /\ tries'[q] = tries[q]
      BY Zenon DEF TypeOK
    <3>2. rpc'[r] = "get" /\ body'[r] = disk[rpath[r]] /\ tries'[r] = tries[r] + 1
      BY Zenon DEF TypeOK
    <3>3. tries[r] \in Nat /\ renames[r] \in Nat
      BY DEF TypeOK
    <3> QED
      BY <3>1, <3>2, <3>3 DEF ReqInv
  <2>4. BodyWithItsHeaders'
    BY Zenon DEF TypeOK, ReqInv, BodyWithItsHeaders
  <2>5. HeadersUnlessOutrun'
    BY Zenon DEF TypeOK, HeadersUnlessOutrun
  <2>6. WaitersHaveABuilder'
    BY DEF TypeOK, TaskInv, WaitersHaveABuilder
  <2> QED
    BY Zenon, <2>1, <2>2, <2>3, <2>4, <2>5, <2>6
(* A request that leaves takes its state with it.                           *)
<1>7. ASSUME Leave(r) PROVE IInv'
  <2> USE <1>7 DEF Leave
  <2>1. TypeOK'
    <3>1. 0 \in 0 .. MaxRenders /\ 0 \in 0 .. ReopenAttempts /\ 0 \in 0 .. ReopenAttempts + 1
      OBVIOUS
    <3> QED
      BY <3>1, ZenonT(30) DEF TypeOK
  <2>2. (TaskInv /\ KeptInv /\ OneLoopPerPath)'
    BY Zenon, Frame
  <2>3. ReqInv'
    BY Zenon DEF TypeOK, ReqInv
  <2>4. BodyWithItsHeaders'
    BY Zenon DEF TypeOK, ReqInv, BodyWithItsHeaders
  <2>5. HeadersUnlessOutrun'
    BY Zenon DEF TypeOK, HeadersUnlessOutrun
  <2>6. WaitersHaveABuilder'
    BY DEF TypeOK, TaskInv, WaitersHaveABuilder
  <2> QED
    BY Zenon, <2>1, <2>2, <2>3, <2>4, <2>5, <2>6
<1> QED
  BY Zenon, <1>1, <1>2, <1>3, <1>4, <1>5, <1>6, <1>7 DEF RequestStep

(* So do the arrival of a request, a prerender and a crash.                 *)
LEMMA ArrivalInv ==
    ASSUME IInv, \/ \E r \in Requests, p \in Paths : Open(r, p)
                 \/ \E r \in Requests, p \in Paths, t \in Tasks : OpenMissing(r, p, t)
                 \/ \E t \in Tasks, p \in Paths : Generate(t, p)
                 \/ Crash
    PROVE  IInv'
<1> USE StaticAssumption DEF IInv, Building, Nothing, files, tasks, requests
(* The file that is opened is whole, and counted from is whether it is      *)
(* intact.                                                                  *)
<1>1. ASSUME NEW r \in Requests, NEW p \in Paths, Open(r, p) PROVE IInv'
  <2> USE <1>1 DEF Open
  <2>1. TypeOK'
    BY ZenonT(30) DEF TypeOK
  <2>2. (TaskInv /\ KeptInv /\ OneLoopPerPath)'
    BY Zenon, Frame
  <2>3. ReqInv'
    BY SMTT(20) DEF TypeOK, ReqInv
  <2>4. BodyWithItsHeaders'
    BY Zenon DEF TypeOK, ReqInv, BodyWithItsHeaders
  <2>5. HeadersUnlessOutrun'
    BY DEF TypeOK, HeadersUnlessOutrun
  <2>6. WaitersHaveABuilder'
    BY DEF TypeOK, TaskInv, WaitersHaveABuilder
  <2> QED
    BY Zenon, <2>1, <2>2, <2>3, <2>4, <2>5, <2>6
(* The task that is started is the builder of the request.                  *)
<1>2. ASSUME NEW r \in Requests, NEW p \in Paths, NEW t \in Tasks, OpenMissing(r, p, t) PROVE IInv'
  <2> USE <1>2 DEF OpenMissing, Build
  <2>1. TypeOK'
    <3>1. renders + 1 \in 0 .. MaxRenders
      BY DEF TypeOK
    <3> QED
      BY <3>1, ZenonT(30) DEF TypeOK
  <2>2. TaskInv'
    BY DEF TypeOK, TaskInv
  <2>3. KeptInv'
    <3>1. lock # t
      BY Zenon DEF TaskInv
    <3>2. lock # None => path'[lock] = path[lock] /\ render'[lock] = render[lock]
      BY Zenon, <3>1 DEF TypeOK
    <3> QED
      BY <3>2 DEF Publishing, KeptInv
  <2>4. ReqInv'
    <3>1. \A q \in Requests : q # r => rpc'[q] = rpc[q] /\ rpath'[q] = rpath[q]
      BY Zenon DEF TypeOK
    <3>2. rpc'[r] = "await" /\ r \notin calm
      BY Zenon DEF TypeOK, ReqInv
    <3>3. UNCHANGED <<disk, intact, body, tries, renames, calm>>
      OBVIOUS
    <3> HIDE <1>2 DEF OpenMissing, Build
    <3> QED
      BY Zenon, <3>1, <3>2, <3>3 DEF ReqInv
  <2>5. BodyWithItsHeaders'
    BY Zenon DEF TypeOK, ReqInv, BodyWithItsHeaders
  <2>6. HeadersUnlessOutrun'
    BY Zenon DEF TypeOK, HeadersUnlessOutrun
  <2>7. OneLoopPerPath'
    <3>1. t \notin looping
      BY Zenon DEF TaskInv
    <3>2. \A u \in looping : path'[u] = path[u]
      BY Zenon, <3>1 DEF TypeOK
    <3>3. looping' = looping /\ regenerating' = regenerating
      OBVIOUS
    <3> QED
      BY Zenon, <3>2, <3>3, Frame
  <2>8. WaitersHaveABuilder'
    <3>1. t \notin looping /\ lock # t
      BY Zenon DEF TaskInv
    <3>2. \A q \in Requests : rpc[q] = "await" => builder[q] # t
      BY Zenon DEF WaitersHaveABuilder
    <3>3. /\ pc'[t] = "render" /\ path'[t] = p
          /\ \A u \in Tasks : u # t => pc'[u] = pc[u] /\ path'[u] = path[u]
      BY Zenon DEF TypeOK
    <3>4. /\ rpath'[r] = p /\ builder'[r] = t
          /\ \A q \in Requests : q # r => rpc'[q] = rpc[q] /\ rpath'[q] = rpath[q]
                                          /\ builder'[q] = builder[q]
      BY Zenon DEF TypeOK
    <3>5. looping' = looping /\ lock' = lock /\ lock \in Tasks \cup {None}
      BY Zenon DEF TypeOK
    <3> HIDE <1>2 DEF OpenMissing, Build
    <3> DEFINE HasBuilder(q) == /\ builder'[q] \in Tasks \ looping' /\ pc'[builder'[q]] \in Building
                                /\ path'[builder'[q]] = rpath'[q]
    <3>6. HasBuilder(r)
      BY Zenon, <3>1, <3>3, <3>4, <3>5
    <3>7. \A q \in Requests : q # r /\ rpc'[q] = "await" => HasBuilder(q)
      BY <3>2, <3>3, <3>4, <3>5 DEF WaitersHaveABuilder
    <3>8. lock' # None => pc'[lock'] = "rename"
      BY Zenon, <3>1, <3>3, <3>5 DEF WaitersHaveABuilder
    <3> QED
      BY Zenon, <3>6, <3>7, <3>8 DEF WaitersHaveABuilder
  <2> QED
    BY Zenon, <2>1, <2>2, <2>3, <2>4, <2>5, <2>6, <2>7, <2>8
(* A prerender is a build that nobody waits for.                            *)
<1>3. ASSUME NEW t \in Tasks, NEW p \in Paths, Generate(t, p) PROVE IInv'
  <2> USE <1>3 DEF Generate, Build
  <2>1. TypeOK'
    <3>1. renders + 1 \in 0 .. MaxRenders
      BY DEF TypeOK
    <3> QED
      BY <3>1, ZenonT(30) DEF TypeOK
  <2>2. TaskInv'
    BY DEF TypeOK, TaskInv
  <2>3. KeptInv'
    BY Zenon DEF TypeOK, TaskInv, Publishing, KeptInv
  <2>4. (ReqInv /\ BodyWithItsHeaders /\ HeadersUnlessOutrun)'
    BY Zenon, Frame
  <2>5. OneLoopPerPath'
    <3>1. t \notin looping
      BY ZenonT(30) DEF TaskInv
    <3>2. \A u \in looping : path'[u] = path[u]
      BY Zenon, <3>1 DEF TypeOK
    <3>3. looping' = looping /\ regenerating' = regenerating
      OBVIOUS
    <3> QED
      BY Zenon, <3>2, <3>3, Frame
  <2>6. WaitersHaveABuilder'
    <3>1. lock # t
      BY Zenon DEF TaskInv
    <3>2. \A q \in Requests : rpc[q] = "await" => builder[q] # t
      BY Zenon DEF WaitersHaveABuilder
    <3>3. \A u \in Tasks : u # t => pc'[u] = pc[u] /\ path'[u] = path[u]
      BY Zenon DEF TypeOK
    <3>4. UNCHANGED <<looping, lock, rpc, rpath, builder>> /\ lock \in Tasks \cup {None}
      BY Zenon DEF TypeOK
    <3> HIDE <1>3 DEF Generate, Build
    <3> QED
      BY Zenon, <3>1, <3>2, <3>3, <3>4 DEF WaitersHaveABuilder
  <2> QED
    BY Zenon, <2>1, <2>2, <2>3, <2>4, <2>5, <2>6
(* Nothing but whole files survives, and none of them is taken for intact.  *)
<1>4. ASSUME Crash PROVE IInv'
  <2> USE <1>4 DEF Crash
  <2>1. TypeOK'
    BY DEF TypeOK
  <2>2. TaskInv'
    BY Zenon DEF TaskInv
  <2>3. KeptInv'
    BY Zenon DEF Publishing, KeptInv
  <2>4. ReqInv'
    BY Zenon DEF ReqInv
  <2>5. BodyWithItsHeaders'
    BY Zenon DEF BodyWithItsHeaders
  <2>6. HeadersUnlessOutrun'
    BY Zenon DEF HeadersUnlessOutrun
  <2>7. OneLoopPerPath'
    BY Zenon DEF OneLoopPerPath
  <2>8. WaitersHaveABuilder'
    BY Zenon DEF WaitersHaveABuilder
  <2> QED
    BY Zenon, <2>1, <2>2, <2>3, <2>4, <2>5, <2>6, <2>7, <2>8
<1> QED
  BY Zenon, <1>1, <1>2, <1>3, <1>4

(* The sequence u ends with e, and before it with the last element of s.    *)
Grown(u, s, e) ==
    /\ Len(u) > 0 /\ u[Len(u)] = e
    /\ Len(s) > 0 => Len(u) > 1 /\ u[Len(u) - 1] = s[Len(s)]

(* record: the render recorded is the newest one kept, and as two or more   *)
(* are kept the one that was the newest is still there.                     *)
LEMMA LatestAppend ==
    ASSUME NEW S, NEW s \in Seq(S), NEW e \in S
    PROVE  Latest(Append(s, e)) \in Seq(S) /\ Grown(Latest(Append(s, e)), s, e)
<1> DEFINE a == Append(s, e)
<1>1. a \in Seq(S) /\ Len(a) = Len(s) + 1 /\ a[Len(a)] = e
  OBVIOUS
<1>2. Len(s) > 0 => a[Len(s)] = s[Len(s)]
  OBVIOUS
<1>3. Len(s) \in Nat
  OBVIOUS
<1> HIDE DEF a
<1>4. CASE Len(a) > Generations
  <2>1. Len(s) > 1
    BY <1>1, <1>3, <1>4, StaticAssumption
  <2>2. Tail(a) \in Seq(S) /\ Len(Tail(a)) = Len(s)
    BY <1>1, <1>3, <2>1
  <2>3. \A i \in 1 .. Len(s) : Tail(a)[i] = a[i + 1]
    BY <1>1, <1>3, <2>1, <2>2
  <2>4. Tail(a)[Len(s)] = e /\ Tail(a)[Len(s) - 1] = s[Len(s)]
    BY <1>1, <1>2, <1>3, <2>1, <2>3
  <2>5. Latest(a) = Tail(a)
    BY Zenon, <1>4 DEF Latest
  <2> QED
    BY <1>3, <2>1, <2>2, <2>4, <2>5 DEF a, Grown
<1>5. CASE ~(Len(a) > Generations)
  <2>1. Latest(a) = a
    BY Zenon, <1>5 DEF Latest
  <2> QED
    BY <1>1, <1>2, <1>3, <2>1 DEF a, Grown
<1> QED
  BY Zenon, <1>4, <1>5

(* publish, up to the rename: the headers recorded are the newest, those of *)
(* the file on disk are kept, and no other path that is intact is touched.  *)
LEMMA PublishKept ==
    ASSUME TypeOK, TaskInv, KeptInv, NEW t \in Tasks, Publish(t)
    PROVE  kept' \in [Paths -> Seq(1 .. MaxRenders)] /\ KeptInv'
<1> DEFINE p == path[t]
           u == Latest(Append(kept[p], render[t]))
<1>1. p \in Paths /\ render[t] \in 1 .. MaxRenders /\ kept[p] \in Seq(1 .. MaxRenders)
  BY DEF TypeOK, TaskInv, Building, Publish
<1>2. /\ lock = None /\ lock' = t /\ path' = path /\ render' = render /\ disk' = disk
      /\ intact' = intact \ Evicted(p)
  BY Zenon DEF Publish, Goes, Disturb
<1>3. kept' = [q \in Paths |-> IF q = p THEN u ELSE IF q \in Evicted(p) THEN <<>> ELSE kept[q]]
  BY Zenon DEF Publish, Record
<1>4. u \in Seq(1 .. MaxRenders) /\ Grown(u, kept[p], render[t])
  BY <1>1, LatestAppend, Zenon
<1> HIDE DEF u, p
<1>5. \A q \in Paths : kept'[q] \in Seq(1 .. MaxRenders)
  <2>1. \A q \in Paths : kept'[q] \in {u, <<>>, kept[q]}
    BY Zenon, <1>3
  <2>2. <<>> \in Seq(1 .. MaxRenders)
    OBVIOUS
  <2> QED
    BY <1>4, <2>1, <2>2, ZenonT(30) DEF TypeOK
<1>6. p \in intact => Len(kept[p]) > 0 /\ kept[p][Len(kept[p])] = disk[p]
  BY Zenon, <1>1, <1>2 DEF KeptInv, Publishing
<1>7. kept'[p] = u
  BY Zenon, <1>1, <1>3
<1>8. t # None
  BY Zenon, StaticAssumption
<1>9. \A q \in Paths : Publishing(q)' <=> q = p
  BY Zenon, <1>2, <1>8 DEF Publishing, p
<1>10. ASSUME NEW q \in intact', q # p
      PROVE  Len(kept'[q]) > 0 /\ kept'[q][Len(kept'[q])] = disk[q]
  BY Zenon, <1>2, <1>3, <1>10 DEF TypeOK, KeptInv, Publishing
<1>11. KeptInv'
  BY Zenon, <1>2, <1>4, <1>6, <1>7, <1>9, <1>10 DEF KeptInv, Grown
<1> QED
  BY Zenon, <1>3, <1>5, <1>11

(* commit: every request for the page finds that it has been replaced.      *)
LEMMA RenameReq ==
    ASSUME TypeOK, TaskInv, ReqInv, NEW t \in Tasks, Rename(t)
    PROVE  ReqInv'
<1>1. path[t] \in Paths /\ render[t] \in 1 .. MaxRenders
  BY DEF TypeOK, TaskInv, Building, Rename
<1>2. disk' = [disk EXCEPT ![path[t]] = render[t]] /\ intact' = intact \cup {path[t]}
  BY Zenon DEF Rename
<1>3. UNCHANGED <<rpc, rpath, body, tries, calm>>
  BY Zenon DEF Rename
<1>4. \A r \in Requests : rpath[r] # path[t] => renames'[r] = renames[r]
  BY Zenon DEF Rename
<1>5. \A r \in Requests : rpath[r] = path[t] =>
         renames'[r] >= renames[r] /\ (renames[r] >= tries[r] => renames'[r] > tries[r])
  BY StaticAssumption DEF Rename, TypeOK
<1>6. \A r \in Requests : rpc[r] = "idle" => rpath[r] # path[t]
  BY Zenon, <1>1, StaticAssumption DEF ReqInv
<1>7. \A p \in Paths : disk[p] > 0 => disk'[p] > 0
  BY <1>1, <1>2 DEF TypeOK
<1>8. \A p \in Paths : p # path[t] => disk'[p] = disk[p]
  BY Zenon, <1>2 DEF TypeOK
<1>9. \A r \in Requests : tries[r] \in Nat /\ renames[r] \in Nat /\ renames'[r] \in Nat
  BY StaticAssumption DEF TypeOK, Rename
<1> SUFFICES ASSUME NEW r \in Requests PROVE ReqInv!(r)'
  BY Zenon DEF ReqInv
<1>10. CASE rpath[r] = path[t]
  <2>1. rpc[r] # "idle" /\ (rpath[r] \in Paths /\ disk[rpath[r]] > 0 => disk'[rpath[r]] > 0)
    BY Zenon, <1>6, <1>7, <1>10
  <2>2. r \in calm /\ rpc[r] \in {"get", "missed", "reopen"} =>
           renames'[r] > tries[r] /\ renames'[r] >= tries[r]
    BY <1>5, <1>9, <1>10 DEF ReqInv
  <2>3. ReqInv!(r)
    BY Zenon DEF ReqInv
  <2>4. rpath[r] \in intact'
    BY Zenon, <1>2, <1>10
  <2> QED
    BY Zenon, <1>3, <2>1, <2>2, <2>3, <2>4
<1>11. CASE rpath[r] # path[t]
  BY Zenon, <1>2, <1>3, <1>4, <1>7, <1>8, <1>11 DEF ReqInv
<1> QED
  BY Zenon, <1>10, <1>11

(* The steps of a build task preserve the invariant.                        *)
LEMMA TaskStepInv ==
    ASSUME IInv, NEW t \in Tasks, TaskStep(t)
    PROVE  IInv'
<1> USE StaticAssumption DEF IInv, Building, Nothing, files, tasks, requests
(* Whoever waits for t finds it building, outside its loop.                 *)
<1>a. \A r \in Requests : rpc[r] = "await" /\ builder[r] = t =>
         t \notin looping /\ pc[t] \in Building
  BY Zenon DEF WaitersHaveABuilder
<1>b. pc[t] \in Building => path[t] \in Paths /\ render[t] \in 1 .. MaxRenders
  BY DEF TypeOK, TaskInv
<1>c. /\ pc \in [Tasks -> Building \cup {"idle", "enlist", "wait"}]
      /\ path \in [Tasks -> Paths \cup {None}] /\ render \in [Tasks -> 0 .. MaxRenders]
      /\ looping \subseteq Tasks /\ renders \in 0 .. MaxRenders /\ lock \in Tasks \cup {None}
  BY Zenon DEF TypeOK
<1>d. rpc \in [Requests -> {"idle", "await", "get", "missed", "reopen", "done"}]
  BY Zenon DEF TypeOK
<1>e. 0 \in 0 .. MaxRenders
  OBVIOUS
<1>f. ASSUME TypeOK', TaskInv', UNCHANGED <<rpath, builder>>,
             \A u \in Tasks : u # t => /\ pc'[u] = pc[u] /\ path'[u] = path[u]
                                       /\ u \in looping' => u \in looping,
             \A r \in Requests : rpc'[r] = "await" =>
                /\ rpc[r] = "await"
                /\ builder[r] = t => t \notin looping' /\ pc'[t] \in Building /\ path'[t] = path[t]
      PROVE  WaitersHaveABuilder'
  <2>1. lock' # None => pc'[lock'] = "rename"
    BY Zenon, <1>f DEF TypeOK, TaskInv
  <2>2. ASSUME NEW r \in Requests, rpc'[r] = "await"
        PROVE  /\ builder'[r] \in Tasks \ looping' /\ pc'[builder'[r]] \in Building
               /\ path'[builder'[r]] = rpath'[r]
    <3>1. builder[r] \in Tasks \ looping /\ pc[builder[r]] \in Building /\ path[builder[r]] = rpath[r]
      BY Zenon, <1>f, <2>2 DEF WaitersHaveABuilder
    <3> QED
      BY Zenon, <1>f, <2>2, <3>1
  <2> QED
    BY Zenon, <2>1, <2>2 DEF WaitersHaveABuilder
(* Rendering touches nothing that is shared.                                *)
<1>1. ASSUME Render(t) PROVE IInv'
  <2> USE <1>1 DEF Render, Goes
  <2>1. TypeOK'
    BY ZenonT(30) DEF TypeOK
  <2>2. TaskInv'
    BY Zenon, <1>c DEF TaskInv
  <2>3. (KeptInv /\ ReqInv /\ BodyWithItsHeaders /\ HeadersUnlessOutrun /\ OneLoopPerPath)'
    BY Zenon, Frame
  <2>4. WaitersHaveABuilder'
    BY Zenon, <1>a, <1>f, <1>c, <1>d, <2>1, <2>2
  <2> QED
    BY Zenon, <2>1, <2>2, <2>3, <2>4
(* A first build that fails answers its request before it ends.             *)
<1>2. ASSUME FirstError(t) PROVE IInv'
  <2> USE <1>2 DEF FirstError, Ends, Send
  <2>1. TypeOK'
    <3>2. pc' \in [Tasks -> Building \cup {"idle", "enlist", "wait"}] /\ path' \in [Tasks -> Paths \cup {None}]
          /\ render' \in [Tasks -> 0 .. MaxRenders]
      BY <1>e, ZenonT(30) DEF TypeOK
    <3>3. rpc' \in [Requests -> {"idle", "await", "get", "missed", "reopen", "done"}]
      BY Zenon DEF TypeOK
    <3>4. body' \in [Requests -> 0 .. MaxRenders] /\ headers' \in [Requests -> 0 .. MaxRenders]
      BY Zenon DEF TypeOK
    <3> QED
      BY Zenon, <3>2, <3>3, <3>4 DEF TypeOK
  <2>2. TaskInv'
    BY Zenon, <1>c DEF TaskInv
  <2>3. KeptInv'
    BY Zenon, <1>c DEF TaskInv, Publishing, KeptInv
  <2>4. ReqInv'
    BY Zenon DEF TypeOK, ReqInv
  <2>5. BodyWithItsHeaders'
    <3>1. render[t] \in 1 .. MaxRenders
      BY Zenon, <1>b
    <3> QED
      BY Zenon, <3>1 DEF TypeOK, BodyWithItsHeaders
  <2>6. HeadersUnlessOutrun'
    <3>1. \A r \in calm : rpc[r] # "await"
      BY Zenon DEF TypeOK, ReqInv
    <3> QED
      BY Zenon, <3>1 DEF TypeOK, HeadersUnlessOutrun
  <2>7. OneLoopPerPath'
    <3>1. t \notin looping
      BY Zenon DEF TaskInv
    <3>2. \A u \in looping : path'[u] = path[u]
      BY Zenon, <1>c, <3>1
    <3>3. looping' = looping /\ regenerating' = regenerating
      OBVIOUS
    <3> QED
      BY Zenon, <3>2, <3>3, Frame
  <2>8. WaitersHaveABuilder'
    BY Zenon, <1>a, <1>f, <1>c, <1>d, <2>1, <2>2
  <2> QED
    BY Zenon, <2>1, <2>2, <2>3, <2>4, <2>5, <2>6, <2>7, <2>8
(* A failing regeneration leaves page and headers as they are.              *)
<1>3. ASSUME LaterError(t) PROVE IInv'
  <2> USE <1>3 DEF LaterError, Waits
  <2>1. TypeOK'
    BY <1>e, ZenonT(30) DEF TypeOK
  <2>2. TaskInv'
    BY Zenon, <1>c DEF TaskInv
  <2>3. KeptInv'
    BY Zenon, <1>c DEF TaskInv, Publishing, KeptInv
  <2>4. (ReqInv /\ BodyWithItsHeaders /\ HeadersUnlessOutrun /\ OneLoopPerPath)'
    BY Zenon, Frame
  <2>5. WaitersHaveABuilder'
    BY Zenon, <1>a, <1>f, <1>c, <1>d, <2>1, <2>2
  <2> QED
    BY Zenon, <2>1, <2>2, <2>3, <2>4, <2>5
(* A complete temporary file is not yet the page.                           *)
<1>4. ASSUME Staged(t) PROVE IInv'
  <2> USE <1>4 DEF Staged, Goes
  <2>1. TypeOK'
    BY ZenonT(30) DEF TypeOK
  <2>2. TaskInv'
    BY Zenon, <1>c DEF TaskInv
  <2>3. (KeptInv /\ ReqInv /\ BodyWithItsHeaders /\ HeadersUnlessOutrun /\ OneLoopPerPath)'
    BY Zenon, Frame
  <2>4. WaitersHaveABuilder'
    BY Zenon, <1>a, <1>f, <1>c, <1>d, <2>1, <2>2
  <2> QED
    BY Zenon, <2>1, <2>2, <2>3, <2>4
(* Nor is one that could not be written.                                    *)
<1>5. ASSUME StageFails(t) PROVE IInv'
  <2> USE <1>5 DEF StageFails, Goes
  <2>1. TypeOK'
    BY ZenonT(30) DEF TypeOK
  <2>2. TaskInv'
    BY Zenon, <1>c DEF TaskInv
  <2>3. (KeptInv /\ ReqInv /\ BodyWithItsHeaders /\ HeadersUnlessOutrun /\ OneLoopPerPath)'
    BY Zenon, Frame
  <2>4. WaitersHaveABuilder'
    BY Zenon, <1>a, <1>f, <1>c, <1>d, <2>1, <2>2
  <2> QED
    BY Zenon, <2>1, <2>2, <2>3, <2>4
(* Record comes before rename, under the lock.                              *)
<1>6. ASSUME Publish(t) PROVE IInv'
  <2> USE <1>6 DEF Publish, Goes, Record, Disturb
  <2>1. TypeOK'
    BY PublishKept, ZenonT(30) DEF TypeOK
  <2>2. TaskInv'
    BY Zenon, <1>c DEF TaskInv
  <2>3. KeptInv'
    BY PublishKept, ZenonT(30)
  <2>4. ReqInv'
    BY Zenon DEF TypeOK, ReqInv
  <2>5. (BodyWithItsHeaders /\ OneLoopPerPath)'
    BY Zenon, Frame
  <2>6. HeadersUnlessOutrun'
    BY Zenon DEF TypeOK, HeadersUnlessOutrun
  <2>7. WaitersHaveABuilder'
    BY Zenon, <1>a, <1>f, <1>c, <1>d, <2>1, <2>2
  <2> QED
    BY Zenon, <2>1, <2>2, <2>3, <2>4, <2>5, <2>6, <2>7
(* The page is the render that was recorded last.                           *)
<1>7. ASSUME Rename(t) PROVE IInv'
  <2> USE <1>7 DEF Rename, Goes
  <2>1. TypeOK'
    <3>1. path[t] \in Paths /\ render[t] \in 1 .. MaxRenders
      BY Zenon, <1>b
    <3>2. renames' \in [Requests -> 0 .. ReopenAttempts + 1]
      BY DEF TypeOK
    <3>3. render[t] \in 0 .. MaxRenders
      BY Zenon DEF TypeOK
    <3> QED
      BY <3>1, <3>2, <3>3, ZenonT(30) DEF TypeOK
  <2>2. TaskInv'
    BY Zenon, <1>c DEF TaskInv
  <2>3. KeptInv'
    <3>1. lock = t /\ lock' = None /\ kept' = kept /\ intact' = intact \cup {path[t]}
      BY Zenon DEF TaskInv
    <3>2. \A p \in Paths : disk'[p] = IF p = path[t] THEN render[t] ELSE disk[p]
      BY Zenon DEF TypeOK
    <3> HIDE <1>7
    <3> QED
      BY Zenon, <3>1, <3>2 DEF Publishing, KeptInv
  <2>4. ReqInv'
    BY RenameReq, ZenonT(30)
  <2>5. (BodyWithItsHeaders /\ OneLoopPerPath)'
    BY Zenon, Frame
  <2>6. HeadersUnlessOutrun'
    BY DEF TypeOK, HeadersUnlessOutrun
  <2>7. WaitersHaveABuilder'
    BY Zenon, <1>a, <1>f, <1>c, <1>d, <2>1, <2>2
  <2> QED
    BY Zenon, <2>1, <2>2, <2>3, <2>4, <2>5, <2>6, <2>7
(* The page is as it was, and no longer known to be intact.                 *)
<1>8. ASSUME RenameFails(t) PROVE IInv'
  <2> USE <1>8 DEF RenameFails, Goes, Disturb
  <2>1. TypeOK'
    BY ZenonT(30) DEF TypeOK
  <2>2. TaskInv'
    BY Zenon, <1>c DEF TaskInv
  <2>3. KeptInv'
    BY Zenon, <1>c DEF TaskInv, Publishing, KeptInv
  <2>4. ReqInv'
    BY Zenon DEF TypeOK, ReqInv
  <2>5. (BodyWithItsHeaders /\ OneLoopPerPath)'
    BY Zenon, Frame
  <2>6. HeadersUnlessOutrun'
    BY Zenon DEF TypeOK, HeadersUnlessOutrun
  <2>7. WaitersHaveABuilder'
    BY Zenon, <1>a, <1>f, <1>c, <1>d, <2>1, <2>2
  <2> QED
    BY Zenon, <2>1, <2>2, <2>3, <2>4, <2>5, <2>6, <2>7
(* A first build answers its request with the page and headers of one       *)
(* render.                                                                  *)
<1>9. ASSUME FirstWritten(t) PROVE IInv'
  <2> USE <1>9 DEF FirstWritten, Goes, Send
  <2>1. TypeOK'
    BY Zenon DEF TypeOK
  <2>2. TaskInv'
    BY Zenon, <1>c DEF TaskInv
  <2>3. (KeptInv /\ OneLoopPerPath)'
    BY Zenon, Frame
  <2>4. ReqInv'
    BY Zenon DEF TypeOK, ReqInv
  <2>5. BodyWithItsHeaders'
    <3>1. render[t] \in 1 .. MaxRenders
      BY Zenon, <1>b
    <3> QED
      BY Zenon, <3>1 DEF TypeOK, BodyWithItsHeaders
  <2>6. HeadersUnlessOutrun'
    <3>1. \A r \in calm : rpc[r] # "await"
      BY Zenon DEF TypeOK, ReqInv
    <3> QED
      BY Zenon, <3>1 DEF TypeOK, HeadersUnlessOutrun
  <2>7. WaitersHaveABuilder'
    BY Zenon, <1>a, <1>f, <1>c, <1>d, <2>1, <2>2
  <2> QED
    BY Zenon, <2>1, <2>2, <2>3, <2>4, <2>5, <2>6, <2>7
(* A regenerated page goes back to waiting.                                 *)
<1>10. ASSUME LaterWritten(t) PROVE IInv'
  <2> USE <1>10 DEF LaterWritten, Waits
  <2>1. TypeOK'
    BY <1>e, ZenonT(30) DEF TypeOK
  <2>2. TaskInv'
    BY Zenon, <1>c DEF TaskInv
  <2>3. KeptInv'
    BY Zenon, <1>c DEF TaskInv, Publishing, KeptInv
  <2>4. (ReqInv /\ BodyWithItsHeaders /\ HeadersUnlessOutrun /\ OneLoopPerPath)'
    BY Zenon, Frame
  <2>5. WaitersHaveABuilder'
    BY Zenon, <1>a, <1>f, <1>c, <1>d, <2>1, <2>2
  <2> QED
    BY Zenon, <2>1, <2>2, <2>3, <2>4, <2>5
(* The path was not regenerated by anyone else.                             *)
<1>11. ASSUME Enlist(t) PROVE IInv'
  <2> USE <1>11 DEF Enlist, Waits
  <2>1. TypeOK'
    <3>1. path[t] \in Paths
      BY Zenon DEF TaskInv
    <3> QED
      BY <1>e, <3>1, ZenonT(30) DEF TypeOK
  <2>2. TaskInv'
    BY Zenon, <1>c DEF TaskInv
  <2>3. KeptInv'
    BY Zenon, <1>c DEF TaskInv, Publishing, KeptInv
  <2>4. (ReqInv /\ BodyWithItsHeaders /\ HeadersUnlessOutrun)'
    BY Zenon, Frame
  <2>5. OneLoopPerPath'
    BY <1>c DEF TaskInv, OneLoopPerPath
  <2>6. WaitersHaveABuilder'
    BY Zenon, <1>a, <1>f, <1>c, <1>d, <2>1, <2>2
  <2> QED
    BY Zenon, <2>1, <2>2, <2>3, <2>4, <2>5, <2>6
(* The loop is left to the task that has it.                                *)
<1>12. ASSUME AlreadyEnlisted(t) PROVE IInv'
  <2> USE <1>12 DEF AlreadyEnlisted, Ends
  <2>1. TypeOK'
    BY <1>e, ZenonT(30) DEF TypeOK
  <2>2. TaskInv'
    BY Zenon, <1>c DEF TaskInv
  <2>3. KeptInv'
    BY Zenon, <1>c DEF TaskInv, Publishing, KeptInv
  <2>4. (ReqInv /\ BodyWithItsHeaders /\ HeadersUnlessOutrun)'
    BY Zenon, Frame
  <2>5. OneLoopPerPath'
    <3>1. t \notin looping
      BY Zenon DEF TaskInv
    <3>2. \A u \in looping : path'[u] = path[u]
      BY Zenon, <1>c, <3>1
    <3>3. looping' = looping /\ regenerating' = regenerating
      OBVIOUS
    <3> QED
      BY Zenon, <3>2, <3>3, Frame
  <2>6. WaitersHaveABuilder'
    BY Zenon, <1>a, <1>f, <1>c, <1>d, <2>1, <2>2
  <2> QED
    BY Zenon, <2>1, <2>2, <2>3, <2>4, <2>5, <2>6
(* A loop renders again.                                                    *)
<1>13. ASSUME Tick(t) PROVE IInv'
  <2> USE <1>13 DEF Tick
  <2>1. TypeOK'
    <3>1. renders + 1 \in 0 .. MaxRenders
      BY DEF TypeOK
    <3> QED
      BY <3>1, ZenonT(30) DEF TypeOK
  <2>2. TaskInv'
    <3>1. renders + 1 > 0 /\ t \in looping /\ path[t] \in Paths /\ lock # t
      BY <1>c DEF TaskInv
    <3>2. pc'[t] = "render" /\ render'[t] = renders + 1
      BY Zenon, <1>c
    <3>3. \A u \in Tasks : u # t => pc'[u] = pc[u] /\ render'[u] = render[u]
      BY Zenon, <1>c
    <3> QED
      BY Zenon, <3>1, <3>2, <3>3 DEF TaskInv
  <2>3. KeptInv'
    BY Zenon, <1>c DEF TaskInv, Publishing, KeptInv
  <2>4. (ReqInv /\ BodyWithItsHeaders /\ HeadersUnlessOutrun /\ OneLoopPerPath)'
    BY Zenon, Frame
  <2>5. WaitersHaveABuilder'
    BY Zenon, <1>a, <1>f, <1>c, <1>d, <2>1, <2>2
  <2> QED
    BY Zenon, <2>1, <2>2, <2>3, <2>4, <2>5
(* The end of a loop frees its path.                                        *)
<1>14. ASSUME EndStream(t) PROVE IInv'
  <2> USE <1>14 DEF EndStream, Ends
  <2>1. TypeOK'
    BY <1>e, ZenonT(30) DEF TypeOK
  <2>2. TaskInv'
    BY Zenon, <1>c DEF TaskInv
  <2>3. KeptInv'
    BY Zenon, <1>c DEF TaskInv, Publishing, KeptInv
  <2>4. (ReqInv /\ BodyWithItsHeaders /\ HeadersUnlessOutrun)'
    BY Zenon, Frame
  <2>5. OneLoopPerPath'
    <3>1. t \in looping /\ looping' = looping \ {t} /\ regenerating' = regenerating \ {path[t]}
      BY Zenon DEF TaskInv
    <3>2. \A u \in looping' : path'[u] = path[u]
      BY Zenon, <1>c
    <3> HIDE <1>14
    <3> QED
      BY <3>1, <3>2 DEF OneLoopPerPath
  <2>6. WaitersHaveABuilder'
    BY Zenon, <1>a, <1>f, <1>c, <1>d, <2>1, <2>2
  <2> QED
    BY Zenon, <2>1, <2>2, <2>3, <2>4, <2>5, <2>6
<1> QED
  BY Zenon, <1>1, <1>2, <1>3, <1>4, <1>5, <1>6, <1>7, <1>8, <1>9, <1>10, <1>11, <1>12, <1>13, <1>14 DEF TaskStep

(* The invariant holds throughout, for every value of the constants.        *)
THEOREM Invariance == Spec => []IInv
(* The server starts with no files, an empty cache and nothing to do.       *)
<1>1. Init => IInv
  <2> SUFFICES ASSUME Init PROVE IInv
    OBVIOUS
  <2> USE StaticAssumption DEF Init, Nothing, Building
  <2>1. TypeOK
    BY DEF TypeOK
  <2>2. TaskInv /\ KeptInv /\ ReqInv
    BY Zenon DEF TaskInv, KeptInv, ReqInv, Publishing
  <2>3. BodyWithItsHeaders /\ HeadersUnlessOutrun /\ OneLoopPerPath /\ WaitersHaveABuilder
    BY Zenon DEF BodyWithItsHeaders, HeadersUnlessOutrun, OneLoopPerPath, WaitersHaveABuilder
  <2> QED
    BY Zenon, <2>1, <2>2, <2>3 DEF IInv
(* Every step of a request, of a build task and of a crash preserves the    *)
(* invariant.                                                               *)
<1>2. IInv /\ [Next]_vars => IInv'
  <2> SUFFICES ASSUME IInv, [Next]_vars PROVE IInv'
    OBVIOUS
  <2>1. CASE UNCHANGED vars
    <3>1. TypeOK'
      BY Zenon, <2>1 DEF IInv, vars, files, tasks, requests, TypeOK
    <3> QED
      BY Zenon, <2>1, <3>1, Frame DEF IInv, vars, files, tasks, requests
  <2> QED
    BY Zenon, <2>1, RequestInv, ArrivalInv, TaskStepInv DEF Next
<1> QED
  BY <1>1, <1>2, PTL DEF Spec

(* A response is a whole page, and never carries the headers of a render    *)
(* whose file can be told from its own.                                     *)
THEOREM ResponsesPaired == Spec => []BodyWithItsHeaders
<1>1. IInv => BodyWithItsHeaders
  BY Zenon DEF IInv
<1> QED
  BY <1>1, Invariance, PTL

(* Where the identity of a file is exact, as with inodes, a response never  *)
(* carries the headers of another render.                                   *)
THEOREM HeadersExact == Exact => (Spec => []OwnHeaders)
<1> SUFFICES ASSUME Exact PROVE Spec => []OwnHeaders
  OBVIOUS
<1>1. IInv => OwnHeaders
  <2> SUFFICES ASSUME IInv, NEW r \in Requests, rpc[r] = "done", headers[r] # Nothing
               PROVE  headers[r] = body[r]
    BY Zenon DEF OwnHeaders
  <2>1. body[r] \in 1 .. MaxRenders /\ FileId[headers[r]] = FileId[body[r]]
    BY Zenon DEF IInv, BodyWithItsHeaders
  <2>2. headers[r] \in 0 .. MaxRenders
    BY Zenon DEF IInv, TypeOK
  <2>3. headers[r] \in DOMAIN FileId /\ body[r] \in DOMAIN FileId
    BY StaticAssumption, <2>1, <2>2 DEF Nothing
  <2> QED
    BY Zenon, <2>1, <2>3 DEF Exact
<1> QED
  BY <1>1, Invariance, PTL

(* publish keeps the file on disk among the retained renders.               *)
THEOREM DiskKept == Spec => []OnDiskIsKept
<1> QED
  BY KeptOnDisk, Invariance, PTL

(* An undisturbed hit comes without headers only when it is outrun.         *)
THEOREM HitsHaveHeaders == Spec => []HeadersUnlessOutrun
<1>1. IInv => HeadersUnlessOutrun
  BY Zenon DEF IInv
<1> QED
  BY <1>1, Invariance, PTL

(* A page has at most one regeneration loop, and REGENERATING_PATHS says    *)
(* whether it has one.                                                      *)
THEOREM OneLoop == Spec => []OneLoopPerPath
<1>1. IInv => OneLoopPerPath
  BY Zenon DEF IInv
<1> QED
  BY <1>1, Invariance, PTL

(* A waiting request has a build that will answer it.                       *)
THEOREM NoWaiterForgotten == Spec => []WaitersHaveABuilder
<1>1. IInv => WaitersHaveABuilder
  BY Zenon DEF IInv
<1> QED
  BY <1>1, Invariance, PTL

=============================================================================
