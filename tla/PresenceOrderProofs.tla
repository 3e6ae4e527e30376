-------------------------- MODULE PresenceOrderProofs --------------------------
(***************************************************************************)
(* Pages end up with what the account has cached, proved for any tabs,     *)
(* contacts, devices and bounds: broadcasts that overlap stay in line, and *)
(* so the last frame that reaches a page is the last one sent.             *)
(***************************************************************************)
EXTENDS PresenceProofs

Attached == Tabs \ Dead

(* Broadcasts under way visit the same tabs in the same order, each has    *)
(* the tabs behind its place to do, and none overtakes an earlier one.     *)
Placed(k) == /\ k.order \in Orders
             /\ k.number < sent
             /\ k.at \in Attached
             /\ k.rest = {u \in Attached : k.order[k.at] < k.order[u]}
Ordered(k, e) == /\ k.order = e.order
                 /\ k.number = e.number => k = e
                 /\ k.number < e.number => k.order[e.at] <= k.order[k.at]
InLine == /\ \A k \in casts : Placed(k)
          /\ \A k, e \in casts : Ordered(k, e)

(* The latest broadcast about a contact carries what is cached.            *)
IsAbout(k, c) == k.frame.type = "presence" /\ k.frame.jid = c
LatestIsCached ==
  \A k \in casts, c \in Contacts :
    IsAbout(k, c) /\ (\A e \in casts : IsAbout(e, c) => e.number <= k.number)
      => k.frame.show = presence[c]

(* A page with nothing about a contact on its way shows what is cached,    *)
(* unless the replay has yet to send it.                                   *)
PagesCurrent ==
  \A t \in Tabs \ doubt, c \in Known :
    /\ pc[t] \in {"replaying", "on"}
    /\ c \notin rest[t]
    /\ \A k \in casts : IsAbout(k, c) => t \notin k.rest
    => page[t][c] = presence[c]

ReplayOnly == \A t \in Tabs : pc[t] # "replaying" => rest[t] = {}

OrderInv == /\ Subscribed
            /\ ReplayOnly
            /\ doubt # Tabs => InLine /\ LatestIsCached
            /\ PagesCurrent

-----------------------------------------------------------------------------
(* Broadcasts in line.                                                     *)

LEMMA CastTypes ==
  ASSUME TypeOK, NEW k \in casts, Placed(k)
  PROVE  /\ k.number \in Nat /\ k.frame \in Frames
         /\ k.at \in Tabs /\ k.rest \in SUBSET Attached
         /\ k.order \in Numberings
         /\ \A u \in Tabs : k.order[u] \in Nat
         /\ \A u, v \in Tabs : k.order[u] = k.order[v] => u = v
<1>1. k \in Casts /\ k.order \in Orders
  BY DEF TypeOK, Placed
<1>2. k.order \in Numberings
  BY <1>1 DEF Orders, Numberings
<1> QED
  BY <1>1, <1>2 DEF Casts, Orders, Numberings, Placed, Attached

LEMMA CastFields ==
  ASSUME NEW n, NEW f, NEW o, NEW t, NEW ts
  PROVE  /\ Cast(n, f, o, t, ts).number = n
         /\ Cast(n, f, o, t, ts).frame = f
         /\ Cast(n, f, o, t, ts).order = o
         /\ Cast(n, f, o, t, ts).at = t
         /\ Cast(n, f, o, t, ts).rest = ts
BY DEF Cast

(* A broadcast that is at the last tab and may go on is the oldest.        *)
LEMMA LastIsOldest ==
  ASSUME TypeOK, InLine, NEW k \in casts, MayGoOn(k), k.rest = {}, NEW e \in casts
  PROVE  k.number <= e.number
<1>1. Placed(k) /\ Placed(e) /\ Ordered(e, k)
  BY DEF InLine
<1>2. k.number \in Nat /\ e.number \in Nat
  BY <1>1, CastTypes
<1>3. e.at \in Attached /\ ~(k.order[k.at] < k.order[e.at])
  BY <1>1 DEF Placed
<1>4. /\ k.order[k.at] \in Nat /\ k.order[e.at] \in Nat
      /\ k.order[k.at] = k.order[e.at] => k.at = e.at
  BY <1>1, <1>3, CastTypes DEF Attached
<1>5. CASE e.number < k.number
  <2>1. k.order[k.at] <= k.order[e.at]
    BY <1>1, <1>5 DEF Ordered
  <2>2. e.at = k.at
    BY <1>3, <1>4, <2>1
  <2> QED
    BY <1>2, <1>5, <2>2 DEF MayGoOn
<1> QED
  BY <1>2, <1>5

(* A new broadcast takes its place behind the others.                      *)
LEMMA NewInLine ==
  ASSUME TypeOK, Subscribed, InLine, NEW f \in Frames, NEW o \in Orders,
         \A k \in casts : k.order = o,
         Stretch(sent, f, subs, o, casts), sent' = sent + 1, pc' = pc
  PROVE  InLine'
<1>1. subs \ Dead = Attached /\ Attached' = Attached
  BY DEF Subscribed, Attached, Dead, TypeOK
<1>2. sent \in Nat
  BY DEF TypeOK
<1>3. \A k \in casts : k.number \in Nat /\ k.number < sent
  BY CastTypes DEF InLine, Placed
<1>4. \A k \in casts : Placed(k)'
  BY <1>1, <1>2, <1>3 DEF InLine, Placed
<1>5. CASE casts' = casts
  BY <1>4, <1>5 DEF InLine, Ordered
<1>6. CASE \E t \in Attached : /\ \A u \in Attached : o[t] <= o[u]
                               /\ casts' = casts \cup {Cast(sent, f, o, t, Attached \ {t})}
  <2>1. PICK t \in Attached : /\ \A u \in Attached : o[t] <= o[u]
                              /\ casts' = casts \cup {Cast(sent, f, o, t, Attached \ {t})}
    BY <1>6
  <2>0. PICK n : n = Cast(sent, f, o, t, Attached \ {t})
    OBVIOUS
  <2>2. n.number = sent /\ n.order = o /\ n.at = t /\ n.rest = Attached \ {t}
    BY <2>0, CastFields
  <2>3. \A u, v \in Tabs : o[u] \in Nat /\ (o[u] = o[v] => u = v)
    BY DEF Orders
  <2>4. casts' = casts \cup {n}
    BY <2>0, <2>1
  <2>5. Attached \ {t} = {u \in Attached : o[t] < o[u]}
    BY <2>1, <2>3 DEF Attached
  <2>6. Placed(n)'
    BY <1>1, <1>2, <2>2, <2>5 DEF Placed
  <2>7. ASSUME NEW k \in casts PROVE Ordered(k, n) /\ Ordered(n, k)
    <3>1. k.at \in Attached /\ k.number < sent /\ k.number \in Nat /\ k.order = o
      BY <1>3 DEF InLine, Placed
    <3> QED
      BY <1>2, <2>1, <2>2, <3>1 DEF Ordered
  <2>8. Ordered(n, n)
    BY <1>2, <2>2 DEF Ordered
  <2> QED
    BY <1>4, <2>4, <2>6, <2>7, <2>8 DEF InLine, Ordered
<1> QED
  BY <1>1, <1>5, <1>6 DEF Stretch

(* A broadcast that goes on overtakes none of the earlier ones.            *)
LEMMA NextInLine ==
  ASSUME TypeOK, InLine, NEW k \in casts, BroadcastNext(k),
         Stretch(k.number, k.frame, k.rest, k.order, casts \ {k})
  PROVE  InLine'
<1>1. Placed(k) /\ MayGoOn(k) /\ pc' = pc /\ Attached' = Attached
  BY DEF InLine, BroadcastNext, tabVars, Attached, Dead
<1>2. /\ k.number \in Nat /\ k.at \in Tabs /\ k.rest \in SUBSET Attached
      /\ \A u, v \in Tabs : k.order[u] \in Nat /\ (k.order[u] = k.order[v] => u = v)
  BY <1>1, CastTypes
<1>3. k.rest \ Dead = k.rest
  BY <1>2 DEF Attached
<1>4. casts' # {} => sent' = sent
  BY DEF BroadcastNext
<1>5. \A e \in casts : casts' # {} => Placed(e)'
  BY <1>1, <1>4 DEF InLine, Placed
<1>6. CASE casts' = casts \ {k}
  BY <1>5, <1>6 DEF InLine, Ordered
<1>7. CASE \E t \in k.rest :
             /\ \A u \in k.rest : k.order[t] <= k.order[u]
             /\ casts' = (casts \ {k})
                           \cup {Cast(k.number, k.frame, k.order, t, k.rest \ {t})}
  <2>1. PICK t \in k.rest :
             /\ \A u \in k.rest : k.order[t] <= k.order[u]
             /\ casts' = (casts \ {k})
                           \cup {Cast(k.number, k.frame, k.order, t, k.rest \ {t})}
    BY <1>7
  <2> DEFINE n == Cast(k.number, k.frame, k.order, t, k.rest \ {t})
  <2>2. n.number = k.number /\ n.order = k.order /\ n.at = t /\ n.rest = k.rest \ {t}
    BY CastFields
  <2>3. casts' = (casts \ {k}) \cup {n}
    BY <2>1
  <2> HIDE DEF n
  <2>4. t \in Attached /\ k.order[k.at] < k.order[t]
    BY <1>1 DEF Placed
  <2>5. k.rest \ {t} = {u \in Attached : k.order[t] < k.order[u]}
    <3>1. ASSUME NEW u \in Attached, k.order[t] < k.order[u] PROVE u \in k.rest \ {t}
      BY <1>1, <1>2, <2>4, <3>1 DEF Placed, Attached
    <3>2. ASSUME NEW u \in k.rest \ {t} PROVE u \in Attached /\ k.order[t] < k.order[u]
      BY <1>2, <2>1, <2>4 DEF Attached
    <3> QED
      BY <3>1, <3>2
  <2>6. Placed(n)'
    BY <1>1, <1>4, <2>2, <2>3, <2>4, <2>5 DEF Placed
  <2>7. ASSUME NEW e \in casts \ {k} PROVE Ordered(e, n) /\ Ordered(n, e)
    <3>1. Placed(e) /\ Ordered(e, k) /\ Ordered(k, e)
      BY DEF InLine
    <3>2. e.number \in Nat /\ e.at \in Attached /\ e.order = k.order /\ e.number # k.number
      BY <3>1, CastTypes DEF Placed, Ordered
    <3>3. CASE e.number < k.number
      <4>1. k.order[k.at] <= k.order[e.at] /\ k.at # e.at
        BY <1>1, <1>2, <3>1, <3>2, <3>3 DEF Ordered, MayGoOn
      <4>2. e.at \in k.rest
        BY <1>1, <1>2, <3>2, <4>1 DEF Placed, Attached
      <4> QED
        BY <1>2, <2>1, <2>2, <3>2, <3>3, <4>2 DEF Ordered
    <3>4. CASE k.number < e.number
      <4>1. k.order[e.at] <= k.order[k.at]
        BY <3>1, <3>2, <3>4 DEF Ordered
      <4>2. k.order[e.at] <= k.order[t]
        BY <1>2, <2>4, <3>2, <4>1 DEF Attached
      <4> QED
        BY <1>2, <2>2, <3>2, <3>4, <4>2 DEF Ordered
    <3> QED
      BY <1>2, <3>2, <3>3, <3>4
  <2>8. Ordered(n, n)
    BY <1>2, <2>2 DEF Ordered
  <2> QED
    BY <1>5, <2>3, <2>6, <2>7, <2>8 DEF InLine, Ordered
<1> QED
  BY <1>3, <1>6, <1>7 DEF Stretch

-----------------------------------------------------------------------------
(* What the pages show.                                                    *)

(* A frame changes what a page shows of a contact only if it is about it,  *)
(* or if the page did not know the contact.                                *)
LEMMA FrameOfAnother ==
  ASSUME NEW p \in [Contacts -> CacheShow], NEW f \in Frames, NEW c \in Contacts,
         p[c] # "unknown", ~(f.type = "presence" /\ f.jid = c)
  PROVE  HandleFrame(p, f)[c] = p[c]
<1>1. CASE f \in PresenceUpdate
  BY <1>1 DEF HandleFrame, PresenceUpdate
<1>2. CASE f \in RosterSnapshot
  BY <1>2 DEF HandleFrame, RosterSnapshot
<1> QED
  BY <1>1, <1>2 DEF Frames

LEMMA FrameOfThis ==
  ASSUME NEW p \in [Contacts -> CacheShow], NEW f, NEW c \in Contacts,
         f.type = "presence", f.jid = c
  PROVE  HandleFrame(p, f)[c] = f.show
BY DEF HandleFrame

(* The contact that a broadcast is about, and what the cache has of it.    *)
LEMMA NewIsCurrent ==
  ASSUME TypeOK, TypeOK', OrderInv, doubt # Tabs, NEW f \in Frames,
         NEW o \in Orders, Stretch(sent, f, subs, o, casts),
         UNCHANGED <<pc, rest, doubt>>,
         f.type = "presence" => presence' = [presence EXCEPT ![f.jid] = f.show],
         f.type = "roster" => presence' = presence
  PROVE  LatestIsCached' /\ PagesCurrent'
<1>1. f.type \in {"presence", "roster"} /\ (f.type = "presence" => f.jid \in Contacts)
  BY DEF Frames, PresenceUpdate, RosterSnapshot
<1>2. subs \ Dead = Attached
  BY DEF OrderInv, Subscribed, Attached, Dead, TypeOK
<1>4. \A k \in casts : k.number \in Nat /\ k.number < sent /\ k.at \in Attached
  BY CastTypes DEF OrderInv, InLine, Placed
<1>5. sent \in Nat
  BY DEF TypeOK
<1>6. CASE subs \subseteq Dead /\ casts' = casts /\ page' = page
  <2>1. Attached = {} /\ casts' = {}
    BY <1>2, <1>4, <1>6
  <2> QED
    BY <2>1 DEF LatestIsCached, PagesCurrent, Attached, Dead, TypeOK
<1>7. CASE \E t \in Attached : /\ casts' = casts \cup {Cast(sent, f, o, t, Attached \ {t})}
                               /\ page' = [page EXCEPT ![t] = HandleFrame(@, f)]
  <2>1. PICK t \in Attached : /\ casts' = casts \cup {Cast(sent, f, o, t, Attached \ {t})}
                              /\ page' = [page EXCEPT ![t] = HandleFrame(@, f)]
    BY <1>7
  <2>2. PICK n : n = Cast(sent, f, o, t, Attached \ {t})
    OBVIOUS
  <2>3. n.number = sent /\ n.frame = f /\ n.rest = Attached \ {t} /\ casts' = casts \cup {n}
    BY <2>1, <2>2, CastFields
  <2>4. LatestIsCached'
    <3> SUFFICES ASSUME NEW k \in casts', NEW c \in Contacts, IsAbout(k, c),
                        \A e \in casts' : IsAbout(e, c) => e.number <= k.number
                 PROVE  k.frame.show = presence'[c]
      BY DEF LatestIsCached, IsAbout
    <3>1. CASE k = n
      BY <1>1, <2>3, <3>1 DEF IsAbout, TypeOK
    <3>2. CASE k \in casts /\ IsAbout(n, c)
      BY <1>4, <1>5, <2>3, <3>2
    <3>3. CASE k \in casts /\ ~IsAbout(n, c)
      <4>1. presence'[c] = presence[c]
        BY <1>1, <2>3, <3>3 DEF IsAbout, TypeOK
      <4> QED
        BY <2>3, <3>3, <4>1 DEF OrderInv, LatestIsCached
    <3> QED
      BY <2>3, <3>1, <3>2, <3>3
  <2>5. PagesCurrent'
    <3> SUFFICES ASSUME NEW u \in Tabs \ doubt, NEW c \in Contacts, presence'[c] # "unknown",
                        pc[u] \in {"replaying", "on"}, c \notin rest[u],
                        \A k \in casts' : IsAbout(k, c) => u \notin k.rest
                 PROVE  page'[u][c] = presence'[c]
      BY DEF PagesCurrent, Known, IsAbout
    <3>0. u \in Attached /\ page[u] \in [Contacts -> CacheShow]
      BY DEF Attached, Dead, TypeOK
    <3>1. CASE IsAbout(n, c)
      <4>1. u = t
        BY <2>3, <3>0, <3>1
      <4>2. page'[u] = HandleFrame(page[u], f)
        BY <2>1, <4>1 DEF TypeOK
      <4>3. f.type = "presence" /\ f.jid = c
        BY <2>3, <3>1 DEF IsAbout
      <4>4. HandleFrame(page[u], f)[c] = f.show
        BY <3>0, <4>3, FrameOfThis
      <4>5. presence'[c] = f.show
        BY <4>3 DEF TypeOK
      <4> QED
        BY <4>2, <4>4, <4>5
    <3>2. CASE ~IsAbout(n, c)
      <4>1. presence'[c] = presence[c] /\ ~(f.type = "presence" /\ f.jid = c)
        BY <1>1, <2>3, <3>2 DEF IsAbout, TypeOK
      <4>2. page[u][c] = presence[c]
        BY <2>3, <4>1 DEF OrderInv, PagesCurrent, Known
      <4>3. page'[u] \in {page[u], HandleFrame(page[u], f)}
        BY <2>1 DEF TypeOK
      <4>4. HandleFrame(page[u], f)[c] = page[u][c]
        BY <3>0, <4>1, <4>2, FrameOfAnother
      <4> QED
        BY <4>1, <4>2, <4>3, <4>4
    <3> QED
      BY <3>1, <3>2
  <2> QED
    BY <2>4, <2>5
<1>8. \/ subs \subseteq Dead /\ casts' = casts /\ page' = page
      \/ \E t \in Attached : /\ casts' = casts \cup {Cast(sent, f, o, t, Attached \ {t})}
                             /\ page' = [page EXCEPT ![t] = HandleFrame(@, f)]
  BY <1>2 DEF Stretch
<1> QED
  BY <1>6, <1>7, <1>8

(* The last frame about a contact that reaches a page is the latest.       *)
LEMMA NextIsCurrent ==
  ASSUME TypeOK, TypeOK', OrderInv, doubt # Tabs, NEW k \in casts, BroadcastNext(k),
         Stretch(k.number, k.frame, k.rest, k.order, casts \ {k})
  PROVE  LatestIsCached' /\ PagesCurrent'
<1>1. /\ pc' = pc /\ rest' = rest /\ doubt' = doubt /\ presence' = presence
      /\ MayGoOn(k) /\ Attached' = Attached
  BY DEF BroadcastNext, tabVars, Attached, Dead
<1>2. Placed(k) /\ InLine /\ LatestIsCached /\ PagesCurrent
  BY DEF OrderInv, InLine
<1>3. /\ k.number \in Nat /\ k.frame \in Frames /\ k.rest \in SUBSET Attached
      /\ \A u, v \in Tabs : k.order[u] \in Nat /\ (k.order[u] = k.order[v] => u = v)
  BY <1>2, CastTypes
<1>4. k.rest \ Dead = k.rest /\ (k.rest \subseteq Dead => k.rest = {})
  BY <1>3 DEF Attached
<1>5. CASE k.rest = {} /\ casts' = casts \ {k} /\ page' = page
  <2>1. \A e \in casts : k.number <= e.number
    BY <1>1, <1>2, <1>5, LastIsOldest
  <2>2. LatestIsCached'
    BY <1>1, <1>2, <1>5, <2>1 DEF LatestIsCached, IsAbout
  <2>3. PagesCurrent'
    BY <1>1, <1>2, <1>5 DEF PagesCurrent, IsAbout, Known
  <2> QED
    BY <2>2, <2>3
<1>6. CASE \E t \in k.rest :
             /\ casts' = (casts \ {k})
                           \cup {Cast(k.number, k.frame, k.order, t, k.rest \ {t})}
             /\ page' = [page EXCEPT ![t] = HandleFrame(@, k.frame)]
  <2>1. PICK t \in k.rest :
             /\ casts' = (casts \ {k})
                           \cup {Cast(k.number, k.frame, k.order, t, k.rest \ {t})}
             /\ page' = [page EXCEPT ![t] = HandleFrame(@, k.frame)]
    BY <1>6
  <2>2. PICK n : n = Cast(k.number, k.frame, k.order, t, k.rest \ {t})
    OBVIOUS
  <2>3. /\ n.number = k.number /\ n.frame = k.frame /\ n.rest = k.rest \ {t}
        /\ casts' = (casts \ {k}) \cup {n}
    BY <2>1, <2>2, CastFields
  <2>4. LatestIsCached'
    <3> SUFFICES ASSUME NEW e \in casts', NEW c \in Contacts, IsAbout(e, c),
                        \A m \in casts' : IsAbout(m, c) => m.number <= e.number
                 PROVE  e.frame.show = presence[c]
      BY <1>1 DEF LatestIsCached, IsAbout
    <3>1. \A m \in casts : IsAbout(m, c) => m.number <= e.number
      BY <2>3 DEF IsAbout
    <3>2. PICK m \in casts : m.number = e.number /\ m.frame = e.frame
      BY <2>3
    <3> QED
      BY <1>2, <3>1, <3>2 DEF LatestIsCached, IsAbout
  <2>5. PagesCurrent'
    <3> SUFFICES ASSUME NEW u \in Tabs \ doubt, NEW c \in Contacts, presence[c] # "unknown",
                        pc[u] \in {"replaying", "on"}, c \notin rest[u],
                        \A e \in casts' : IsAbout(e, c) => u \notin e.rest
                 PROVE  page'[u][c] = presence[c]
      BY <1>1 DEF PagesCurrent, Known, IsAbout
    <3>0. u \in Attached /\ page[u] \in [Contacts -> CacheShow]
      BY DEF Attached, Dead, TypeOK
    <3>1. \A e \in casts \ {k} : IsAbout(e, c) => u \notin e.rest
      BY <2>3
    <3>2. CASE u = t /\ IsAbout(k, c)
      <4>1. ASSUME NEW e \in casts, IsAbout(e, c) PROVE e.number <= k.number
        <5>1. Placed(e) /\ Ordered(k, e) /\ e.number \in Nat
          BY <1>2, CastTypes DEF InLine
        <5>2. CASE k.number < e.number
          <6>1. e.order = k.order /\ e.at \in Attached /\ k.order[e.at] <= k.order[k.at]
            BY <5>1, <5>2 DEF Ordered, Placed
          <6>2. k.order[k.at] < k.order[t]
            BY <1>2 DEF Placed
          <6>3. k.order[e.at] < k.order[t]
            BY <1>2, <1>3, <6>1, <6>2 DEF Placed, Attached
          <6>4. t \in e.rest /\ e # k
            BY <1>3, <5>1, <5>2, <6>1, <6>3 DEF Placed
          <6> QED
            BY <3>1, <3>2, <4>1, <6>4
        <5> QED
          BY <1>3, <5>1, <5>2
      <4>2. k.frame.show = presence[c]
        BY <1>2, <3>2, <4>1 DEF LatestIsCached
      <4>3. page'[u] = HandleFrame(page[u], k.frame)
        BY <2>1, <3>2 DEF TypeOK
      <4>4. HandleFrame(page[u], k.frame)[c] = k.frame.show
        BY <3>0, <3>2, FrameOfThis DEF IsAbout
      <4> QED
        BY <4>2, <4>3, <4>4
    <3>3. CASE ~IsAbout(k, c)
      <4>1. page[u][c] = presence[c]
        BY <1>2, <3>1, <3>3 DEF PagesCurrent, Known
      <4>2. page'[u] \in {page[u], HandleFrame(page[u], k.frame)}
        BY <2>1 DEF TypeOK
      <4>3. HandleFrame(page[u], k.frame)[c] = page[u][c]
        BY <1>3, <3>0, <3>3, <4>1, FrameOfAnother DEF IsAbout
      <4> QED
        BY <4>1, <4>2, <4>3
    <3>4. CASE u # t /\ IsAbout(k, c)
      <4>1. u \notin k.rest
        BY <2>3, <3>4 DEF IsAbout
      <4>2. page[u][c] = presence[c]
        BY <1>2, <3>1, <4>1 DEF PagesCurrent, Known
      <4> QED
        BY <2>1, <3>4, <4>2 DEF TypeOK
    <3> QED
      BY <3>2, <3>3, <3>4
  <2> QED
    BY <2>4, <2>5
<1>7. \/ k.rest = {} /\ casts' = casts \ {k} /\ page' = page
      \/ \E t \in k.rest :
           /\ casts' = (casts \ {k})
                         \cup {Cast(k.number, k.frame, k.order, t, k.rest \ {t})}
           /\ page' = [page EXCEPT ![t] = HandleFrame(@, k.frame)]
  BY <1>4 DEF Stretch
<1> QED
  BY <1>5, <1>6, <1>7

-----------------------------------------------------------------------------
(* All steps.                                                              *)

LEMMA NewStep ==
  ASSUME TypeOK, TypeOK', OrderInv, Subscribed', NEW f \in Frames, Broadcast(f),
         UNCHANGED <<pc, rest, doubt>>,
         f.type = "presence" => presence' = [presence EXCEPT ![f.jid] = f.show],
         f.type = "roster" => presence' = presence
  PROVE  OrderInv'
<1>1. ReplayOnly'
  BY DEF OrderInv, ReplayOnly
<1>2. CASE doubt = Tabs
  BY <1>1, <1>2 DEF OrderInv, PagesCurrent
<1>3. CASE doubt # Tabs
  <2>1. PICK o \in Orders : /\ \A k \in casts : k.order = o
                            /\ Sends(sent, f, subs, o, casts)
    BY <1>3 DEF Broadcast, Recipients
  <2>2. o \in Numberings /\ subs \in SUBSET Tabs
    BY DEF Orders, Numberings, TypeOK
  <2>3. Stretch(sent, f, subs, o, casts)
    BY <2>1, <2>2, SendsEffect
  <2>4. sent' = sent + 1
    BY DEF Broadcast
  <2>5. InLine'
    BY <1>3, <2>1, <2>3, <2>4, NewInLine DEF OrderInv
  <2>6. LatestIsCached' /\ PagesCurrent'
    BY <1>3, <2>3, NewIsCurrent
  <2> QED
    BY <1>1, <2>5, <2>6 DEF OrderInv
<1> QED
  BY <1>2, <1>3

LEMMA GoesOnStep ==
  ASSUME TypeOK, TypeOK', OrderInv, Subscribed', NEW k \in casts, BroadcastNext(k)
  PROVE  OrderInv'
<1>1. ReplayOnly' /\ doubt' = doubt
  BY DEF OrderInv, ReplayOnly, BroadcastNext, tabVars
<1>2. CASE doubt = Tabs
  BY <1>1, <1>2 DEF OrderInv, PagesCurrent
<1>3. CASE doubt # Tabs
  <2>1. k.rest \in SUBSET Tabs /\ k.order \in Numberings
    BY DEF TypeOK, Casts, Numberings
  <2>2. Stretch(k.number, k.frame, k.rest, k.order, casts \ {k})
    BY <2>1, SendsEffect DEF BroadcastNext
  <2>3. InLine'
    BY <1>3, <2>2, NextInLine DEF OrderInv
  <2>4. LatestIsCached' /\ PagesCurrent'
    BY <1>3, <2>2, NextIsCurrent
  <2> QED
    BY <1>1, <2>3, <2>4 DEF OrderInv
<1> QED
  BY <1>2, <1>3

(* Nothing about the broadcasts changes, and nothing they have to visit.   *)
LEMMA LineStays ==
  ASSUME doubt # Tabs => InLine /\ LatestIsCached,
         UNCHANGED <<casts, sent, presence>>,
         doubt' # Tabs => casts = {} \/ (doubt # Tabs /\ Attached' = Attached)
  PROVE  (doubt # Tabs => InLine /\ LatestIsCached)'
BY DEF InLine, Placed, Ordered, LatestIsCached, IsAbout

LEMMA OrderStep ==
  ASSUME TypeOK, TypeOK', OrderInv, Subscribed', [Next]_vars
  PROVE  OrderInv'
<1> USE DEF serverVars, clientVars, castVars, tabVars
<1>1. ASSUME UNCHANGED <<casts, sent, presence, page, pc, rest, doubt>> PROVE OrderInv'
  <2>1. (doubt # Tabs => InLine /\ LatestIsCached)'
    BY <1>1, LineStays DEF OrderInv, Attached, Dead
  <2> QED
    BY <1>1, <2>1 DEF OrderInv, ReplayOnly, PagesCurrent, IsAbout, Known
<1>2. ASSUME NEW d \in Devices, OnPresence(d) PROVE OrderInv'
  <2>1. PICK s \in AnyShow : /\ Broadcast(PresenceFrame(Bare[d], s))
                             /\ presence' = [presence EXCEPT ![Bare[d]] = s]
    BY <1>2, DeviceTypes
  <2>2. PresenceFrame(Bare[d], s) \in Frames
    BY PresenceFrameTypes, BareAssumption
  <2>3. UNCHANGED <<pc, rest, doubt>>
    BY <1>2 DEF OnPresence
  <2>4. PICK f \in Frames : f = PresenceFrame(Bare[d], s)
    BY <2>2
  <2>5. f.type = "presence" /\ f.jid = Bare[d] /\ f.show = s
    BY <2>4 DEF PresenceFrame
  <2> QED
    BY <2>1, <2>3, <2>4, <2>5, NewStep
<1>3. ASSUME NEW cs \in SUBSET Contacts, EmitRoster(cs), UNCHANGED <<pc, rest, doubt, presence>>
      PROVE  OrderInv'
  <2>1. PICK f \in Frames : f = RosterFrame(cs)
    BY RosterFrameTypes
  <2>2. f.type = "roster"
    BY <2>1 DEF RosterFrame
  <2> QED
    BY <1>3, <2>1, <2>2, NewStep DEF EmitRoster, RosterEvent
<1>4. ASSUME NEW k \in casts, BroadcastNext(k) PROVE OrderInv'
  BY <1>4, GoesOnStep
<1>5. CASE SessionStarts \/ StreamLost
  BY <1>1, <1>5 DEF SessionStarts, SendPresence, StreamLost
<1>6. ASSUME NEW d \in Devices, NEW s \in Uses[d] \cup {"offline"}, ContactChanges(d, s)
      PROVE  OrderInv'
  BY <1>1, <1>6 DEF ContactChanges
<1>7. ASSUME NEW cs \in SUBSET Contacts, RosterUpdate(cs) PROVE OrderInv'
  BY <1>3, <1>7 DEF RosterUpdate
<1>8. ASSUME NEW t \in Tabs, Attach(t) PROVE OrderInv'
  <2>1. /\ UNCHANGED <<casts, sent, presence, rest>>
        /\ pc' = [pc EXCEPT ![t] = "attaching"]
        /\ \A u \in Tabs \ {t} : page'[u] = page[u]
    BY <1>8 DEF Attach, TypeOK
  <2>2. doubt' # Tabs => casts = {}
    BY <1>8 DEF Attach
  <2>3. (doubt # Tabs => InLine /\ LatestIsCached)'
    BY <2>1, <2>2, LineStays DEF OrderInv
  <2>4. ReplayOnly'
    BY <1>8, <2>1 DEF OrderInv, ReplayOnly, TypeOK, Attach
  <2>5. \A u \in Tabs \ doubt' : u # t => u \notin doubt
    BY <1>8 DEF Attach
  <2>6. PagesCurrent'
    BY <2>1, <2>5 DEF OrderInv, PagesCurrent, IsAbout, Known, TypeOK
  <2> QED
    BY <2>3, <2>4, <2>6 DEF OrderInv
<1>9. ASSUME NEW t \in Tabs, SnapshotStarts(t) PROVE OrderInv'
  <2>1. /\ UNCHANGED <<casts, sent, presence, doubt>>
        /\ pc[t] = "attaching" /\ pc' = [pc EXCEPT ![t] = "replaying"]
        /\ rest' = [rest EXCEPT ![t] = Known]
        /\ \A u \in Tabs \ {t} : page'[u] = page[u]
    BY <1>9 DEF SnapshotStarts, TypeOK
  <2>2. Attached' = Attached
    BY <2>1 DEF Attached, Dead, TypeOK
  <2>3. (doubt # Tabs => InLine /\ LatestIsCached)'
    BY <2>1, <2>2, LineStays DEF OrderInv
  <2>4. ReplayOnly'
    BY <2>1 DEF OrderInv, ReplayOnly, TypeOK
  <2>5. PagesCurrent'
    BY <2>1 DEF OrderInv, PagesCurrent, IsAbout, Known, TypeOK
  <2> QED
    BY <2>3, <2>4, <2>5 DEF OrderInv
<1>10. ASSUME NEW t \in Tabs, NEW c \in Contacts, SnapshotNext(t, c) PROVE OrderInv'
  <2>1. /\ UNCHANGED <<casts, sent, presence, doubt, pc>>
        /\ pc[t] = "replaying"
        /\ rest' = [rest EXCEPT ![t] = @ \ {c}]
        /\ \A u \in Tabs, e \in Contacts : <<u, e>> # <<t, c>> => page'[u][e] = page[u][e]
        /\ page'[t][c] = presence[c]
    BY <1>10 DEF SnapshotNext, HandleFrame, PresenceFrame, TypeOK
  <2>2. (doubt # Tabs => InLine /\ LatestIsCached)'
    BY <2>1, LineStays DEF OrderInv, Attached, Dead
  <2>3. ReplayOnly'
    BY <2>1 DEF OrderInv, ReplayOnly, TypeOK
  <2>4. PagesCurrent'
    BY <2>1 DEF OrderInv, PagesCurrent, IsAbout, Known, TypeOK
  <2> QED
    BY <2>2, <2>3, <2>4 DEF OrderInv
<1>11. ASSUME NEW t \in Tabs, SnapshotEnds(t) PROVE OrderInv'
  <2>1. /\ UNCHANGED <<casts, sent, presence, doubt, page, rest>>
        /\ pc[t] = "replaying" /\ pc' = [pc EXCEPT ![t] = "on"] /\ rest[t] = {}
    BY <1>11 DEF SnapshotEnds
  <2>2. Attached' = Attached
    BY <2>1 DEF Attached, Dead, TypeOK
  <2>3. (doubt # Tabs => InLine /\ LatestIsCached)'
    BY <2>1, <2>2, LineStays DEF OrderInv
  <2>4. ReplayOnly'
    BY <2>1 DEF OrderInv, ReplayOnly, TypeOK
  <2>5. PagesCurrent'
    BY <2>1 DEF OrderInv, PagesCurrent, IsAbout, Known, TypeOK
  <2> QED
    BY <2>3, <2>4, <2>5 DEF OrderInv
<1>12. ASSUME NEW t \in Tabs, AttachFails(t) \/ TabCloses(t) PROVE OrderInv'
  <2>1. /\ UNCHANGED <<casts, sent, presence, page>>
        /\ pc' = [pc EXCEPT ![t] = "off"]
        /\ rest' = rest \/ rest' = [rest EXCEPT ![t] = {}]
        /\ doubt' = IF casts = {} THEN doubt ELSE Tabs
    BY <1>12 DEF AttachFails, TabCloses
  <2>2. (doubt # Tabs => InLine /\ LatestIsCached)'
    BY <2>1, LineStays DEF OrderInv
  <2>3. ReplayOnly'
    BY <1>12, <2>1 DEF OrderInv, ReplayOnly, TypeOK, AttachFails, TabCloses
  <2>4. PagesCurrent'
    BY <2>1 DEF OrderInv, PagesCurrent, IsAbout, Known, TypeOK
  <2> QED
    BY <2>2, <2>3, <2>4 DEF OrderInv
<1>13. ASSUME NEW t \in Tabs, NEW show \in {"online", "offline"}, SetPresence(t, show)
       PROVE  OrderInv'
  BY <1>1, <1>13 DEF SetPresence, SendPresence
<1>14. ASSUME NEW t \in Tabs, NEW c \in Contacts, AddContact(t, c) PROVE OrderInv'
  <2>1. roster \cup {c} \in SUBSET Contacts
    BY DEF TypeOK
  <2> QED
    BY <1>3, <1>14, <2>1 DEF AddContact
<1>15. ASSUME NEW t \in Tabs, NEW c \in Contacts, RemoveContact(t, c) PROVE OrderInv'
  <2>1. /\ UNCHANGED <<casts, sent, presence, pc, rest>>
        /\ doubt' = doubt \cup {t}
        /\ \A u \in Tabs \ {t} : page'[u] = page[u]
    BY <1>15 DEF RemoveContact, TypeOK
  <2>2. (doubt # Tabs => InLine /\ LatestIsCached)'
    BY <2>1, LineStays DEF OrderInv, Attached, Dead, TypeOK
  <2>3. ReplayOnly' /\ PagesCurrent'
    BY <2>1 DEF OrderInv, ReplayOnly, PagesCurrent, IsAbout, Known
  <2> QED
    BY <2>2, <2>3 DEF OrderInv
<1>16. ASSUME NEW t \in Tabs, NEW c \in Contacts, RemovalEnds(t, c) PROVE OrderInv'
  <2>1. PICK cs \in {roster, roster \ {c}} : EmitRoster(cs)
    BY <1>16 DEF RemovalEnds
  <2>2. cs \in SUBSET Contacts
    BY DEF TypeOK
  <2> QED
    BY <1>3, <1>16, <2>1, <2>2 DEF RemovalEnds
<1>17. CASE UNCHANGED vars
  BY <1>1, <1>17 DEF vars
<1> QED
  BY <1>2, <1>4, <1>5, <1>6, <1>7, <1>8, <1>9, <1>10, <1>11, <1>12, <1>13, <1>14,
     <1>15, <1>16, <1>17 DEF Next

LEMMA OrderHolds == Spec => [](TypeOK /\ RosterInv /\ OrderInv)
<1> DEFINE IInv == TypeOK /\ RosterInv /\ OrderInv
<1>1. Init => IInv
  <2> SUFFICES ASSUME Init PROVE IInv
    OBVIOUS
  <2>1. RosterInv
    BY DEF Init, RosterInv, Subscribed, RestKnown, ContactsShown
  <2>2. InLine /\ LatestIsCached /\ PagesCurrent /\ ReplayOnly
    BY DEF Init, InLine, LatestIsCached, PagesCurrent, ReplayOnly
  <2> QED
    BY <2>1, <2>2, InitTypes DEF OrderInv, RosterInv
<1>2. IInv /\ [Next]_vars => IInv'
  <2> SUFFICES ASSUME IInv, [Next]_vars PROVE IInv'
    OBVIOUS
  <2>1. TypeOK' /\ RosterInv'
    BY TypesStep, RosterStep
  <2>2. Subscribed'
    BY <2>1 DEF RosterInv
  <2> QED
    BY <2>1, <2>2, OrderStep
<1> QED
  BY <1>1, <1>2, PTL DEF Spec

(* Once nothing is under way, every attached page shows what the account   *)
(* has cached, except for pages whose frames the set of tabs reordered and *)
(* those that removed a contact: overlapping broadcasts (account.py:408)   *)
(* and a replay among them (account.py:400) leave no page behind.          *)
THEOREM PagesEndUpEqual == Spec => []PagesAgree
<1>1. OrderInv => PagesAgree
  BY DEF OrderInv, ReplayOnly, PagesCurrent, PagesAgree
<1> QED
  BY <1>1, OrderHolds, PTL

-----------------------------------------------------------------------------
(* The feed of a page.  Each step of the account is one of PageFeed, or    *)
(* changes nothing that the pages in line get.                             *)

LEMMA FrameApplied == \A p, f : HandleFrame(p, f) = Feed!Apply(p, f)
BY DEF HandleFrame, Feed!Apply

LEMMA SettledTabs ==
  ASSUME TypeOK
  PROVE  Settled \subseteq Attached /\ Feed!InLine = Settled
BY DEF Settled, Attached, Dead, Feed!InLine

LEMMA NothingFed ==
  ASSUME UNCHANGED <<presence, roster, page, casts, sent, doubt, pc>>
  PROVE  UNCHANGED Feed!feedVars
BY DEF Feed!feedVars, Settled, Due

(* A new broadcast is in every queue; the first tab in the order waits for *)
(* none of the earlier ones.                                               *)
LEMMA FeedPublishes ==
  ASSUME TypeOK, OrderInv, NEW f \in Frames, Broadcast(f), Feed!Cache(f),
         UNCHANGED <<pc, doubt>>
  PROVE  Feed!Publish(f)
<1>0. Settled' = Settled /\ sent' = sent + 1
  BY DEF Settled, Broadcast
<1>1. CASE Settled = {}
  BY <1>0, <1>1, SettledTabs DEF Feed!Publish
<1>2. CASE Settled # {}
  <2>1. doubt # Tabs /\ InLine /\ LatestIsCached
    BY <1>2 DEF Settled, OrderInv
  <2>2. PICK o \in Orders : /\ \A k \in casts : k.order = o
                            /\ Sends(sent, f, subs, o, casts)
    BY <2>1 DEF Broadcast, Recipients
  <2>3. o \in Numberings /\ subs \in SUBSET Tabs
    BY DEF Orders, Numberings, TypeOK
  <2>4. subs \ Dead = Attached /\ Attached # {}
    BY <1>2, SettledTabs DEF OrderInv, Subscribed, Attached, Dead, TypeOK
  <2>5. PICK t \in Attached : /\ \A u \in Attached : o[t] <= o[u]
                              /\ casts' = casts \cup {Cast(sent, f, o, t, Attached \ {t})}
                              /\ page' = [page EXCEPT ![t] = HandleFrame(@, f)]
    <3>1. Stretch(sent, f, subs, o, casts)
      BY <2>2, <2>3, SendsEffect
    <3>2. ~(subs \subseteq Dead)
      BY <2>4
    <3> QED
      BY <2>4, <3>1, <3>2 DEF Stretch
  <2>6. PICK n : n = Cast(sent, f, o, t, Attached \ {t})
    OBVIOUS
  <2>7. n.number = sent /\ n.frame = f /\ n.rest = Attached \ {t} /\ casts' = casts \cup {n}
    BY <2>5, <2>6, CastFields
  <2>8. \A k \in casts : t \notin k.rest
    <3> SUFFICES ASSUME NEW k \in casts, t \in k.rest PROVE FALSE
      OBVIOUS
    <3>1. k.at \in Attached /\ o[k.at] < o[t]
      BY <2>1, <2>2 DEF InLine, Placed
    <3>2. o[k.at] \in Nat /\ o[t] \in Nat
      BY <3>1 DEF Orders, Attached
    <3> QED
      BY <2>5, <3>1, <3>2
  <2>9. Due(t) = {} /\ Due(t)' = {}
    BY <2>7, <2>8 DEF Due
  <2>10. ASSUME NEW u \in Settled, u # t
         PROVE  /\ Due(u)' = Due(u) \cup {[number |-> sent, frame |-> f]}
                /\ page'[u] = page[u]
    <3>1. u \in n.rest /\ u \in Tabs
      BY <2>7, <2>10, SettledTabs DEF Attached
    <3>2. {e \in casts' : u \in e.rest} = {e \in casts : u \in e.rest} \cup {n}
      BY <2>7, <3>1
    <3>3. Due(u)' = Due(u) \cup {[number |-> n.number, frame |-> n.frame]}
      BY <3>2 DEF Due
    <3> QED
      BY <2>5, <2>7, <2>10, <3>1, <3>3 DEF TypeOK
  <2>11. page'[t] = Feed!Apply(page[t], f)
    BY <2>5, FrameApplied DEF TypeOK, Attached
  <2> DEFINE now == {t} \cap Settled
  <2>12. now \in SUBSET {u \in Settled : Due(u) = {}}
    BY <2>9
  <2>13. [u \in Settled |-> page[u]]' =
           [u \in Settled |-> IF u \in now THEN Feed!Apply(page[u], f) ELSE page[u]]
    BY <1>0, <2>10, <2>11
  <2>14. [u \in Settled |-> Due(u)]' =
           [u \in Settled |-> IF u \in now THEN {}
                              ELSE Due(u) \cup {[number |-> sent, frame |-> f]}]
    BY <1>0, <2>9, <2>10
  <2> HIDE DEF now
  <2>15. now \in SUBSET {u \in Feed!InLine : [v \in Settled |-> Due(v)][u] = {}}
    BY <2>12 DEF Feed!InLine
  <2> QED
    BY <1>0, <2>13, <2>14, <2>15 DEF Feed!Publish, Feed!InLine
<1> QED
  BY <1>1, <1>2

(* The next tab of a broadcast gets it from the front of its queue: an     *)
(* earlier one that this tab has yet to get would be at a tab before it,   *)
(* and so at the same tab, where it goes on first.                         *)
LEMMA FeedDelivers ==
  ASSUME TypeOK, OrderInv, NEW k \in casts, BroadcastNext(k)
  PROVE  \/ \E t \in Settled : Feed!Deliver(t)
         \/ Feed!Renumber
<1>0. /\ Settled' = Settled /\ MayGoOn(k)
      /\ UNCHANGED <<presence, roster>>
      /\ sent' = IF casts' = {} THEN 0 ELSE sent
  BY DEF Settled, BroadcastNext, tabVars
<1>1. casts' = {} => \A u \in Settled : Due(u)' = {}
  BY DEF Due
<1>2. k.rest \in SUBSET Tabs /\ k.order \in Numberings
  BY DEF TypeOK, Casts, Numberings
<1>3. Stretch(k.number, k.frame, k.rest, k.order, casts \ {k})
  BY <1>2, SendsEffect DEF BroadcastNext
<1>4. Feed!NumbersGoOn
  BY <1>0, <1>1 DEF Feed!NumbersGoOn
<1>5. ASSUME \A u \in Settled : Due(u)' = Due(u) /\ page'[u] = page[u]
      PROVE  Feed!Renumber
  BY <1>0, <1>4, <1>5 DEF Feed!Renumber
<1>6. CASE Settled = {}
  BY <1>5, <1>6
<1>7. CASE Settled # {}
  <2>1. doubt # Tabs /\ InLine /\ Placed(k)
    BY <1>7 DEF Settled, OrderInv, InLine
  <2>2. /\ k.number \in Nat /\ k.at \in Attached /\ k.rest \in SUBSET Attached
        /\ \A u, v \in Tabs : k.order[u] \in Nat /\ (k.order[u] = k.order[v] => u = v)
    BY <2>1, CastTypes DEF Placed
  <2>3. k.rest \ Dead = k.rest /\ (k.rest \subseteq Dead => k.rest = {})
    BY <2>2 DEF Attached
  <2>4. CASE k.rest = {} /\ casts' = casts \ {k} /\ page' = page
    <3>1. \A u \in Settled : Due(u)' = Due(u)
      BY <2>4 DEF Due
    <3> QED
      BY <1>5, <2>4, <3>1
  <2>5. CASE \E t \in k.rest :
               /\ \A u \in k.rest : k.order[t] <= k.order[u]
               /\ casts' = (casts \ {k})
                             \cup {Cast(k.number, k.frame, k.order, t, k.rest \ {t})}
               /\ page' = [page EXCEPT ![t] = HandleFrame(@, k.frame)]
    <3>1. PICK t \in k.rest :
               /\ \A u \in k.rest : k.order[t] <= k.order[u]
               /\ casts' = (casts \ {k})
                             \cup {Cast(k.number, k.frame, k.order, t, k.rest \ {t})}
               /\ page' = [page EXCEPT ![t] = HandleFrame(@, k.frame)]
      BY <2>5
    <3>2. PICK n : n = Cast(k.number, k.frame, k.order, t, k.rest \ {t})
      OBVIOUS
    <3>3. /\ n.number = k.number /\ n.frame = k.frame /\ n.rest = k.rest \ {t}
          /\ casts' = (casts \ {k}) \cup {n}
      BY <3>1, <3>2, CastFields
    <3>4. ASSUME NEW u \in Settled, u # t
          PROVE  Due(u)' = Due(u) /\ page'[u] = page[u]
      <4>1. Due(u)' = Due(u)
        BY <3>3, <3>4 DEF Due
      <4> QED
        BY <3>1, <3>4, <4>1, SettledTabs DEF TypeOK, Attached
    <3>5. CASE t \notin Settled
      BY <1>5, <3>4, <3>5
    <3>6. CASE t \in Settled
      <4> DEFINE d == [number |-> k.number, frame |-> k.frame]
      <4>1. d \in Due(t)
        BY DEF Due
      <4>2. ASSUME NEW e \in casts, t \in e.rest PROVE k.number <= e.number
        <5>1. Placed(e) /\ Ordered(e, k) /\ e.number \in Nat /\ e.at \in Attached
          BY <2>1, CastTypes DEF InLine, Placed
        <5>2. CASE e.number < k.number
          <6>1. e.order = k.order /\ k.order[k.at] <= k.order[e.at] /\ e.at # k.at
            BY <1>0, <2>2, <5>1, <5>2 DEF Ordered, MayGoOn
          <6>2. e.at \in k.rest
            BY <2>1, <2>2, <5>1, <6>1 DEF Placed, Attached
          <6>3. k.order[e.at] < k.order[t] /\ k.order[t] <= k.order[e.at]
            BY <3>1, <4>2, <5>1, <6>1, <6>2 DEF Placed
          <6> QED
            BY <2>2, <5>1, <6>3 DEF Attached
        <5> QED
          BY <2>2, <5>1, <5>2
      <4>3. \A x \in Due(t) : d.number <= x.number
        BY <4>2 DEF Due
      <4>4. Due(t)' = Due(t) \ {d}
        <5>1. \A e \in casts : e.number = k.number => e = k
          BY <2>1 DEF InLine, Ordered
        <5>2. \A e \in casts \ {k} : [number |-> e.number, frame |-> e.frame] # d
          BY <5>1
        <5>3. {e \in casts' : t \in e.rest} = {e \in casts : t \in e.rest} \ {k}
          BY <3>3
        <5> HIDE DEF d
        <5> QED
          BY <5>2, <5>3 DEF Due, d
      <4>5. page'[t] = Feed!Apply(page[t], d.frame)
        <5>1. page'[t] = HandleFrame(page[t], k.frame)
          BY <1>2, <3>1 DEF TypeOK
        <5>2. d.frame = k.frame
          OBVIOUS
        <5> HIDE DEF d
        <5> QED
          BY <5>1, <5>2, FrameApplied
      <4> HIDE DEF d
      <4>6. [u \in Settled |-> page[u]]' =
              [[u \in Settled |-> page[u]] EXCEPT ![t] = Feed!Apply(@, d.frame)]
        BY <1>0, <3>4, <3>6, <4>5
      <4>7. [u \in Settled |-> Due(u)]' = [[u \in Settled |-> Due(u)] EXCEPT ![t] = @ \ {d}]
        BY <1>0, <3>4, <3>6, <4>4
      <4>8. [u \in Settled |-> Due(u)][t] = Due(t)
        BY <3>6
      <4> QED
        BY <1>0, <1>4, <3>6, <4>1, <4>3, <4>6, <4>7, <4>8 DEF Feed!Deliver
    <3> QED
      BY <3>5, <3>6
  <2>6. \/ k.rest = {} /\ casts' = casts \ {k} /\ page' = page
        \/ \E t \in k.rest :
             /\ \A u \in k.rest : k.order[t] <= k.order[u]
             /\ casts' = (casts \ {k})
                           \cup {Cast(k.number, k.frame, k.order, t, k.rest \ {t})}
             /\ page' = [page EXCEPT ![t] = HandleFrame(@, k.frame)]
    BY <1>3, <2>3 DEF Stretch
  <2> QED
    BY <2>4, <2>5, <2>6
<1> QED
  BY <1>6, <1>7

(* A replay is one, or goes to a page that is out of line.                 *)
LEMMA FeedReplays ==
  ASSUME TypeOK, NEW t \in Tabs, SnapshotStarts(t) \/ \E c \in Contacts : SnapshotNext(t, c),
         RestKnown
  PROVE  (t \in Settled /\ Feed!Replay(t)) \/ UNCHANGED Feed!feedVars
<1>1. /\ UNCHANGED <<casts, sent, presence, roster, doubt>>
      /\ pc[t] # "off" /\ pc'[t] # "off"
      /\ \A u \in Tabs \ {t} : pc'[u] = pc[u] /\ page'[u] = page[u]
  BY DEF SnapshotStarts, SnapshotNext, TypeOK
<1>2. Settled' = Settled /\ \A u \in Settled : Due(u)' = Due(u)
  BY <1>1 DEF Settled, Due
<1>3. CASE t \notin Settled
  <2>1. \A u \in Settled : page'[u] = page[u]
    BY <1>1, <1>3 DEF Settled
  <2> QED
    BY <1>1, <1>2, <2>1 DEF Feed!feedVars
<1>4. CASE t \in Settled
  <2>1. [u \in Settled |-> Due(u)]' = [u \in Settled |-> Due(u)]
    BY <1>2
  <2>2. ASSUME NEW p, page'[t] = p
        PROVE  [u \in Settled |-> page[u]]' = [[u \in Settled |-> page[u]] EXCEPT ![t] = p]
    BY <1>1, <1>2, <1>4, <2>2 DEF Settled
  <2>3. [u \in Settled |-> page[u]][t] = page[t]
    BY <1>4
  <2>4. CASE SnapshotStarts(t)
    <3>1. page'[t] = Feed!Apply(page[t], [type |-> "roster", contacts |-> roster])
      BY <2>4, FrameApplied DEF SnapshotStarts, RosterFrame, TypeOK
    <3> QED
      BY <1>1, <1>4, <2>1, <2>2, <2>3, <3>1 DEF Feed!Replay
  <2>5. ASSUME NEW c \in Contacts, SnapshotNext(t, c)
        PROVE  Feed!Replay(t)
    <3>1. page'[t] = [page[t] EXCEPT ![c] = presence[c]]
      BY <2>5 DEF SnapshotNext, HandleFrame, PresenceFrame, TypeOK
    <3>2. presence[c] # "unknown"
      BY <2>5 DEF SnapshotNext, RestKnown, Known
    <3> QED
      BY <1>1, <2>1, <2>2, <2>3, <3>1, <3>2 DEF Feed!Replay
  <2> QED
    BY <1>4, <2>4, <2>5
<1> QED
  BY <1>3, <1>4

(* A tab that attaches while nothing is under way comes into line.         *)
LEMMA FeedEnters ==
  ASSUME TypeOK, NEW t \in Tabs, Attach(t), casts = {}
  PROVE  Feed!Enter(t)
<1>1. /\ UNCHANGED <<casts, sent, presence, roster>>
      /\ doubt' = doubt \ {t}
      /\ pc[t] = "off" /\ pc' = [pc EXCEPT ![t] = "attaching"]
      /\ \A u \in Tabs \ {t} : page'[u] = page[u]
      /\ page'[t] \in [Contacts -> CacheShow]
  BY DEF Attach, TypeOK, CacheShow
<1>2. t \notin Settled /\ Settled' = Settled \cup {t}
  BY <1>1 DEF Settled, TypeOK
<1>3. \A u \in Tabs : Due(u) = {} /\ Due(u)' = {}
  BY <1>1 DEF Due
<1>4. [u \in Settled |-> page[u]]' =
        [u \in Settled \cup {t} |-> IF u = t THEN page'[t] ELSE page[u]]
  BY <1>1, <1>2 DEF Settled
<1>5. [u \in Settled |-> Due(u)]' = [u \in Settled \cup {t} |-> {}]
  BY <1>2, <1>3 DEF Settled
<1>6. \A u \in Settled : [v \in Settled |-> Due(v)][u] = {}
  BY <1>3 DEF Settled
<1>7. [u \in Settled \cup {t} |-> IF u = t THEN page'[t] ELSE page[u]] =
        [u \in Settled \cup {t} |-> IF u = t THEN page'[t] ELSE [v \in Settled |-> page[v]][u]]
  OBVIOUS
<1> QED
  BY <1>1, <1>2, <1>4, <1>5, <1>6, <1>7 DEF Feed!Enter, Feed!InLine

(* Pages get out of line, and nothing changes for the others.              *)
LEMMA FeedDrops ==
  ASSUME TypeOK, NEW ts, Settled' = Settled \ ts,
         UNCHANGED <<casts, sent, presence, roster>>,
         \A u \in Settled \ ts : page'[u] = page[u]
  PROVE  Feed!Next
<1>1. \A u \in Settled \ ts : Due(u)' = Due(u)
  BY DEF Due
<1>2. PICK us \in SUBSET Settled : Settled \ us = Settled \ ts
  <2>1. Settled \ (Settled \cap ts) = Settled \ ts
    OBVIOUS
  <2> QED
    BY <2>1
<1>3. Feed!Drop(us)
  BY <1>1, <1>2 DEF Feed!Drop, Feed!InLine
<1> QED
  BY <1>2, <1>3, SettledTabs DEF Feed!Next

LEMMA FeedStep ==
  ASSUME TypeOK, RosterInv, OrderInv, [Next]_vars
  PROVE  [Feed!Next]_(Feed!feedVars)
<1> USE DEF serverVars, clientVars, castVars, tabVars
<1>1. ASSUME NEW f \in Frames, Feed!Publish(f) PROVE Feed!Next
  BY <1>1 DEF Feed!Next
<1>2. ASSUME NEW cs \in SUBSET Contacts, EmitRoster(cs), UNCHANGED <<presence, pc, doubt>>
      PROVE  Feed!Next
  <2>1. PICK f \in Frames : f = RosterFrame(cs)
    BY RosterFrameTypes
  <2>2. f.type = "roster" /\ f.contacts = cs
    BY <2>1 DEF RosterFrame
  <2>3. Feed!Cache(f)
    BY <1>2, <2>2 DEF Feed!Cache, EmitRoster, RosterEvent
  <2> QED
    BY <1>1, <1>2, <2>1, <2>3, FeedPublishes DEF EmitRoster, RosterEvent
<1>3. ASSUME NEW d \in Devices, OnPresence(d) PROVE Feed!Next
  <2>1. PICK s \in AnyShow : /\ Broadcast(PresenceFrame(Bare[d], s))
                             /\ presence' = [presence EXCEPT ![Bare[d]] = s]
    BY <1>3, DeviceTypes
  <2>2. PICK f \in Frames : f = PresenceFrame(Bare[d], s)
    BY PresenceFrameTypes, BareAssumption
  <2>3. f.type = "presence" /\ f.jid = Bare[d] /\ f.show = s
    BY <2>2 DEF PresenceFrame
  <2>4. UNCHANGED <<pc, doubt, roster>>
    BY <1>3 DEF OnPresence
  <2>5. Feed!Cache(f)
    BY <2>1, <2>3, <2>4 DEF Feed!Cache
  <2> QED
    BY <1>1, <2>1, <2>2, <2>4, <2>5, FeedPublishes
<1>4. ASSUME NEW k \in casts, BroadcastNext(k) PROVE Feed!Next
  <2>1. \A t \in Settled : t \in Feed!InLine
    BY SettledTabs
  <2> QED
    BY <1>4, <2>1, FeedDelivers DEF Feed!Next
<1>5. CASE SessionStarts \/ StreamLost
  BY <1>5, NothingFed DEF SessionStarts, SendPresence, StreamLost
<1>6. ASSUME NEW d \in Devices, NEW s \in Uses[d] \cup {"offline"}, ContactChanges(d, s)
      PROVE  UNCHANGED Feed!feedVars
  BY <1>6, NothingFed DEF ContactChanges
<1>7. ASSUME NEW cs \in SUBSET Contacts, RosterUpdate(cs) PROVE Feed!Next
  BY <1>2, <1>7 DEF RosterUpdate
<1>8. ASSUME NEW t \in Tabs, Attach(t) PROVE Feed!Next
  <2>1. CASE casts = {}
    BY <1>8, <2>1, FeedEnters DEF Feed!Next
  <2>2. CASE casts # {}
    <3>1. Settled' = Settled \ Tabs /\ Settled \ Tabs = {}
      BY <1>8, <2>2 DEF Attach, Settled
    <3> QED
      BY <1>8, <3>1, FeedDrops DEF Attach
  <2> QED
    BY <2>1, <2>2
<1>9. ASSUME NEW t \in Tabs, SnapshotStarts(t) \/ \E c \in Contacts : SnapshotNext(t, c)
       PROVE  Feed!Next \/ UNCHANGED Feed!feedVars
  BY <1>9, FeedReplays, SettledTabs DEF RosterInv, Feed!Next
<1>10. ASSUME NEW t \in Tabs, SnapshotEnds(t) PROVE UNCHANGED Feed!feedVars
  <2>1. Settled' = Settled
    BY <1>10 DEF SnapshotEnds, Settled, TypeOK
  <2> QED
    BY <1>10, <2>1 DEF SnapshotEnds, Feed!feedVars, Due
<1>11. ASSUME NEW t \in Tabs, AttachFails(t) \/ TabCloses(t) PROVE Feed!Next
  <2>1. /\ UNCHANGED <<casts, sent, presence, roster, page>>
        /\ pc' = [pc EXCEPT ![t] = "off"]
        /\ doubt' = IF casts = {} THEN doubt ELSE Tabs
    BY <1>11 DEF AttachFails, TabCloses
  <2>2. Settled' = Settled \ (IF casts = {} THEN {t} ELSE Tabs)
    BY <2>1 DEF Settled, TypeOK
  <2> QED
    BY <2>1, <2>2, FeedDrops
<1>12. ASSUME NEW t \in Tabs, NEW show \in {"online", "offline"}, SetPresence(t, show)
       PROVE  UNCHANGED Feed!feedVars
  BY <1>12, NothingFed DEF SetPresence, SendPresence
<1>13. ASSUME NEW t \in Tabs, NEW c \in Contacts, AddContact(t, c) PROVE Feed!Next
  <2>1. roster \cup {c} \in SUBSET Contacts
    BY DEF TypeOK
  <2> QED
    BY <1>2, <1>13, <2>1 DEF AddContact
<1>14. ASSUME NEW t \in Tabs, NEW c \in Contacts, RemoveContact(t, c) PROVE Feed!Next
  <2>1. /\ UNCHANGED <<casts, sent, presence, roster, pc>>
        /\ doubt' = doubt \cup {t}
        /\ \A u \in Tabs \ {t} : page'[u] = page[u]
    BY <1>14 DEF RemoveContact, TypeOK
  <2>2. Settled' = Settled \ {t} /\ \A u \in Settled \ {t} : page'[u] = page[u]
    BY <2>1 DEF Settled
  <2> QED
    BY <2>1, <2>2, FeedDrops
<1>15. ASSUME NEW t \in Tabs, NEW c \in Contacts, RemovalEnds(t, c) PROVE Feed!Next
  <2>1. PICK cs \in {roster, roster \ {c}} : EmitRoster(cs)
    BY <1>15 DEF RemovalEnds
  <2>2. cs \in SUBSET Contacts
    BY DEF TypeOK
  <2> QED
    BY <1>2, <1>15, <2>1, <2>2 DEF RemovalEnds
<1>16. CASE UNCHANGED vars
  BY <1>16, NothingFed DEF vars
<1> QED
  BY <1>3, <1>4, <1>5, <1>6, <1>7, <1>8, <1>9, <1>10, <1>11, <1>12, <1>13, <1>14,
     <1>15, <1>16 DEF Next

(* The broadcasts of an account implement PageFeed: each page in line gets *)
(* the frames in the order in which they were broadcast, although every    *)
(* broadcast walks the tabs by itself, may be suspended at any of them and *)
(* shares them with a replay (account.py:400-413).                         *)
THEOREM ImplementsPageFeed == Spec => FeedSpec
<1>1. Init => Feed!Init
  BY DEF Init, Feed!Init, Settled
<1>2. TypeOK /\ RosterInv /\ OrderInv /\ [Next]_vars => [Feed!Next]_(Feed!feedVars)
  BY FeedStep
<1> QED
  BY <1>1, <1>2, OrderHolds, PTL DEF Spec, FeedSpec, Feed!Spec

=============================================================================
