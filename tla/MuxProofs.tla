------------------------------ MODULE MuxProofs ------------------------------
(***************************************************************************)
(* Proofs about Mux for any number of transports and any bounds: when the  *)
(* mux ends it leaves no transport alive that it has not lost track of;    *)
(* when it has started, all that it knows have opened, and the frames of   *)
(* its senders are put together from their own pieces.                     *)
(***************************************************************************)
EXTENDS Mux, Integers, SequenceTheorems, FiniteSetTheorems, TLAPS

(* A list with one more entry behind. *)
LEMMA AppendEntries ==
    ASSUME NEW S, NEW s \in Seq(S), NEW e \in S
    PROVE  /\ Append(s, e) \in Seq(S) /\ Len(Append(s, e)) = Len(s) + 1
           /\ \A k \in 1 .. Len(s) : Append(s, e)[k] = s[k]
           /\ Append(s, e)[Len(s) + 1] = e
           /\ Range(Append(s, e)) = Range(s) \union {e}
<1>1. /\ Append(s, e) \in Seq(S) /\ Len(s) \in Nat /\ Len(Append(s, e)) = Len(s) + 1
      /\ DOMAIN Append(s, e) = 1 .. Len(s) + 1 /\ DOMAIN s = 1 .. Len(s)
      /\ \A k \in 1 .. Len(s) : Append(s, e)[k] = s[k]
      /\ Append(s, e)[Len(s) + 1] = e
  OBVIOUS
<1>2. 1 .. Len(s) + 1 = (1 .. Len(s)) \union {Len(s) + 1}
  BY <1>1
<1>3. Range(Append(s, e)) = Range(s) \union {e}
  BY <1>1, <1>2 DEF Range
<1>. QED  BY <1>1, <1>3

(* Something new behind a list without repetitions. *)
LEMMA AppendKeeps ==
    ASSUME NEW S, NEW s \in Seq(S), NEW e \in S, IsInjective(s), e \notin Range(s)
    PROVE  IsInjective(Append(s, e))
<1>1. \A t : t = Append(s, e) => IsInjective(t)
  <2>. SUFFICES ASSUME NEW t, t = Append(s, e) PROVE IsInjective(t)
    OBVIOUS
  <2>1. /\ Len(s) \in Nat /\ DOMAIN s = 1 .. Len(s) /\ DOMAIN t = 1 .. Len(s) + 1
        /\ \A k \in 1 .. Len(s) : t[k] = s[k]
        /\ t[Len(s) + 1] = e
    OBVIOUS
  <2>2. \A k \in DOMAIN t : k \in DOMAIN s \/ k = Len(s) + 1
    BY <2>1
  <2>3. \A k \in DOMAIN s : t[k] # e
    BY <2>1 DEF Range
  <2>. QED  BY <2>1, <2>2, <2>3 DEF IsInjective
<1>. QED  BY <1>1

(* What is behind the entry that is removed moves up by one place.         *)
LEMMA RemoveAtEntries ==
    ASSUME NEW S, NEW s \in Seq(S), NEW pos \in 1..Len(s)
    PROVE  /\ RemoveAt(s, pos) \in Seq(S)
           /\ Len(RemoveAt(s, pos)) = Len(s) - 1
           /\ \A j \in 1..Len(s) - 1 :
                 RemoveAt(s, pos)[j] = IF j < pos THEN s[j] ELSE s[j + 1]
<1>. DEFINE before == SubSeq(s, 1, pos - 1)
            behind == SubSeq(s, pos + 1, Len(s))
<1>1. /\ before \in Seq(S) /\ Len(before) = pos - 1 /\ \A j \in 1..pos - 1 : before[j] = s[j]
      /\ behind \in Seq(S) /\ Len(behind) = Len(s) - pos
      /\ \A j \in 1..Len(s) - pos : behind[j] = s[j + pos]
  OBVIOUS
<1>2. RemoveAt(s, pos) = before \o behind
  BY DEF RemoveAt
<1>. HIDE DEF before, behind
<1>3. /\ before \o behind \in Seq(S) /\ Len(before \o behind) = Len(before) + Len(behind)
      /\ \A j \in 1..Len(before) + Len(behind) :
            (before \o behind)[j] = IF j <= Len(before) THEN before[j]
                                    ELSE behind[j - Len(before)]
  BY <1>1, ConcatProperties, Zenon
<1>4. ASSUME NEW j \in 1..Len(s) - 1
      PROVE  (before \o behind)[j] = IF j < pos THEN s[j] ELSE s[j + 1]
  <2>0. j \in 1..Len(before) + Len(behind)
    BY <1>1
  <2>1. CASE j < pos
    BY <2>0, <2>1, <1>1, <1>3
  <2>2. CASE ~(j < pos)
    <3>1. j - (pos - 1) \in 1..Len(s) - pos /\ ~(j <= pos - 1) /\ (j - (pos - 1)) + pos = j + 1
      BY <2>2
    <3>2. (before \o behind)[j] = behind[j - (pos - 1)]
      BY <2>0, <3>1, <1>1, <1>3
    <3>3. behind[j - (pos - 1)] = s[(j - (pos - 1)) + pos]
      BY <3>1, <1>1
    <3>. QED  BY <2>2, <3>1, <3>2, <3>3
  <2>. QED  BY <2>1, <2>2
<1>. QED  BY <1>1, <1>2, <1>3, <1>4

(* It has no repetitions if the list had none; and what was in another     *)
(* place than the one that is removed is still there, not behind its old   *)
(* place.                                                                  *)
LEMMA RemoveAtKeeps ==
    ASSUME NEW S, NEW s \in Seq(S), NEW pos \in 1..Len(s)
    PROVE  /\ IsInjective(s) => IsInjective(RemoveAt(s, pos))
           /\ \A k \in DOMAIN s \ {pos} : \E j \in DOMAIN RemoveAt(s, pos) :
                  RemoveAt(s, pos)[j] = s[k] /\ j <= k
<1>. DEFINE M == RemoveAt(s, pos)
<1>1. /\ DOMAIN s = 1..Len(s) /\ Len(s) \in Nat /\ pos \in Nat
      /\ DOMAIN M = 1..Len(s) - 1
      /\ \A j \in 1..Len(s) - 1 : M[j] = IF j < pos THEN s[j] ELSE s[j + 1]
  <2>1. M \in Seq(S) /\ Len(M) = Len(s) - 1
    BY RemoveAtEntries
  <2>2. \A j \in 1..Len(s) - 1 : M[j] = IF j < pos THEN s[j] ELSE s[j + 1]
    BY RemoveAtEntries
  <2>. QED  BY <2>1, <2>2
<1>. HIDE DEF M
<1>2. IsInjective(s) => IsInjective(M)
  <2>1. \A j \in DOMAIN M : \E m \in DOMAIN s :
           M[j] = s[m] /\ m = IF j < pos THEN j ELSE j + 1
    BY <1>1
  <2>. SUFFICES ASSUME IsInjective(s), NEW j \in DOMAIN M, NEW k \in DOMAIN M, M[j] = M[k]
                PROVE  j = k
    BY DEF IsInjective
  <2>2. PICK m \in DOMAIN s : M[j] = s[m] /\ m = IF j < pos THEN j ELSE j + 1
    BY <2>1
  <2>3. PICK n \in DOMAIN s : M[k] = s[n] /\ n = IF k < pos THEN k ELSE k + 1
    BY <2>1
  <2>4. m = n
    BY <2>2, <2>3 DEF IsInjective
  <2>. QED  BY <1>1, <2>2, <2>3, <2>4
<1>3. ASSUME NEW k \in DOMAIN s, k # pos
      PROVE  \E j \in DOMAIN M : M[j] = s[k] /\ j <= k
  <2>1. CASE k < pos
    <3>1. k \in DOMAIN M /\ M[k] = s[k]
      BY <1>1, <2>1
    <3>. QED  BY <3>1, <1>1
  <2>2. CASE k > pos
    <3>1. k - 1 \in DOMAIN M /\ M[k - 1] = s[k]
      BY <1>1, <2>2
    <3>. QED  BY <3>1, <1>1
  <2>. QED  BY <1>1, <1>3, <2>1, <2>2
<1>. QED  BY <1>2, <1>3 DEF M

(* A list without its first entry. *)
LEMMA TailEntries ==
    ASSUME NEW S, NEW s \in Seq(S), s # <<>>
    PROVE  /\ Head(s) = s[1] /\ Head(s) \in S /\ Len(s) \in Nat \ {0}
           /\ Tail(s) \in Seq(S) /\ Len(Tail(s)) = Len(s) - 1
           /\ \A k \in 1 .. Len(s) - 1 : Tail(s)[k] = s[k + 1]
           /\ Range(s) = Range(Tail(s)) \union {Head(s)}
<1>1. /\ Head(s) = s[1] /\ Len(s) \in Nat \ {0} /\ DOMAIN s = 1 .. Len(s)
      /\ Tail(s) \in Seq(S) /\ Len(Tail(s)) = Len(s) - 1 /\ DOMAIN Tail(s) = 1 .. Len(s) - 1
      /\ \A k \in 1 .. Len(s) - 1 : Tail(s)[k] = s[k + 1]
  OBVIOUS
<1>2. Head(s) \in S
  BY <1>1
<1>3. \A k \in 1 .. Len(s) : k = 1 \/ (k - 1 \in 1 .. Len(s) - 1 /\ Tail(s)[k - 1] = s[k])
  BY <1>1
<1>4. \A k \in 1 .. Len(s) - 1 : k + 1 \in 1 .. Len(s)
  BY <1>1
<1>5. 1 \in 1 .. Len(s)
  BY <1>1
<1>6. Range(s) = Range(Tail(s)) \union {Head(s)}
  <2>1. ASSUME NEW k \in 1 .. Len(s) PROVE s[k] \in Range(Tail(s)) \union {Head(s)}
    BY <1>1, <1>3 DEF Range
  <2>2. ASSUME NEW k \in 1 .. Len(s) - 1 PROVE Tail(s)[k] \in Range(s)
    BY <1>1, <1>4 DEF Range
  <2>3. Head(s) \in Range(s)
    BY <1>1, <1>5 DEF Range
  <2>. QED  BY <1>1, <2>1, <2>2, <2>3 DEF Range
<1>. QED  BY <1>1, <1>2, <1>6
-----------------------------------------------------------------------------
(* The list is a list without repetitions, also when it is extended or cut. *)
LEMMA ListType ==
    ASSUME TypeOK
    PROVE  /\ \A c \in Children \ Range(transports) :
                 Append(transports, c) \in Seq(Children) /\ IsInjective(Append(transports, c))
           /\ \A k \in DOMAIN transports :
                 /\ RemoveAt(transports, k) \in Seq(Children) /\ IsInjective(RemoveAt(transports, k))
                 /\ \A c \in Range(transports) \ {transports[k]} : c \in Range(RemoveAt(transports, k))
                 /\ Range(RemoveAt(transports, k)) \subseteq Range(transports) \ {transports[k]}
<1>1. transports \in Seq(Children) /\ IsInjective(transports)
  BY DEF TypeOK
<1>2. DOMAIN transports = 1..Len(transports)
  BY <1>1
<1>3. ASSUME NEW k \in DOMAIN transports, NEW c \in Range(transports) \ {transports[k]}
      PROVE  c \in Range(RemoveAt(transports, k))
  <2>1. PICK n \in DOMAIN transports : transports[n] = c
    BY DEF Range
  <2>2. n \in DOMAIN transports \ {k}
    BY <2>1
  <2>3. \E j \in DOMAIN RemoveAt(transports, k) : RemoveAt(transports, k)[j] = transports[n]
    BY <1>1, <1>2, <2>2, RemoveAtKeeps
  <2>. QED  BY <2>1, <2>3 DEF Range
<1>4. ASSUME NEW k \in DOMAIN transports
      PROVE  Range(RemoveAt(transports, k)) \subseteq Range(transports) \ {transports[k]}
  <2>1. /\ RemoveAt(transports, k) \in Seq(Children)
        /\ Len(RemoveAt(transports, k)) = Len(transports) - 1
        /\ \A j \in 1..Len(transports) - 1 :
              RemoveAt(transports, k)[j] = IF j < k THEN transports[j] ELSE transports[j + 1]
    BY <1>1, <1>2, RemoveAtEntries, Zenon
  <2>2. \A r \in Seq(Children) : DOMAIN r = 1..Len(r)
    OBVIOUS
  <2>3. Len(transports) \in Nat
    BY <1>1
  <2>4. ASSUME NEW j \in 1..Len(transports) - 1
        PROVE  \E m \in DOMAIN transports : m # k /\ RemoveAt(transports, k)[j] = transports[m]
    <3>1. CASE j < k
      BY <1>2, <2>1, <2>3, <3>1
    <3>2. CASE ~(j < k)
      <4>1. j + 1 \in DOMAIN transports /\ j + 1 # k
        BY <1>2, <2>3, <3>2
      <4>. QED  BY <2>1, <3>2, <4>1
    <3>. QED  BY <3>1, <3>2
  <2>5. \A m \in DOMAIN transports : m # k => transports[m] \in Range(transports) \ {transports[k]}
    BY <1>1 DEF Range, IsInjective
  <2>. QED  BY <2>1, <2>2, <2>4, <2>5 DEF Range
<1>5. ASSUME NEW c \in Children \ Range(transports)
      PROVE  Append(transports, c) \in Seq(Children) /\ IsInjective(Append(transports, c))
  BY <1>1, AppendEntries, AppendKeeps
<1>6. ASSUME NEW k \in DOMAIN transports
      PROVE  RemoveAt(transports, k) \in Seq(Children) /\ IsInjective(RemoveAt(transports, k))
  BY <1>1, <1>2, RemoveAtEntries, RemoveAtKeeps
<1>. QED  BY <1>3, <1>4, <1>5, <1>6

(* Starting and stopping a transport keeps what is known of it typed. *)
LEMMA LaunchType ==
    ASSUME TypeOK, NEW c \in Children, Launch(c)
    PROVE  /\ child' \in [Children -> Places] /\ orphan' \in [Children -> Places]
           /\ handle' \in [Children -> {"own", "late", "lost"}] /\ flag' \in [Children -> BOOLEAN]
           /\ promise' \in [Children -> {"pending", "opened", "failed"}] /\ twice' \subseteq Children
<1>1. /\ child \in [Children -> Places] /\ orphan \in [Children -> Places]
      /\ handle \in [Children -> {"own", "late", "lost"}] /\ flag \in [Children -> BOOLEAN]
      /\ promise \in [Children -> {"pending", "opened", "failed"}] /\ twice \subseteq Children
  BY DEF TypeOK
<1>2. child' \in [Children -> Places] /\ orphan' \in [Children -> Places]
  BY <1>1 DEF Launch, Places
<1>3. handle' \in [Children -> {"own", "late", "lost"}]
  <2>1. PICK h \in {"own", "late", "lost"} : handle' = [handle EXCEPT ![c] = h]
    BY DEF Launch
  <2>. QED  BY <1>1, <2>1
<1>4. promise' \in [Children -> {"pending", "opened", "failed"}] /\ flag' = flag
  BY <1>1 DEF Launch
<1>5. twice' \subseteq Children
  BY <1>1 DEF Launch
<1>. QED  BY <1>1, <1>2, <1>3, <1>4, <1>5

(* And so do the lock and the wait of stop(). *)
LEMMA StopType ==
    ASSUME TypeOK, NEW x \in {"mux", "editor"}
    PROVE  /\ \A c \in Children : StopBegin(x, c) =>
                 /\ flag' \in [Children -> BOOLEAN]
                 /\ joining' \in [{"mux", "editor"} -> Children \union {None}]
                 /\ joining'[x] = c /\ \A y \in {"mux", "editor"} \ {x} : joining'[y] = joining[y]
           /\ StopEnd(x) =>
                 /\ handle' \in [Children -> {"own", "late", "lost"}]
                 /\ joining' \in [{"mux", "editor"} -> Children \union {None}]
                 /\ joining'[x] = None /\ \A y \in {"mux", "editor"} \ {x} : joining'[y] = joining[y]
<1>1. /\ joining \in [{"mux", "editor"} -> Children \union {None}] /\ flag \in [Children -> BOOLEAN]
      /\ handle \in [Children -> {"own", "late", "lost"}]
  BY DEF TypeOK
<1>2. ASSUME NEW c \in Children, StopBegin(x, c)
      PROVE  /\ flag' \in [Children -> BOOLEAN]
             /\ joining' \in [{"mux", "editor"} -> Children \union {None}]
             /\ joining'[x] = c /\ \A y \in {"mux", "editor"} \ {x} : joining'[y] = joining[y]
  BY <1>1, <1>2 DEF StopBegin
<1>3. ASSUME StopEnd(x)
      PROVE  /\ handle' \in [Children -> {"own", "late", "lost"}]
             /\ joining' \in [{"mux", "editor"} -> Children \union {None}]
             /\ joining'[x] = None /\ \A y \in {"mux", "editor"} \ {x} : joining'[y] = joining[y]
  <2>1. joining[x] \in Children /\ joining' = [joining EXCEPT ![x] = None]
    BY <1>1, <1>3 DEF StopEnd
  <2>2. PICK h \in {"own", "late", "lost"} : handle' = [handle EXCEPT ![joining[x]] = h]
    BY <1>1, <1>3, <2>1 DEF StopEnd
  <2>. QED  BY <1>1, <2>1, <2>2
<1>. QED  BY <1>2, <1>3

(* Every step of the mux thread keeps the types. *)
LEMMA MuxType == TypeOK /\ MuxStep => TypeOK'
<1>. SUFFICES ASSUME TypeOK, MuxStep PROVE TypeOK'
  OBVIOUS
<1>. USE DEF mux, threads, lives, data, edit, users, histories
<1>0. /\ \A k \in 1..Len(transports) : transports[k] \in Children
      /\ \A k \in 1..Len(promises) : promises[k] \in Children
      /\ \A k \in 1..Len(opened) : opened[k] \in Children
  BY DEF TypeOK
<1>1. CASE StartNext
  <2>1. i \in 1..Len(transports) /\ Launch(transports[i])
    BY <1>1 DEF StartNext, TypeOK
  <2>2. promises' \in Seq(Children)
    BY <1>0, <1>1, <2>1 DEF StartNext, TypeOK
  <2>. QED  BY <1>0, <1>1, <2>1, <2>2, LaunchType DEF StartNext, TypeOK
<1>2. CASE StartsDone
  BY <1>2 DEF StartsDone, TypeOK
<1>3. CASE AwaitNext
  <2>1. transports[i] \in Children /\ i + 1 \in Nat \ {0}
    BY <1>0, <1>3 DEF AwaitNext, More, TypeOK
  <2>2. \/ opened' = Append(opened, transports[i]) /\ UNCHANGED failed
        \/ failed' = TRUE /\ UNCHANGED opened
    BY <1>3 DEF AwaitNext
  <2>3. opened' \in Seq(Children)
    <3>1. opened \in Seq(Children) /\ (opened' = opened \/ opened' = Append(opened, transports[i]))
      BY <2>2 DEF TypeOK
    <3>. QED  BY <2>1, <3>1
  <2>4. failed' \in BOOLEAN
    BY <2>2 DEF TypeOK
  <2>. QED  BY <1>3, <2>1, <2>3, <2>4 DEF AwaitNext, TypeOK
<1>4. CASE AwaitTimeout
  <2>1. promises[i] \in Children
    BY <1>0, <1>4 DEF AwaitTimeout, More, TypeOK
  <2>. QED  BY <1>4, <2>1 DEF AwaitTimeout, TypeOK
<1>5. CASE AwaitsDone
  BY <1>5 DEF AwaitsDone, TypeOK
<1>6. CASE RunEnter
  <2>0. promises' = <<>> /\ opened' = <<>> /\ i' = 1
    BY <1>6 DEF RunEnter, Forget
  <2>1. promises' \in Seq(Children) /\ opened' \in Seq(Children) /\ i' \in Nat \ {0}
    BY <2>0
  <2>3. failed' \in BOOLEAN /\ promise' \in [Children -> {"pending", "opened", "failed"}]
    BY <1>6 DEF RunEnter, Forget
  <2>2. /\ pc = "entering" /\ pc' = "loop" /\ running' = TRUE
        /\ UNCHANGED <<transports, threads, flag, joining, users, histories>>
    BY <1>6 DEF RunEnter
  <2>. QED  BY <2>1, <2>2, <2>3 DEF TypeOK
<1>7. CASE LoopCheck
  BY <1>7 DEF LoopCheck, TypeOK
<1>8. CASE GetTimeout
  BY <1>8 DEF GetTimeout, TypeOK
<1>9. CASE Get
  BY <1>9 DEF Get, TypeOK
<1>10. CASE GetRaises
  BY <1>10 DEF GetRaises, TypeOK
<1>11. CASE StopNext
  <2>1. pc \in {"abort", "stop"} /\ Stopping[i] \in Children
    BY <1>0, <1>11 DEF StopNext, Stopping, TypeOK
  <2>2. /\ StopBegin("mux", Stopping[i])
        /\ UNCHANGED <<transports, mux, threads, promise, users, histories>>
    BY <1>11 DEF StopNext
  <2>3. /\ flag' \in [Children -> BOOLEAN]
        /\ joining' \in [{"mux", "editor"} -> Children \union {None}]
    BY <2>1, <2>2, StopType
  <2>. QED  BY <2>1, <2>2, <2>3 DEF TypeOK
<1>12. CASE StopNextDone
  <2>1. /\ StopEnd("mux") /\ i' = i + 1
        /\ UNCHANGED <<transports, pc, promises, opened, failed, running, child, orphan, flag,
                       promise, users, histories>>
    BY <1>12 DEF StopNextDone
  <2>2. /\ handle' \in [Children -> {"own", "late", "lost"}] /\ joining'["mux"] = None
        /\ joining' \in [{"mux", "editor"} -> Children \union {None}]
    BY <2>1, StopType
  <2>. QED  BY <2>1, <2>2 DEF TypeOK
<1>13. CASE MuxEnds
  <2>0. promises' = <<>> /\ opened' = <<>> /\ i' = 1
    BY <1>13 DEF MuxEnds, Forget
  <2>1. promises' \in Seq(Children) /\ opened' \in Seq(Children) /\ i' \in Nat \ {0}
    BY <2>0
  <2>3. failed' \in BOOLEAN /\ promise' \in [Children -> {"pending", "opened", "failed"}]
    BY <1>13 DEF MuxEnds, Forget
  <2>2. /\ joining["mux"] = None /\ pc' = "down" /\ running' = FALSE
        /\ UNCHANGED <<transports, threads, flag, joining, users, histories>>
    BY <1>13 DEF MuxEnds
  <2>. QED  BY <2>1, <2>2, <2>3 DEF TypeOK
<1>. QED  BY <1>1, <1>2, <1>3, <1>4, <1>5, <1>6, <1>7, <1>8, <1>9, <1>10, <1>11, <1>12, <1>13
          DEF MuxStep

(* Every step of the others keeps the types. *)
LEMMA OthersType == TypeOK /\ [Next]_vars /\ ~MuxStep => TypeOK'
<1>. SUFFICES ASSUME TypeOK, [Next]_vars, ~MuxStep PROVE TypeOK'
  OBVIOUS
<1>. USE DEF mux, threads, lives, data, edit, users, histories
<1>1. CASE Start
  BY <1>1 DEF Start, TypeOK
<1>2. CASE StopCall
  BY <1>2 DEF StopCall, TypeOK
<1>3. CASE StopReturn
  BY <1>3 DEF StopReturn, TypeOK
<1>4. CASE AddedStart
  <2>1. edited \in Children /\ Launch(edited) /\ loose' \subseteq Children
    BY <1>4 DEF AddedStart, TypeOK
  <2>2. Edited /\ UNCHANGED <<transports, mux, joining, owner>>
    BY <1>4 DEF AddedStart
  <2>. QED  BY <2>1, <2>2, LaunchType DEF TypeOK, Edited
<1>5. CASE RemoveDone
  <2>1. StopEnd("editor") /\ UNCHANGED <<transports, mux, child, orphan, flag, promise, users, histories>>
    BY <1>5 DEF RemoveDone
  <2>2. /\ handle' \in [Children -> {"own", "late", "lost"}] /\ joining'["mux"] = joining["mux"]
        /\ joining' \in [{"mux", "editor"} -> Children \union {None}]
    BY <2>1, StopType
  <2>. QED  BY <2>1, <2>2 DEF TypeOK
<1>6. ASSUME NEW c \in Children,
             ChildOpen(c) \/ ChildOpened(c) \/ ChildEnter(c) \/ ChildEnds(c) \/ OrphanEnter(c) \/ OrphanEnds(c)
      PROVE  TypeOK'
  <2>1. /\ child' \in [Children -> Places] /\ orphan' \in [Children -> Places]
        /\ flag' \in [Children -> BOOLEAN]
        /\ promise' \in [Children -> {"pending", "opened", "failed"}]
    BY <1>6 DEF ChildOpen, ChildOpened, ChildEnter, ChildEnds, OrphanEnter, OrphanEnds, TypeOK, Places
  <2>2. UNCHANGED <<transports, mux, handle, joining, users, histories>>
    BY <1>6 DEF ChildOpen, ChildOpened, ChildEnter, ChildEnds, OrphanEnter, OrphanEnds
  <2>. QED  BY <2>1, <2>2 DEF TypeOK
<1>7. ASSUME NEW c \in Children, Receive(c) \/ OrphanReads(c) \/ OrphanReceives(c) \/ SenderReconnects(c)
      PROVE  TypeOK'
  BY <1>7 DEF Receive, OrphanReads, OrphanReceives, SenderReconnects, TypeOK
<1>8. ASSUME NEW c \in Children, AddTransport(c) PROVE TypeOK'
  <2>1. transports' \in Seq(Children) /\ IsInjective(transports')
    BY <1>8, ListType DEF AddTransport
  <2>2. c # None
    BY NobodyElse
  <2>. QED  BY <1>8, <2>1, <2>2 DEF AddTransport, TypeOK
<1>9. ASSUME NEW c \in Children, RemoveTransport(c) PROVE TypeOK'
  <2>1. transports' \in Seq(Children) /\ IsInjective(transports')
    BY <1>9, ListType DEF RemoveTransport
  <2>2. c # None
    BY NobodyElse
  <2>. QED  BY <1>9, <2>1, <2>2 DEF RemoveTransport, TypeOK
<1>10. CASE UNCHANGED vars
  BY <1>10 DEF vars, TypeOK
<1>11. CASE AddedLook
  BY <1>11 DEF AddedLook, Edited, TypeOK
<1>12. CASE RemoveStop
  <2>1. edited \in Children /\ StopBegin("editor", edited)
    BY <1>12 DEF RemoveStop, TypeOK
  <2>2. Edited /\ UNCHANGED <<transports, mux, threads, promise, owner, histories>>
    BY <1>12 DEF RemoveStop
  <2>. QED  BY <2>1, <2>2, StopType DEF TypeOK, Edited
<1>. QED  BY <1>1, <1>2, <1>3, <1>4, <1>5, <1>6, <1>7, <1>8, <1>9, <1>10, <1>11, <1>12
          DEF Next, EditorStep, ChildStep

(* Every step keeps the types. *)
LEMMA TypeStep == TypeOK /\ [Next]_vars => TypeOK'
BY MuxType, OthersType

(* In the beginning the list holds some of the transports, in any order. *)
LEMMA TypeInit == Init => TypeOK
<1>. SUFFICES ASSUME Init PROVE TypeOK
  OBVIOUS
<1>1. PICK S \in SUBSET Children : transports \in SetToSeqs(S)
  BY DEF Init
<1>2. /\ transports \in [1..Cardinality(S) -> S]
      /\ \A j, k \in 1..Cardinality(S) : j # k => transports[j] # transports[k]
  BY <1>1 DEF SetToSeqs
<1>3. Cardinality(S) \in Nat
  BY Finite, FS_Subset, FS_CardinalityType
<1>4. transports \in Seq(Children) /\ IsInjective(transports)
  BY <1>2, <1>3, SeqDef DEF IsInjective
<1>5. promises = <<>> /\ opened = <<>>
  BY DEF Init
<1>6. promises \in Seq(Children) /\ opened \in Seq(Children)
  BY <1>5
<1>7. failed \in BOOLEAN /\ running \in BOOLEAN /\ ~running
  BY DEF Init
<1>8. /\ pc = "down" /\ i = 1 /\ joining["mux"] = None /\ owner \in BOOLEAN
      /\ joining \in [{"mux", "editor"} -> Children \union {None}]
      /\ editor = "idle" /\ edited = None /\ loose = {} /\ twice = {}
  BY DEF Init
<1>9. /\ child \in [Children -> Places] /\ orphan \in [Children -> Places]
      /\ handle \in [Children -> {"own", "late", "lost"}] /\ flag \in [Children -> BOOLEAN]
      /\ promise \in [Children -> {"pending", "opened", "failed"}]
  BY DEF Init, Places
<1>. QED  BY <1>4, <1>6, <1>7, <1>8, <1>9 DEF TypeOK

(* The types are kept, whoever is at the turn. *)
THEOREM TypeCorrect == Spec => []TypeOK
<1>. QED  BY TypeInit, TypeStep, PTL DEF Spec
-----------------------------------------------------------------------------
(* Unless the mux has lost track of all transports, its promises are those *)
(* of the first transports of the list, in their order.                    *)
Prefix == Len(promises) <= Len(transports) /\ \A k \in DOMAIN promises : promises[k] = transports[k]

(* Who will stop a transport that is alive: the editor, or the mux, which  *)
(* has its promise still to look at, or has it in the list to go through.  *)
Known(c) ==
    \/ joining["editor"] = c
    \/ editor = "stop" /\ edited = c
    \/ pc = "start" /\ c \in Range(promises)
    \/ pc = "await" /\ \E k \in DOMAIN promises : promises[k] = c /\ (k >= i \/ c \in Range(opened))
    \/ pc = "abort" /\ \E k \in DOMAIN opened : k >= i /\ opened[k] = c
    \/ pc \in {"entering", "loop", "get"} /\ c \in Range(transports)
    \/ pc = "stop" /\ \E k \in DOMAIN transports : k >= i /\ transports[k] = c

AliveInv == \A c \in Children \ loose : child[c] # "down" => Known(c)

(* What is being added is in the list, and what is being removed is not.   *)
EditorInv ==
    /\ editor \in {"look", "start"} => edited \in Range(transports)
    /\ editor = "start" => pc \in {"loop", "get", "stop", "down"}
    /\ editor = "stop" => edited \notin Range(transports)
    /\ editor # "idle" => joining["editor"] = None
    /\ joining["editor"] \notin Range(transports)

(* Whoever stops a transport that the mux knows of waits for its newest    *)
(* thread; and an older one there is only after a second start().          *)
ThreadInv ==
    /\ \A c \in Children \ loose : child[c] # "down" => handle[c] = "own"
    /\ \A c \in Children \ twice : orphan[c] = "down"

PromisesInv ==
    /\ pc = "start" => Len(promises) = i - 1
    /\ pc \in {"start", "await"} /\ loose # Children => Prefix
    /\ pc \in {"down", "loop", "get"} => promises = <<>> /\ i = 1
JoinInv ==
    joining["mux"] # None /\ loose # Children => i <= Len(Stopping) /\ joining["mux"] = Stopping[i]
AnswerInv ==
    \A c \in Children : /\ promise[c] = "failed" => child[c] = "down"
                        /\ promise[c] # "pending" => child[c] \notin {"launched", "opening"}

(* What has been waited for has opened, if nothing has failed. *)
OpenedInv ==
    /\ pc = "await" /\ ~failed => \A c \in Range(transports) \ loose :
          \E k \in DOMAIN promises : promises[k] = c /\ (k < i => promise[c] = "opened")
    /\ pc = "entering" => \A c \in Range(transports) \ loose : promise[c] = "opened"

Inv == /\ TypeOK /\ AliveInv /\ EditorInv /\ ThreadInv
       /\ PromisesInv /\ JoinInv /\ AnswerInv /\ OpenedInv

(* What the lists are, for the steps that look at their entries. *)
LEMMA Entries ==
    ASSUME TypeOK
    PROVE  /\ DOMAIN transports = 1..Len(transports) /\ Len(transports) \in Nat
           /\ DOMAIN promises = 1..Len(promises) /\ Len(promises) \in Nat
           /\ DOMAIN opened = 1..Len(opened) /\ Len(opened) \in Nat
           /\ \A k \in 1..Len(transports) : transports[k] \in Children
           /\ \A k \in 1..Len(promises) : promises[k] \in Children
           /\ \A k \in 1..Len(opened) : opened[k] \in Children
           /\ i \in Nat \ {0}
           /\ pc \notin {"abort", "stop"} => joining["mux"] = None
BY DEF TypeOK

(* open() starts the next transport: it has its promise. *)
LEMMA StartNextKeeps == Inv /\ StartNext => Inv'
<1>. SUFFICES ASSUME Inv, StartNext PROVE Inv'
  OBVIOUS
<1>0. TypeOK'
  BY MuxType DEF Inv, MuxStep
<1>1. /\ pc = "start" /\ i \in 1..Len(transports) /\ pc' = "start"
      /\ child' = [child EXCEPT ![transports[i]] = "launched"]
      /\ promise' = [promise EXCEPT ![transports[i]] = "pending"]
      /\ promises' = Append(promises, transports[i]) /\ i' = i + 1
      /\ UNCHANGED <<transports, opened, failed, joining, editor, edited, loose>>
  BY Entries DEF StartNext, Launch, users, edit, Inv
<1>2. transports[i] \in Children /\ promises \in Seq(Children)
  BY <1>1, Entries DEF Inv, TypeOK
<1>3. /\ Len(promises') = Len(promises) + 1 /\ Range(promises') = Range(promises) \union {transports[i]}
      /\ \A k \in 1..Len(promises) : promises'[k] = promises[k]
      /\ promises'[Len(promises) + 1] = transports[i]
  BY <1>1, <1>2, AppendEntries
<1>4. AliveInv'
  BY <1>1, <1>2, <1>3 DEF Inv, AliveInv, Known, TypeOK
<1>5. PromisesInv'
  <2>1. Len(promises) = i - 1
    BY <1>1 DEF Inv, PromisesInv
  <2>2. loose # Children => Prefix'
    <3>1. ASSUME loose # Children, NEW k \in DOMAIN promises' PROVE promises'[k] = transports[k]
      <4>1. k \in 1..Len(promises) \/ k = Len(promises) + 1
        BY <1>0, <1>3, Entries DEF TypeOK, Inv
      <4>2. Prefix
        BY <1>1, <3>1 DEF Inv, PromisesInv
      <4>. QED  BY <1>1, <1>3, <2>1, <4>1, <4>2, Entries DEF Prefix, Inv
    <3>. QED  BY <1>1, <1>3, <2>1, <3>1, Entries DEF Prefix, Inv
  <2>. QED  BY <1>1, <1>3, <2>1, <2>2, Entries DEF PromisesInv, Inv
<1>6. AnswerInv'
  BY <1>1, <1>2 DEF Inv, AnswerInv, TypeOK
<1>7. ThreadInv'
  <2>1. transports[i] \in Range(transports)
    BY <1>1, Entries DEF Inv, Range
  <2>2. \A x \in DOMAIN joining : joining[x] # transports[i]
    <3>1. joining["mux"] = None /\ joining["editor"] # transports[i]
      BY <1>1, <2>1, Entries DEF Inv, EditorInv
    <3>. QED  BY <1>2, <3>1, NobodyElse DEF Inv, TypeOK
  <2>3. Launch(transports[i])
    BY DEF StartNext
  <2>4. /\ handle' = [handle EXCEPT ![transports[i]] = "own"]
        /\ \A c \in Children \ twice' : orphan'[c] = orphan[c] /\ c \notin twice
    BY <1>2, <2>2, <2>3 DEF Launch, Inv, TypeOK
  <2>. QED  BY <1>1, <1>2, <2>4 DEF Inv, ThreadInv, TypeOK
<1>. QED  BY <1>0, <1>1, <1>4, <1>5, <1>6, <1>7, Entries DEF Inv, EditorInv, JoinInv, OpenedInv

(* All are started: the promises are those of the whole list. *)
LEMMA StartsDoneKeeps == Inv /\ StartsDone => Inv'
<1>. SUFFICES ASSUME Inv, StartsDone PROVE Inv'
  OBVIOUS
<1>0. TypeOK'
  BY MuxType DEF Inv, MuxStep
<1>1. /\ pc = "start" /\ i > Len(transports) /\ pc' = "await" /\ i' = 1
      /\ UNCHANGED <<transports, promises, opened, failed, child, promise, joining, editor, edited, handle, orphan, loose, twice>>
  BY DEF StartsDone, lives, threads, users, edit, histories
<1>2. AliveInv'
  <2>1. \A k \in DOMAIN promises : k >= i'
    BY <1>1, Entries DEF Inv
  <2>. QED  BY <1>1, <2>1 DEF Inv, AliveInv, Known, Range
<1>3. OpenedInv'
  <2>1. ASSUME NEW c \in Range(transports) \ loose
        PROVE  \E k \in DOMAIN promises : promises[k] = c /\ ~(k < 1)
    <3>1. PICK k \in DOMAIN transports : transports[k] = c
      BY DEF Range
    <3>2. loose # Children /\ Len(promises) = i - 1
      BY <1>1, <3>1, Entries DEF Inv, PromisesInv
    <3>3. k \in DOMAIN promises /\ Prefix
      BY <1>1, <3>2, Entries DEF Inv, PromisesInv
    <3>. QED  BY <3>1, <3>3, Entries DEF Prefix, Inv
  <2>. QED  BY <1>1, <2>1 DEF OpenedInv
<1>. QED  BY <1>0, <1>1, <1>2, <1>3, Entries
          DEF Inv, EditorInv, ThreadInv, PromisesInv, Prefix, JoinInv, AnswerInv

(* open() gets an answer: the transport has opened, or is down. *)
LEMMA AwaitNextKeeps == Inv /\ AwaitNext => Inv'
<1>. SUFFICES ASSUME Inv, AwaitNext PROVE Inv'
  OBVIOUS
<1>0. TypeOK'
  BY MuxType DEF Inv, MuxStep
<1>. DEFINE c0 == promises[i]
<1>1. /\ pc = "await" /\ i \in 1..Len(transports) /\ i \in DOMAIN promises /\ pc' = "await"
      /\ promise[c0] # "pending" /\ i' = i + 1
      /\ UNCHANGED <<transports, promises, child, promise, joining, editor, edited, handle, orphan, loose, twice>>
  BY Entries DEF AwaitNext, More, lives, threads, users, edit, histories, Inv
<1>2. \/ promise[c0] = "opened" /\ opened' = Append(opened, transports[i]) /\ failed' = failed
      \/ promise[c0] # "opened" /\ failed' /\ opened' = opened
  BY DEF AwaitNext
<1>3. c0 \in Children /\ transports[i] \in Children
  BY <1>1, Entries DEF Inv
<1>4. /\ Range(opened) \subseteq Range(opened')
      /\ promise[c0] = "opened" => transports[i] \in Range(opened')
  <2>1. opened \in Seq(Children)
    BY DEF Inv, TypeOK
  <2>2. Range(Append(opened, transports[i])) = Range(opened) \union {transports[i]}
    BY <1>3, <2>1, AppendEntries
  <2>. QED  BY <1>2, <2>2
<1>. HIDE DEF c0
<1>5. AliveInv'
  <2>. SUFFICES ASSUME NEW c \in Children \ loose, child[c] # "down" PROVE Known(c)'
    BY <1>1 DEF AliveInv
  <2>1. Known(c)
    BY DEF Inv, AliveInv
  <2>2. CASE joining["editor"] = c \/ (editor = "stop" /\ edited = c)
    BY <1>1, <2>2 DEF Known
  <2>3. ASSUME NEW k \in DOMAIN promises, promises[k] = c, k >= i \/ c \in Range(opened)
        PROVE  Known(c)'
    <3>1. CASE k >= i + 1 \/ c \in Range(opened)
      BY <1>1, <1>4, <2>3, <3>1 DEF Known
    <3>2. CASE k = i
      <4>1. c = c0 /\ c = transports[i]
        BY <1>1, <2>3, <3>2 DEF Inv, PromisesInv, Prefix, c0
      <4>2. promise[c0] = "opened"
        BY <1>1, <1>3, <4>1 DEF Inv, AnswerInv, TypeOK
      <4>. QED  BY <1>1, <1>4, <2>3, <4>1, <4>2 DEF Known
    <3>. QED  BY <1>1, <2>3, <3>1, <3>2, Entries DEF Inv
  <2>. QED  BY <1>1, <2>1, <2>2, <2>3 DEF Known
<1>6. OpenedInv'
  <2>1. ASSUME ~failed', NEW c \in Range(transports) \ loose
        PROVE  \E k \in DOMAIN promises : promises[k] = c /\ (k < i + 1 => promise[c] = "opened")
    <3>1. ~failed /\ promise[c0] = "opened"
      BY <1>2, <2>1
    <3>2. PICK k \in DOMAIN promises : promises[k] = c /\ (k < i => promise[c] = "opened")
      BY <1>1, <2>1, <3>1 DEF Inv, OpenedInv
    <3>3. k < i + 1 => k < i \/ k = i
      BY <1>1, Entries DEF Inv
    <3>. QED  BY <3>1, <3>2, <3>3 DEF c0
  <2>. QED  BY <1>1, <2>1 DEF OpenedInv
<1>. QED  BY <1>0, <1>1, <1>5, <1>6, Entries
          DEF Inv, EditorInv, ThreadInv, PromisesInv, Prefix, JoinInv, AnswerInv

(* open() gives one up, which the mux has then lost track of. *)
LEMMA AwaitTimeoutKeeps == Inv /\ AwaitTimeout => Inv'
<1>. SUFFICES ASSUME Inv, AwaitTimeout PROVE Inv'
  OBVIOUS
<1>0. TypeOK'
  BY MuxType DEF Inv, MuxStep
<1>1. /\ pc = "await" /\ i \in DOMAIN promises /\ pc' = "await" /\ failed' /\ i' = i + 1
      /\ loose' = loose \union {promises[i]}
      /\ UNCHANGED <<transports, promises, opened, child, promise, joining, editor, edited, handle, orphan, twice>>
  BY Entries DEF AwaitTimeout, More, lives, threads, users, edit, Inv
<1>2. loose \subseteq Children /\ promises[i] \in Children
  BY <1>1, Entries DEF Inv, TypeOK
<1>3. AliveInv'
  <2>. SUFFICES ASSUME NEW c \in Children \ loose', child[c] # "down" PROVE Known(c)'
    BY <1>1 DEF AliveInv
  <2>1. Known(c) /\ c # promises[i]
    BY <1>1 DEF Inv, AliveInv
  <2>2. \A k \in DOMAIN promises : promises[k] = c /\ k >= i => k >= i + 1
    BY <2>1, Entries DEF Inv
  <2>. QED  BY <1>1, <2>1, <2>2 DEF Known
<1>. QED  BY <1>0, <1>1, <1>2, <1>3, Entries
          DEF Inv, EditorInv, ThreadInv, PromisesInv, Prefix, JoinInv, AnswerInv, OpenedInv

(* All promises were looked at: what is alive is in `opened`. *)
LEMMA AwaitsDoneKeeps == Inv /\ AwaitsDone => Inv'
<1>. SUFFICES ASSUME Inv, AwaitsDone PROVE Inv'
  OBVIOUS
<1>0. TypeOK'
  BY MuxType DEF Inv, MuxStep
<1>1. /\ pc = "await" /\ ~More /\ pc' = (IF failed THEN "abort" ELSE "entering") /\ i' = 1
      /\ UNCHANGED <<transports, promises, opened, child, promise, joining, editor, edited, handle, orphan, loose, twice>>
  BY DEF AwaitsDone, lives, threads, users, edit, histories
<1>2. ASSUME loose # Children
      PROVE  /\ \A k \in DOMAIN promises : k < i /\ k \in DOMAIN transports
             /\ Prefix
  BY <1>1, <1>2, Entries DEF Inv, PromisesInv, Prefix, More
<1>3. AliveInv'
  <2>. SUFFICES ASSUME NEW c \in Children \ loose, child[c] # "down" PROVE Known(c)'
    BY <1>1 DEF AliveInv
  <2>0. Known(c)
    BY DEF Inv, AliveInv
  <2>1. CASE joining["editor"] = c \/ (editor = "stop" /\ edited = c)
    BY <1>1, <2>1 DEF Known
  <2>2. CASE ~(joining["editor"] = c \/ (editor = "stop" /\ edited = c))
    <3>1. PICK k \in DOMAIN promises : promises[k] = c /\ (k >= i \/ c \in Range(opened))
      BY <1>1, <2>0, <2>2 DEF Known
    <3>2. k < i /\ k \in DOMAIN transports /\ transports[k] = c
      BY <1>2, <3>1 DEF Prefix
    <3>3. c \in Range(opened) /\ c \in Range(transports)
      BY <1>1, <3>1, <3>2, Entries DEF Inv, Range
    <3>4. \E n \in DOMAIN opened : n >= 1 /\ opened[n] = c
      BY <3>3, Entries DEF Inv, Range
    <3>. QED  BY <1>1, <3>3, <3>4 DEF Known
  <2>. QED  BY <2>1, <2>2
<1>4. OpenedInv'
  <2>1. ASSUME ~failed, NEW c \in Range(transports) \ loose PROVE promise[c] = "opened"
    <3>1. PICK k \in DOMAIN promises : promises[k] = c /\ (k < i => promise[c] = "opened")
      BY <1>1, <2>1 DEF Inv, OpenedInv
    <3>2. loose # Children
      BY <3>1, Entries DEF Inv
    <3>. QED  BY <1>2, <3>1, <3>2
  <2>. QED  BY <1>1, <2>1 DEF OpenedInv
<1>. QED  BY <1>0, <1>1, <1>3, <1>4, Entries
          DEF Inv, EditorInv, ThreadInv, PromisesInv, Prefix, JoinInv, AnswerInv

(* The mux enters its loop, goes through it, or on_received raises, upon   *)
(* which it has lost track of all.                                         *)
LEMMA LoopKeeps ==
    Inv /\ (RunEnter \/ LoopCheck \/ GetTimeout \/ Get \/ GetRaises) => Inv'
<1>. SUFFICES ASSUME Inv, RunEnter \/ LoopCheck \/ GetTimeout \/ Get \/ GetRaises PROVE Inv'
  OBVIOUS
<1>. USE DEF mux, threads, lives, edit, users, histories
<1>0. TypeOK'
  BY MuxType DEF Inv, MuxStep
<1>1. CASE RunEnter
  <2>1. /\ pc = "entering" /\ pc' = "loop" /\ promises' = <<>> /\ i' = 1
        /\ \A c \in Children : promise'[c] = "pending"
        /\ UNCHANGED <<transports, child, joining, editor, edited, handle, orphan, loose, twice>>
    BY <1>1 DEF RunEnter, Forget
  <2>2. AliveInv'
    BY <2>1 DEF Inv, AliveInv, Known
  <2>. QED  BY <1>0, <2>1, <2>2, Entries
            DEF Inv, EditorInv, ThreadInv, PromisesInv, JoinInv, AnswerInv, OpenedInv
<1>2. CASE LoopCheck \/ GetTimeout \/ Get
  <2>1. /\ pc \in {"loop", "get"} /\ pc' \in {"loop", "get", "stop"} /\ i = 1 /\ i' = 1
        /\ UNCHANGED <<transports, promises, opened, child, promise, joining, editor, edited, handle, orphan, loose, twice>>
    BY <1>2 DEF LoopCheck, GetTimeout, Get, Inv, PromisesInv
  <2>2. AliveInv'
    <3>1. \A c \in Range(transports) : \E k \in DOMAIN transports : k >= i' /\ transports[k] = c
      BY <2>1, Entries DEF Inv, Range
    <3>. QED  BY <2>1, <3>1 DEF Inv, AliveInv, Known
  <2>. QED  BY <1>0, <2>1, <2>2, Entries
            DEF Inv, EditorInv, ThreadInv, PromisesInv, JoinInv, AnswerInv, OpenedInv
<1>3. CASE GetRaises
  <2>1. /\ pc = "get" /\ pc' = "down" /\ loose' = Children
        /\ UNCHANGED <<transports, i, promises, child, promise, joining, editor, edited, handle, orphan, twice>>
    BY <1>3 DEF GetRaises
  <2>. QED  BY <1>0, <2>1, Entries
            DEF Inv, AliveInv, EditorInv, ThreadInv, PromisesInv, JoinInv, AnswerInv, OpenedInv
<1>. QED  BY <1>1, <1>2, <1>3

(* The mux stops one after the other, and waits for each; then it ends. *)
LEMMA StopsKeep == Inv /\ (StopNext \/ StopNextDone \/ MuxEnds) => Inv'
<1>. SUFFICES ASSUME Inv, StopNext \/ StopNextDone \/ MuxEnds PROVE Inv'
  OBVIOUS
<1>. USE DEF mux, threads, lives, edit, users, histories
<1>0. TypeOK'
  BY MuxType DEF Inv, MuxStep
<1>1. CASE StopNext
  <2>1. /\ i <= Len(Stopping) /\ joining' = [joining EXCEPT !["mux"] = Stopping[i]]
        /\ UNCHANGED <<transports, pc, i, promises, opened, failed, child, promise, editor, edited, handle, orphan, loose, twice>>
    BY <1>1 DEF StopNext, StopBegin
  <2>2. joining'["mux"] = Stopping[i] /\ joining'["editor"] = joining["editor"]
    BY <2>1 DEF Inv, TypeOK
  <2>3. Stopping' = Stopping
    BY <2>1 DEF Stopping
  <2>4. AliveInv'
    BY <2>1, <2>2 DEF Inv, AliveInv, Known
  <2>. QED  BY <1>0, <2>1, <2>2, <2>3, <2>4
            DEF Inv, EditorInv, ThreadInv, PromisesInv, Prefix, JoinInv, AnswerInv, OpenedInv
<1>2. CASE StopNextDone
  <2>1. /\ joining["mux"] # None /\ Awaited(joining["mux"]) = "down" /\ i' = i + 1
        /\ joining' = [joining EXCEPT !["mux"] = None] /\ StopEnd("mux")
        /\ UNCHANGED <<transports, pc, promises, opened, failed, child, promise, editor, edited,
                       orphan, loose, twice>>
    BY <1>2 DEF StopNextDone, StopEnd
  <2>2. joining'["mux"] = None /\ joining'["editor"] = joining["editor"] /\ pc \in {"abort", "stop"}
    BY <2>1 DEF Inv, TypeOK
  <2>3. AliveInv'
    <3>. SUFFICES ASSUME NEW c \in Children \ loose, child[c] # "down" PROVE Known(c)'
      BY <2>1 DEF AliveInv
    <3>1. Known(c) /\ Stopping[i] # c
      BY <2>1 DEF Inv, AliveInv, JoinInv, ThreadInv, Awaited
    <3>2. pc = "abort" => \A k \in DOMAIN opened : opened[k] = c /\ k >= i => k >= i + 1
      BY <3>1, Entries DEF Stopping, Inv
    <3>3. pc = "stop" => \A k \in DOMAIN transports : transports[k] = c /\ k >= i => k >= i + 1
      BY <3>1, Entries DEF Stopping, Inv
    <3>. QED  BY <2>1, <2>2, <3>1, <3>2, <3>3 DEF Known
  <2>4. ThreadInv'
    BY <2>1 DEF Inv, TypeOK, ThreadInv, StopEnd
  <2>. QED  BY <1>0, <2>1, <2>2, <2>3, <2>4
            DEF Inv, EditorInv, PromisesInv, JoinInv, AnswerInv, OpenedInv
<1>3. CASE MuxEnds
  <2>1. /\ pc \in {"abort", "stop"} /\ joining["mux"] = None /\ i > Len(Stopping) /\ pc' = "down"
        /\ promises' = <<>> /\ i' = 1 /\ \A c \in Children : promise'[c] = "pending"
        /\ UNCHANGED <<transports, child, joining, editor, edited, handle, orphan, loose, twice>>
    BY <1>3 DEF MuxEnds, Forget
  <2>2. AliveInv'
    <3>. SUFFICES ASSUME NEW c \in Children \ loose, child[c] # "down" PROVE Known(c)'
      BY <2>1 DEF AliveInv
    <3>1. Known(c)
      BY DEF Inv, AliveInv
    <3>2. pc = "abort" => \A k \in DOMAIN opened : k < i
      BY <2>1, Entries DEF Stopping, Inv
    <3>3. pc = "stop" => \A k \in DOMAIN transports : k < i
      BY <2>1, Entries DEF Stopping, Inv
    <3>4. joining["editor"] = c \/ (editor = "stop" /\ edited = c)
      BY <2>1, <3>1, <3>2, <3>3, Entries DEF Known, Inv
    <3>. QED  BY <2>1, <3>4 DEF Known
  <2>3. EditorInv' /\ ThreadInv'
    BY <2>1 DEF Inv, EditorInv, ThreadInv
  <2>. QED  BY <1>0, <2>1, <2>2, <2>3 DEF Inv, PromisesInv, JoinInv, AnswerInv, OpenedInv
<1>. QED  BY <1>1, <1>2, <1>3

(* The owner starts the mux when all is down, or calls stop(). *)
LEMMA OwnerKeeps == Inv /\ (Start \/ StopCall \/ StopReturn) => Inv'
<1>. SUFFICES ASSUME Inv, Start \/ StopCall \/ StopReturn PROVE Inv'
  OBVIOUS
<1>. USE DEF mux, threads, lives, edit, users, histories
<1>0. TypeOK'
  BY TypeStep DEF Inv, Next
<1>1. CASE Start
  <2>1. /\ pc = "down" /\ pc' = "start" /\ loose' = {} /\ editor = "idle"
        /\ \A c \in Children : child[c] = "down"
        /\ UNCHANGED <<transports, i, promises, opened, failed, child, promise, joining, editor, edited, handle, orphan, twice>>
    BY <1>1 DEF Start, EditorIdle, Down
  <2>2. promises = <<>> /\ i = 1
    BY <2>1 DEF Inv, PromisesInv
  <2>3. PromisesInv'
    <3>1. Len(promises) = 0 /\ DOMAIN promises = {} /\ Len(transports) >= 0
      BY <2>2, Entries DEF Inv
    <3>. QED  BY <2>1, <2>2, <3>1 DEF PromisesInv, Prefix
  <2>. QED  BY <1>0, <2>1, <2>3, Entries
            DEF Inv, AliveInv, EditorInv, ThreadInv, JoinInv, AnswerInv, OpenedInv
<1>2. CASE StopCall \/ StopReturn
  <2>1. UNCHANGED <<transports, pc, i, promises, opened, failed, child, promise, joining, editor, edited,
                    handle, orphan, loose, twice>>
    BY <1>2 DEF StopCall, StopReturn
  <2>. QED  BY <1>0, <2>1
            DEF Inv, AliveInv, Known, EditorInv, ThreadInv, PromisesInv, Prefix, JoinInv, Stopping, AnswerInv,
                OpenedInv
<1>. QED  BY <1>1, <1>2

(* A muxed transport opens or fails, runs, ends. *)
LEMMA ChildKeeps ==
    ASSUME Inv, NEW c \in Children, ChildOpen(c) \/ ChildOpened(c) \/ ChildEnter(c) \/ ChildEnds(c)
    PROVE  Inv'
<1>0. TypeOK'
  BY TypeStep DEF Inv, Next, ChildStep
<1>1. UNCHANGED <<transports, pc, i, promises, opened, failed, joining, editor, edited, handle, orphan, loose, twice>>
  BY DEF ChildOpen, ChildOpened, ChildEnter, ChildEnds, mux, users, edit, histories
<1>2. /\ \A d \in Children \ {c} : child'[d] = child[d] /\ promise'[d] = promise[d]
      /\ child[c] # "down"
      /\ \/ child'[c] \in {"entering", "up", "down"} /\ promise'[c] = promise[c]
            /\ (promise[c] = "failed" => child[c] = "down")
         \/ child[c] = "launched" /\ child'[c] = "opening" /\ promise'[c] = promise[c]
         \/ child[c] = "opening" /\ child'[c] = "entering" /\ promise'[c] = "opened"
         \/ child[c] = "opening" /\ child'[c] = "down" /\ promise'[c] = "failed"
  BY DEF ChildOpen, ChildOpened, ChildEnter, ChildEnds, lives, Inv, TypeOK, AnswerInv
<1>3. AliveInv'
  BY <1>1, <1>2 DEF Inv, AliveInv, Known
<1>4. AnswerInv'
  BY <1>2 DEF Inv, AnswerInv
<1>5. \A d \in Children : promise[d] = "opened" => promise'[d] = "opened"
  BY <1>2 DEF Inv, AnswerInv
<1>6. OpenedInv'
  <2>1. \A d \in Range(transports) : d \in Children
    BY Entries DEF Inv, Range
  <2>. QED  BY <1>1, <1>5, <2>1 DEF Inv, OpenedInv
<1>. QED  BY <1>0, <1>1, <1>2, <1>3, <1>4, <1>6
          DEF Inv, EditorInv, ThreadInv, PromisesInv, Prefix, JoinInv, Stopping

(* The thread that was started before it goes on, and ends. *)
LEMMA OrphanKeeps ==
    ASSUME Inv, NEW c \in Children, OrphanEnter(c) \/ OrphanEnds(c)
    PROVE  Inv'
<1>0. TypeOK'
  BY TypeStep DEF Inv, Next, ChildStep
<1>1. UNCHANGED <<transports, pc, i, promises, opened, failed, joining, editor, edited, child, promise,
                  handle, loose, twice>>
  BY DEF OrphanEnter, OrphanEnds, mux, users, edit, histories
<1>2. c \in twice /\ \A d \in Children \ {c} : orphan'[d] = orphan[d]
  BY DEF OrphanEnter, OrphanEnds, Inv, ThreadInv, TypeOK
<1>. QED  BY <1>0, <1>1, <1>2
          DEF Inv, AliveInv, Known, EditorInv, ThreadInv, PromisesInv, Prefix, JoinInv, Stopping,
              AnswerInv, OpenedInv

(* The editor starts what was added: the mux has it in its list, or has    *)
(* ended since.                                                            *)
LEMMA AddedStartKeeps == Inv /\ AddedStart => Inv'
<1>. SUFFICES ASSUME Inv, AddedStart PROVE Inv'
  OBVIOUS
<1>0. TypeOK'
  BY TypeStep DEF Inv, Next, EditorStep
<1>1. /\ edited \in Range(transports) /\ pc \in {"loop", "get", "stop", "down"}
      /\ editor = "start" /\ editor' = "idle" /\ joining["editor"] = None
      /\ child' = [child EXCEPT ![edited] = "launched"]
      /\ promise' = [promise EXCEPT ![edited] = "pending"]
      /\ loose' = (IF running THEN loose ELSE loose \union {edited})
      /\ UNCHANGED <<transports, pc, i, promises, opened, failed, joining>>
  BY DEF AddedStart, Edited, Launch, mux, Inv, EditorInv
<1>2. edited \in Children /\ loose \subseteq Children /\ (running => pc \in {"loop", "get"})
  BY <1>1, Entries DEF Inv, TypeOK, Range
<1>3. \A c \in Children : Known(c) => Known(c)'
  BY <1>1 DEF Known
<1>4. AliveInv'
  <2>. SUFFICES ASSUME NEW c \in Children \ loose', child'[c] # "down" PROVE Known(c)'
    BY DEF AliveInv
  <2>1. CASE c = edited
    <3>1. pc \in {"loop", "get"}
      BY <1>1, <1>2, <2>1
    <3>. QED  BY <1>1, <2>1, <3>1 DEF Known
  <2>2. CASE c # edited
    <3>1. child[c] # "down" /\ c \notin loose
      BY <1>1, <1>2, <2>2 DEF Inv, TypeOK
    <3>. QED  BY <1>3, <3>1 DEF Inv, AliveInv
  <2>. QED  BY <2>1, <2>2
<1>5. AnswerInv'
  BY <1>1, <1>2 DEF Inv, AnswerInv, TypeOK
<1>6. ThreadInv'
  <2>1. running => \A x \in DOMAIN joining : joining[x] # edited
    <3>1. running => joining["mux"] = None
      BY <1>2, Entries DEF Inv
    <3>. QED  BY <1>1, <1>2, <3>1, NobodyElse DEF Inv, TypeOK
  <2>2. Launch(edited)
    BY DEF AddedStart
  <2>3. /\ running => handle'[edited] = "own"
        /\ \A c \in Children \ {edited} : handle'[c] = handle[c] /\ child'[c] = child[c]
        /\ \A c \in Children \ twice' : orphan'[c] = orphan[c] /\ c \notin twice
    BY <1>2, <2>1, <2>2 DEF Launch, Inv, TypeOK
  <2>4. ASSUME NEW c \in Children \ loose', child'[c] # "down" PROVE handle'[c] = "own"
    <3>1. CASE c = edited
      BY <1>1, <2>3, <3>1
    <3>2. CASE c # edited
      BY <1>1, <2>3, <2>4, <3>2 DEF Inv, ThreadInv
    <3>. QED  BY <3>1, <3>2
  <2>. QED  BY <2>3, <2>4 DEF Inv, ThreadInv
<1>7. EditorInv'
  <2>1. None \notin Range(transports)
    BY NobodyElse, Entries DEF Inv, Range
  <2>. QED  BY <1>1, <2>1 DEF EditorInv
<1>. QED  BY <1>0, <1>1, <1>2, <1>4, <1>5, <1>6, <1>7
          DEF Inv, PromisesInv, Prefix, JoinInv, Stopping, OpenedInv

(* The editor has looked whether the mux runs. *)
LEMMA AddedLookKeeps == Inv /\ AddedLook => Inv'
<1>. SUFFICES ASSUME Inv, AddedLook PROVE Inv'
  OBVIOUS
<1>0. TypeOK'
  BY TypeStep DEF Inv, Next, EditorStep
<1>1. /\ editor = "look" /\ joining["editor"] = None
      /\ \/ running /\ editor' = "start" /\ edited' = edited
         \/ editor' = "idle"
      /\ UNCHANGED <<transports, pc, i, promises, opened, failed, child, promise, joining, handle,
                     orphan, loose, twice>>
  BY DEF AddedLook, Edited, mux, lives, threads, histories, Inv, EditorInv
<1>2. running => pc \in {"loop", "get"}
  BY DEF Inv, TypeOK
<1>3. AliveInv'
  BY <1>1 DEF Inv, AliveInv, Known
<1>4. EditorInv'
  BY <1>1, <1>2 DEF Inv, EditorInv
<1>. QED  BY <1>0, <1>1, <1>3, <1>4
          DEF Inv, ThreadInv, PromisesInv, Prefix, JoinInv, Stopping, AnswerInv, OpenedInv

(* A transport is added behind the others. *)
LEMMA AddKeeps ==
    ASSUME Inv, NEW c \in Children, AddTransport(c)
    PROVE  Inv'
<1>0. TypeOK'
  BY TypeStep DEF Inv, Next
<1>1. /\ c \notin Range(transports) /\ transports' = Append(transports, c)
      /\ editor = "idle" /\ joining["editor"] = None /\ editor' = "look" /\ edited' = c
      /\ loose' = (IF pc \in {"await", "entering"} THEN loose \union {c} ELSE loose)
      /\ UNCHANGED <<pc, i, promises, opened, failed, child, promise, joining, handle, orphan, twice>>
  BY DEF AddTransport, Edit, EditorIdle, mux, lives, threads, Inv, TypeOK
<1>2. /\ Len(transports') = Len(transports) + 1 /\ Range(transports') = Range(transports) \union {c}
      /\ \A k \in 1..Len(transports) : transports'[k] = transports[k]
  BY <1>1, AppendEntries DEF Inv, TypeOK
<1>3. DOMAIN transports \subseteq DOMAIN transports' /\ loose \subseteq loose'
  BY <1>0, <1>1, <1>2, Entries DEF TypeOK, Inv
<1>4. AliveInv'
  <2>1. \A d \in Children : Known(d) => Known(d)'
    BY <1>1, <1>2, <1>3, Entries DEF Known, Inv
  <2>. QED  BY <1>1, <1>3, <2>1 DEF Inv, AliveInv
<1>5. loose' # Children => loose # Children
  BY <1>0, <1>3 DEF TypeOK
<1>6. PromisesInv'
  <2>1. Prefix => Prefix'
    BY <1>1, <1>2, Entries DEF Prefix, Inv
  <2>. QED  BY <1>1, <1>5, <2>1 DEF Inv, PromisesInv
<1>7. JoinInv'
  <2>1. /\ pc = "stop" => Stopping' = transports' /\ Stopping = transports
        /\ pc # "stop" => Stopping' = Stopping
    BY <1>1 DEF Stopping
  <2>2. CASE pc = "stop"
    BY <1>1, <1>2, <1>5, <2>1, <2>2, Entries DEF Inv, JoinInv
  <2>3. CASE pc # "stop"
    BY <1>1, <1>5, <2>1, <2>3 DEF Inv, JoinInv
  <2>. QED  BY <2>2, <2>3
<1>8. OpenedInv'
  BY <1>1, <1>2 DEF Inv, OpenedInv
<1>9. EditorInv' /\ ThreadInv'
  BY <1>1, <1>2, <1>3, NobodyElse DEF Inv, EditorInv, ThreadInv
<1>. QED  BY <1>0, <1>1, <1>4, <1>6, <1>7, <1>8, <1>9 DEF Inv, AnswerInv

(* A transport is taken from the list, by one who will stop it. *)
LEMMA RemoveKeeps ==
    ASSUME Inv, NEW c \in Children, RemoveTransport(c)
    PROVE  Inv'
<1>0. TypeOK'
  BY TypeStep DEF Inv, Next
<1>1. /\ editor = "idle" /\ joining["editor"] = None /\ editor' = "stop" /\ edited' = c
      /\ loose' = (IF pc \in {"start", "await", "stop"} THEN Children ELSE loose)
      /\ UNCHANGED <<pc, i, promises, opened, failed, child, promise, joining, handle, orphan, twice>>
  BY DEF RemoveTransport, Edit, EditorIdle, mux, lives, threads
<1>2. /\ \A d \in Range(transports) \ {c} : d \in Range(transports')
      /\ Range(transports') \subseteq Range(transports) \ {c}
  <2>1. PICK k \in DOMAIN transports :
            transports[k] = c /\ transports' = RemoveAt(transports, k)
    BY DEF RemoveTransport
  <2>. QED  BY <2>1, ListType DEF Inv
<1>3. EditorInv' /\ ThreadInv'
  <2>1. Range(transports) \subseteq Children
    BY Entries DEF Inv, Range
  <2>. QED  BY <1>1, <1>2, <2>1, NobodyElse DEF Inv, EditorInv, ThreadInv
<1>4. CASE pc \in {"start", "await", "stop"}
  <2>1. Range(transports') \subseteq Children
    BY <1>2, Entries DEF Inv, Range
  <2>. QED  BY <1>0, <1>1, <1>3, <1>4, <2>1
            DEF Inv, AliveInv, PromisesInv, JoinInv, AnswerInv, OpenedInv
<1>5. CASE pc \notin {"start", "await", "stop"}
  <2>1. AliveInv'
    <3>. SUFFICES ASSUME NEW d \in Children \ loose, child[d] # "down", d # c PROVE Known(d)'
      BY <1>1, <1>5 DEF AliveInv, Known
    <3>1. Known(d) /\ d # None
      BY NobodyElse DEF Inv, AliveInv
    <3>. QED  BY <1>1, <1>2, <1>5, <3>1 DEF Known
  <2>2. Stopping' = Stopping
    BY <1>1, <1>5 DEF Stopping
  <2>. QED  BY <1>0, <1>1, <1>2, <1>3, <1>5, <2>1, <2>2
            DEF Inv, PromisesInv, JoinInv, AnswerInv, OpenedInv
<1>. QED  BY <1>4, <1>5

(* The editor takes the lock of the transport. *)
LEMMA RemoveStopKeeps == Inv /\ RemoveStop => Inv'
<1>. SUFFICES ASSUME Inv, RemoveStop PROVE Inv'
  OBVIOUS
<1>0. TypeOK'
  BY TypeStep DEF Inv, Next, EditorStep
<1>1. /\ editor = "stop" /\ editor' = "idle" /\ edited \in Children /\ edited \notin Range(transports)
      /\ joining' = [joining EXCEPT !["editor"] = edited]
      /\ UNCHANGED <<transports, pc, i, promises, opened, failed, child, promise, handle, orphan,
                     loose, twice>>
  BY DEF RemoveStop, StopBegin, Edited, mux, threads, histories, Inv, EditorInv, TypeOK
<1>2. joining'["mux"] = joining["mux"] /\ joining'["editor"] = edited /\ joining["editor"] = None
  BY <1>1 DEF Inv, TypeOK, EditorInv
<1>3. AliveInv'
  <2>. SUFFICES ASSUME NEW c \in Children \ loose, child[c] # "down" PROVE Known(c)'
    BY <1>1 DEF AliveInv
  <2>1. Known(c) /\ c # None
    BY NobodyElse DEF Inv, AliveInv
  <2>. QED  BY <1>1, <1>2, <2>1 DEF Known
<1>4. EditorInv'
  BY <1>1, <1>2 DEF EditorInv
<1>. QED  BY <1>0, <1>1, <1>2, <1>3, <1>4
          DEF Inv, ThreadInv, PromisesInv, Prefix, JoinInv, Stopping, AnswerInv, OpenedInv

(* The transport that was removed is down. *)
LEMMA RemoveDoneKeeps == Inv /\ RemoveDone => Inv'
<1>. SUFFICES ASSUME Inv, RemoveDone PROVE Inv'
  OBVIOUS
<1>0. TypeOK'
  BY TypeStep DEF Inv, Next, EditorStep
<1>1. /\ Awaited(joining["editor"]) = "down" /\ joining' = [joining EXCEPT !["editor"] = None]
      /\ joining["editor"] # None /\ StopEnd("editor")
      /\ UNCHANGED <<transports, pc, i, promises, opened, failed, child, promise, editor, edited,
                     orphan, loose, twice>>
  BY DEF RemoveDone, StopEnd, mux, users, edit, histories
<1>2. joining'["mux"] = joining["mux"] /\ joining'["editor"] = None
  BY <1>1 DEF Inv, TypeOK
<1>3. AliveInv'
  BY <1>1, <1>2 DEF Inv, AliveInv, Known, ThreadInv, Awaited
<1>4. ThreadInv'
  BY <1>1 DEF Inv, TypeOK, ThreadInv, StopEnd
<1>5. EditorInv'
  <2>1. None \notin Range(transports)
    BY NobodyElse, Entries DEF Inv, Range
  <2>. QED  BY <1>1, <1>2, <2>1 DEF Inv, EditorInv
<1>. QED  BY <1>0, <1>1, <1>2, <1>3, <1>4, <1>5
          DEF Inv, PromisesInv, Prefix, JoinInv, Stopping, AnswerInv, OpenedInv

(* Every step keeps the invariant. *)
LEMMA InvStep == Inv /\ [Next]_vars => Inv'
<1>1. ASSUME Inv, NEW c \in Children,
             Receive(c) \/ OrphanReads(c) \/ OrphanReceives(c) \/ SenderReconnects(c)
      PROVE  Inv'
  <2>1. TypeOK'
    BY <1>1, TypeStep DEF Inv, Next, ChildStep
  <2>2. UNCHANGED <<transports, pc, i, promises, opened, failed, child, promise, joining, editor, edited,
                    handle, orphan, loose, twice>>
    BY <1>1 DEF Receive, OrphanReads, OrphanReceives, SenderReconnects, mux, lives, threads, users,
                edit, histories
  <2>. QED  BY <1>1, <2>1, <2>2
            DEF Inv, AliveInv, Known, EditorInv, ThreadInv, PromisesInv, Prefix, JoinInv, Stopping, AnswerInv,
                OpenedInv
<1>2. ASSUME Inv, UNCHANGED vars PROVE Inv'
  <2>1. TypeOK'
    BY <1>2, TypeStep DEF Inv
  <2>. QED  BY <1>2, <2>1
            DEF vars, mux, lives, threads, users, edit, histories, Inv, AliveInv, Known, EditorInv, ThreadInv, PromisesInv, Prefix, JoinInv,
                Stopping, AnswerInv, OpenedInv
<1>. QED
  BY <1>1, <1>2, StartNextKeeps, StartsDoneKeeps, AwaitNextKeeps, AwaitTimeoutKeeps, AwaitsDoneKeeps,
     LoopKeeps, StopsKeep, OwnerKeeps, ChildKeeps, OrphanKeeps, AddKeeps, AddedLookKeeps,
     AddedStartKeeps, RemoveKeeps, RemoveStopKeeps, RemoveDoneKeeps
  DEF Next, MuxStep, EditorStep, ChildStep

(* In the beginning all is down. *)
LEMMA InvInit == Init => Inv
<1>. SUFFICES ASSUME Init PROVE Inv
  OBVIOUS
<1>1. TypeOK
  BY TypeInit
<1>2. /\ pc = "down" /\ i = 1 /\ promises = <<>> /\ editor = "idle"
      /\ joining["mux"] = None /\ joining["editor"] = None
      /\ \A c \in Children : child[c] = "down" /\ promise[c] = "pending" /\ orphan[c] = "down"
  BY DEF Init
<1>3. None \notin Range(transports)
  BY <1>1, NobodyElse, Entries DEF Range
<1>. QED  BY <1>1, <1>2, <1>3
          DEF Inv, AliveInv, EditorInv, ThreadInv, PromisesInv, JoinInv, AnswerInv, OpenedInv

(* When the mux has ended, nothing is left alive of what it has not lost   *)
(* track of: neither when opening failed nor after stop().  What was       *)
(* started by open() and by add_transport() has its second thread ended.   *)
THEOREM StopsAll == Spec => []NothingLeft
<1>1. Inv => NothingLeft
  <2>. SUFFICES ASSUME Inv, pc = "down", EditorIdle, NEW c \in Children \ loose
                PROVE  child[c] = "down" /\ (c \notin twice => orphan[c] = "down")
    BY DEF NothingLeft
  <2>1. ~Known(c)
    BY NobodyElse DEF EditorIdle, Known
  <2>. QED  BY <2>1 DEF Inv, AliveInv, ThreadInv
<1>. QED  BY <1>1, InvInit, InvStep, PTL DEF Spec

(* When open() of the mux returns, all transports in the list have opened. *)
THEOREM OpensAll == Spec => []AllOpened
<1>1. Inv => AllOpened
  BY DEF Inv, OpenedInv, AllOpened
<1>. QED  BY <1>1, InvInit, InvStep, PTL DEF Spec
-----------------------------------------------------------------------------
(* The frames.  Each sender's pieces stay in order on their way.           *)

(* What goes through the queue. *)
Pieces == Children \X (Nat \ {0}) \X {"head", "tail"}

DataTyped ==
    /\ inQueue \in Seq(Pieces) /\ leftovers \in [Children -> Seq(Pieces)]
    /\ next \in [Children -> (Nat \ {0}) \X {"head", "tail"}] /\ held \in [Children -> Seq(Pieces)]
    /\ got \in [Children -> Seq(Seq(Pieces))] /\ cuts \in [Children -> Nat]

(* What is on its way, from the sender to on_received: in order, *)
Ordered(c) ==
    /\ \A k \in DOMAIN leftovers[c] :
          /\ leftovers[c][k][1] = c /\ leftovers[c][k][3] = "head"
          /\ Number(leftovers[c][k]) <= Sent(c)
    /\ \A j, k \in DOMAIN leftovers[c] : j < k => leftovers[c][j][2] < leftovers[c][k][2]
    /\ \A k \in Waiting(c) :
          /\ Number(inQueue[k]) <= Sent(c)
          /\ \A j \in DOMAIN leftovers[c] : Number(leftovers[c][j]) < Number(inQueue[k])
    /\ \A j, k \in Waiting(c) : j < k => Number(inQueue[j]) < Number(inQueue[k])

(* with a head for each tail,                                              *)
HasHead(c, n) == <<c, n, "head">> \in Range(leftovers[c]) \union Range(inQueue)
HasTail(c, n) == <<c, n, "tail">> \in Range(inQueue) \/ next[c] = <<n, "tail">>
Matched(c) == \A n \in 1 .. next[c][1] : HasTail(c, n) => HasHead(c, n)

(* and behind what was given out.                                          *)
Behind(c) ==
    /\ \A k \in DOMAIN got[c] :
          /\ got[c][k] # <<>>
          /\ got[c][k][1][2] < next[c][1]
          /\ \A j \in DOMAIN leftovers[c] : got[c][k][1][2] < leftovers[c][j][2]
          /\ \A j \in Waiting(c) : got[c][k][1][2] < inQueue[j][2]
    /\ \A j, k \in DOMAIN got[c] : j < k => got[c][j][1][2] < got[c][k][1][2]

(* A head without a tail spoils the frame that comes after it, and there   *)
(* are no more of them, or of frames spoilt already, than were cut off.    *)
Dangling(c) == {n \in 1 .. next[c][1] : HasHead(c, n) /\ ~HasTail(c, n)}
Counted(c) == Cardinality(Spoilt(c)) + Cardinality(Dangling(c)) <= cuts[c]

Complete(c) ==
    cuts[c] = 0 =>
        /\ \A k \in DOMAIN got[c] : got[c][k] = Frame(c, k)
        /\ leftovers[c] \in {<<>>, << <<c, Len(got[c]) + 1, "head">> >>}
        /\ {Number(inQueue[k]) : k \in Waiting(c)} = Handled(c) + 1 .. Sent(c)

Intact(c) == Ordered(c) /\ Matched(c) /\ Behind(c) /\ Counted(c) /\ Complete(c)

(* What a second thread has read, it has read from its own channel.        *)
HeldOwn == \A c \in Children : held[c] # <<>> => held[c][1][1] = c

(* So it is for all senders that were never read from by two threads.      *)
FrameInv == DataTyped /\ HeldOwn /\ \A c \in Children \ twice : held[c] = <<>> /\ Intact(c)

(* What is in the queue, is left over, comes next or was given out. *)
LEMMA DataFacts ==
    ASSUME DataTyped, NEW c \in Children
    PROVE  /\ Len(inQueue) \in Nat /\ DOMAIN inQueue = 1 .. Len(inQueue)
           /\ \A k \in DOMAIN inQueue : /\ inQueue[k] = <<inQueue[k][1], inQueue[k][2], inQueue[k][3]>>
                                        /\ inQueue[k] \in Pieces
                                        /\ inQueue[k][1] \in Children /\ inQueue[k][2] \in Nat \ {0}
                                        /\ inQueue[k][3] \in {"head", "tail"}
           /\ leftovers[c] \in Seq(Pieces) /\ Len(leftovers[c]) \in Nat
           /\ DOMAIN leftovers[c] = 1 .. Len(leftovers[c])
           /\ \A k \in DOMAIN leftovers[c] :
                 /\ leftovers[c][k] = <<leftovers[c][k][1], leftovers[c][k][2], leftovers[c][k][3]>>
                 /\ leftovers[c][k] \in Pieces
                 /\ leftovers[c][k][1] \in Children /\ leftovers[c][k][2] \in Nat \ {0}
                 /\ leftovers[c][k][3] \in {"head", "tail"}
           /\ next[c] = <<next[c][1], next[c][2]>> /\ next[c][1] \in Nat \ {0}
           /\ next[c][2] \in {"head", "tail"}
           /\ got[c] \in Seq(Seq(Pieces)) /\ Len(got[c]) \in Nat /\ DOMAIN got[c] = 1 .. Len(got[c])
           /\ \A k \in DOMAIN got[c] : /\ got[c][k] \in Seq(Pieces)
                                       /\ got[c][k] # <<>> => got[c][k][1][2] \in Nat \ {0}
           /\ cuts[c] \in Nat
<1>1. \A p \in Pieces : /\ p = <<p[1], p[2], p[3]>> /\ p[1] \in Children /\ p[2] \in Nat \ {0}
                        /\ p[3] \in {"head", "tail"}
  BY DEF Pieces
<1>2. \A s \in Seq(Pieces) : /\ Len(s) \in Nat /\ DOMAIN s = 1 .. Len(s)
                             /\ \A k \in DOMAIN s : s[k] \in Pieces
                             /\ s # <<>> => 1 \in DOMAIN s
  OBVIOUS
<1>3. inQueue \in Seq(Pieces) /\ leftovers[c] \in Seq(Pieces)
  BY DEF DataTyped
<1>4. got[c] \in Seq(Seq(Pieces)) /\ Len(got[c]) \in Nat /\ DOMAIN got[c] = 1 .. Len(got[c])
      /\ \A k \in DOMAIN got[c] : got[c][k] \in Seq(Pieces)
  BY DEF DataTyped
<1>5. next[c] \in (Nat \ {0}) \X {"head", "tail"} /\ cuts[c] \in Nat
  BY DEF DataTyped
<1>6. next[c] = <<next[c][1], next[c][2]>> /\ next[c][1] \in Nat \ {0} /\ next[c][2] \in {"head", "tail"}
  BY <1>5
<1>7. \A k \in DOMAIN got[c] : got[c][k] # <<>> => got[c][k][1][2] \in Nat \ {0}
  BY <1>1, <1>2, <1>4
<1>. QED  BY <1>1, <1>2, <1>3, <1>4, <1>5, <1>6, <1>7

(* What one sender sent is not touched by what happens to another's: its   *)
(* pieces stay in the queue, or move up by one place.                      *)
LEMMA Untouched ==
    ASSUME DataTyped, DataTyped', NEW c \in Children, Intact(c), NEW h \in {0, 1},
           leftovers'[c] = leftovers[c], next'[c] = next[c], got'[c] = got[c], cuts'[c] = cuts[c],
           \A k \in Waiting(c)' : k + h \in Waiting(c) /\ inQueue'[k] = inQueue[k + h],
           \A k \in Waiting(c) : k - h \in Waiting(c)' /\ inQueue'[k - h] = inQueue[k]
    PROVE  Intact(c)'
<1>0. DataTyped /\ Ordered(c) /\ Matched(c) /\ Behind(c) /\ Counted(c) /\ Complete(c)
  BY DEF Intact
<1>1. Waiting(c) \subseteq Int /\ Waiting(c)' \subseteq Int
  <2>1. \A q \in Seq(Pieces) : DOMAIN q \subseteq Int
    OBVIOUS
  <2>2. inQueue \in Seq(Pieces) /\ inQueue' \in Seq(Pieces)
    BY <1>0 DEF DataTyped, Pieces
  <2>. QED  BY <2>1, <2>2 DEF Waiting
<1>2. Sent(c)' = Sent(c) /\ Handled(c)' = Handled(c) /\ Spoilt(c)' = Spoilt(c)
  BY DEF Sent, Handled, Spoilt, Number, Frame
<1>3. \A k \in Waiting(c)' : \E j \in Waiting(c) : inQueue'[k] = inQueue[j] /\ j = k + h
  OBVIOUS
<1>4. \A k \in Waiting(c) : \E j \in Waiting(c)' : inQueue'[j] = inQueue[k]
  OBVIOUS
<1>5. Ordered(c)'
  <2>1. \A j, k \in Waiting(c)' : j < k => Number(inQueue'[j]) < Number(inQueue'[k])
    <3>. SUFFICES ASSUME NEW j \in Waiting(c)', NEW k \in Waiting(c)', j < k
                  PROVE  Number(inQueue'[j]) < Number(inQueue'[k])
      OBVIOUS
    <3>1. j + h \in Waiting(c) /\ k + h \in Waiting(c) /\ j + h < k + h
      BY <1>1
    <3>2. Number(inQueue[j + h]) < Number(inQueue[k + h])
      BY <1>0, <3>1 DEF Ordered
    <3>. QED  BY <3>2 DEF Number
  <2>2. \A k \in Waiting(c)' :
           /\ Number(inQueue'[k]) <= Sent(c)'
           /\ \A j \in DOMAIN leftovers'[c] : Number(leftovers[c][j])' < Number(inQueue'[k])
    BY <1>0, <1>2, <1>3 DEF Ordered, Number
  <2>. QED  BY <1>0, <1>2, <2>1, <2>2 DEF Ordered, Number
<1>6. \A n, x : <<c, n, x>> \in Range(inQueue)' <=> <<c, n, x>> \in Range(inQueue)
  BY <1>3, <1>4 DEF Waiting, Range
<1>7. \A n : (HasHead(c, n)' <=> HasHead(c, n)) /\ (HasTail(c, n)' <=> HasTail(c, n))
  BY <1>6 DEF HasHead, HasTail
<1>8. Matched(c)'
  BY <1>0, <1>7 DEF Matched
<1>9. Behind(c)'
  BY <1>0, <1>3 DEF Behind
<1>10. Dangling(c)' = Dangling(c)
  BY <1>7 DEF Dangling
<1>11. Counted(c)'
  BY <1>0, <1>2, <1>10 DEF Counted
<1>12. {Number(inQueue'[k]) : k \in Waiting(c)'} = {Number(inQueue[k]) : k \in Waiting(c)}
  BY <1>3, <1>4 DEF Number
<1>13. Complete(c)'
  BY <1>0, <1>2, <1>12 DEF Complete, Frame
<1>. QED  BY <1>5, <1>8, <1>9, <1>11, <1>13 DEF Intact

(* A sender that does nothing while the queue stays as it is. *)
LEMMA Idle ==
    ASSUME DataTyped, DataTyped', NEW c \in Children, Intact(c), UNCHANGED inQueue,
           leftovers'[c] = leftovers[c], next'[c] = next[c], got'[c] = got[c], cuts'[c] = cuts[c]
    PROVE  Intact(c)'
<1>1. Waiting(c) \subseteq Int
  BY DataFacts DEF Waiting
<1>2. Waiting(c)' = Waiting(c)
  BY DEF Waiting
<1>3. /\ \A k \in Waiting(c)' : k + 0 \in Waiting(c) /\ inQueue'[k] = inQueue[k + 0]
      /\ \A k \in Waiting(c) : k - 0 \in Waiting(c)' /\ inQueue'[k - 0] = inQueue[k]
  BY <1>1, <1>2
<1>. QED  BY <1>3, Untouched

(* What counts as spoilt, or as a head without tail, can be counted. *)
LEMMA Countable ==
    ASSUME DataTyped, NEW c \in Children
    PROVE  /\ IsFiniteSet(Spoilt(c)) /\ Cardinality(Spoilt(c)) \in Nat
           /\ IsFiniteSet(Dangling(c)) /\ Cardinality(Dangling(c)) \in Nat
<1>1. IsFiniteSet(1 .. Len(got[c])) /\ IsFiniteSet(1 .. next[c][1])
  <2>1. Len(got[c]) \in Int /\ next[c][1] \in Int /\ 1 \in Int
    BY DataFacts
  <2>. QED  BY <2>1, FS_Interval
<1>2. Spoilt(c) \subseteq 1 .. Len(got[c]) /\ Dangling(c) \subseteq 1 .. next[c][1]
  BY DataFacts DEF Spoilt, Dangling
<1>3. IsFiniteSet(Spoilt(c)) /\ IsFiniteSet(Dangling(c))
  BY <1>1, <1>2, FS_Subset
<1>. QED  BY <1>3, FS_CardinalityType

(* What gains at most one element. *)
LEMMA OneMore ==
    ASSUME NEW S, IsFiniteSet(S), NEW x, NEW T \in SUBSET (S \union {x})
    PROVE  Cardinality(T) \in Nat /\ Cardinality(T) <= Cardinality(S) + 1
<1>1. /\ IsFiniteSet(S \union {x}) /\ Cardinality(S) \in Nat
      /\ Cardinality(S \union {x}) = IF x \in S THEN Cardinality(S) ELSE Cardinality(S) + 1
  BY FS_AddElement, FS_CardinalityType
<1>2. IsFiniteSet(T) /\ Cardinality(T) <= Cardinality(S \union {x})
  BY <1>1, FS_Subset
<1>3. Cardinality(T) \in Nat
  BY <1>2, FS_CardinalityType
<1>. QED  BY <1>1, <1>2, <1>3

(* What loses one. *)
LEMMA OneLess ==
    ASSUME NEW S, IsFiniteSet(S), NEW x \in S, NEW T \in SUBSET (S \ {x})
    PROVE  Cardinality(T) \in Nat /\ Cardinality(T) <= Cardinality(S) - 1
<1>1. /\ IsFiniteSet(S \ {x}) /\ Cardinality(S) \in Nat
      /\ Cardinality(S \ {x}) = Cardinality(S) - 1
  BY FS_RemoveElement, FS_CardinalityType
<1>2. IsFiniteSet(T) /\ Cardinality(T) <= Cardinality(S \ {x})
  BY <1>1, FS_Subset
<1>3. Cardinality(T) \in Nat
  BY <1>2, FS_CardinalityType
<1>. QED  BY <1>1, <1>2, <1>3

(* What is in the queue or left over has been sent. *)
LEMMA Already ==
    ASSUME DataTyped, NEW c \in Children, Ordered(c), NEW n \in Nat \ {0}
    PROVE  /\ Sent(c) = 2 * next[c][1] - (IF next[c][2] = "head" THEN 2 ELSE 1)
           /\ HasHead(c, n) => 2 * n - 1 <= Sent(c)
           /\ <<c, n, "tail">> \in Range(inQueue) => 2 * n <= Sent(c)
<1>1. next[c][1] \in Nat /\ next[c][2] \in {"head", "tail"}
  BY DataFacts
<1>2. Sent(c) = 2 * next[c][1] - (IF next[c][2] = "head" THEN 2 ELSE 1)
  BY <1>1 DEF Sent, Number
<1>3. ASSUME NEW k \in DOMAIN inQueue, NEW part \in {"head", "tail"}, inQueue[k] = <<c, n, part>>
      PROVE  2 * n - (IF part = "head" THEN 1 ELSE 0) <= Sent(c)
  <2>1. k \in Waiting(c) /\ Number(inQueue[k]) = 2 * n - (IF part = "head" THEN 1 ELSE 0)
    BY <1>3 DEF Waiting, Number
  <2>. QED  BY <2>1 DEF Ordered
<1>4. ASSUME NEW k \in DOMAIN leftovers[c], leftovers[c][k] = <<c, n, "head">>
      PROVE  2 * n - 1 <= Sent(c)
  <2>1. Number(leftovers[c][k]) = 2 * n - 1
    BY <1>4 DEF Number
  <2>. QED  BY <2>1 DEF Ordered
<1>. QED  BY <1>2, <1>3, <1>4 DEF HasHead, Range

(* A frame that is cut off leaves a head without a tail. *)
LEMMA AnewKeeps ==
    ASSUME DataTyped, NEW c \in Children, Anew(c), UNCHANGED <<inQueue, leftovers, held, got>>
    PROVE  DataTyped' /\ \A d \in Children : Intact(d) => Intact(d)'
<1>1. /\ next'[c] = IF next[c][2] = "tail" THEN <<next[c][1] + 1, "head">> ELSE next[c]
      /\ cuts'[c] = IF next[c][2] = "tail" THEN cuts[c] + 1 ELSE cuts[c]
      /\ \A d \in Children \ {c} : next'[d] = next[d] /\ cuts'[d] = cuts[d]
  BY DEF DataTyped, Anew
<1>2. next[c][1] \in Nat \ {0} /\ next[c][2] \in {"head", "tail"} /\ cuts[c] \in Nat
  BY DataFacts
<1>3. DataTyped'
  <2>1. next' \in [Children -> (Nat \ {0}) \X {"head", "tail"}]
    BY <1>2 DEF DataTyped, Anew
  <2>2. cuts' \in [Children -> Nat]
    BY <1>2 DEF DataTyped, Anew
  <2>. QED  BY <2>1, <2>2 DEF DataTyped, Pieces
<1>4. ASSUME NEW d \in Children, Intact(d), d # c \/ next[c][2] = "head"
      PROVE  Intact(d)'
  <2>1. next'[d] = next[d] /\ cuts'[d] = cuts[d]
    BY <1>1, <1>4
  <2>. QED  BY <1>3, <1>4, <2>1, Idle
<1>5. ASSUME Intact(c), next[c][2] = "tail" PROVE Intact(c)'
  <2>0. Ordered(c) /\ Matched(c) /\ Behind(c) /\ Counted(c) /\ Complete(c)
    BY <1>5 DEF Intact
  <2>1. /\ next'[c] = <<next[c][1] + 1, "head">> /\ next'[c][1] = next[c][1] + 1
        /\ next'[c][2] = "head" /\ cuts'[c] = cuts[c] + 1
    BY <1>1, <1>5
  <2>2. Sent(c) = 2 * next[c][1] - 1 /\ Sent(c)' = 2 * next[c][1]
    BY <1>2, <1>5, <2>1 DEF Sent, Number
  <2>3. Waiting(c)' = Waiting(c) /\ Spoilt(c)' = Spoilt(c)
    BY DEF Waiting, Spoilt, Frame
  <2>4. /\ \A k \in DOMAIN leftovers[c] : Number(leftovers[c][k]) \in Int
        /\ \A k \in Waiting(c) : Number(inQueue[k]) \in Int
    BY <2>0, DataFacts DEF Number, Waiting
  <2>5. Ordered(c)'
    BY <2>0, <1>2, <2>2, <2>3, <2>4 DEF Ordered, Number
  <2>6. /\ \A n : HasHead(c, n)' <=> HasHead(c, n)
        /\ \A n : HasTail(c, n)' => HasTail(c, n)
        /\ \A n : HasTail(c, n) => HasTail(c, n)' \/ n = next[c][1]
    BY <1>2, <2>1 DEF HasHead, HasTail
  <2>7. ~ HasTail(c, next[c][1] + 1) /\ ~ HasHead(c, next[c][1] + 1)
    <3>1. next[c][1] + 1 \in Nat \ {0} /\ next[c] # <<next[c][1] + 1, "tail">>
      BY <1>2
    <3>. QED  BY <2>0, <1>2, <2>2, <3>1, Already DEF HasTail
  <2>8. Matched(c)'
    BY <2>0, <1>2, <2>1, <2>6, <2>7 DEF Matched
  <2>9. Behind(c)'
    <3>1. \A k \in DOMAIN got[c] : got[c][k] # <<>> => got[c][k][1][2] \in Nat
      BY <2>0, DataFacts
    <3>2. \A k \in DOMAIN got[c] : got[c][k][1][2] < next'[c][1]
      BY <2>0, <1>2, <2>1, <3>1 DEF Behind
    <3>. QED  BY <2>0, <2>3, <3>2 DEF Behind
  <2>10. Counted(c)'
    <3>2. Dangling(c)' \subseteq Dangling(c) \union {next[c][1]}
      BY <1>2, <2>1, <2>6, <2>7 DEF Dangling
    <3>3. /\ IsFiniteSet(Dangling(c)) /\ Cardinality(Dangling(c)) \in Nat
          /\ Cardinality(Spoilt(c)) \in Nat
      BY <2>0, Countable
    <3>4. /\ Cardinality(Dangling(c)') <= Cardinality(Dangling(c)) + 1
          /\ Cardinality(Dangling(c)') \in Nat
      BY <3>2, <3>3, OneMore
    <3>. QED  BY <2>0, <1>2, <2>1, <2>3, <3>3, <3>4 DEF Counted
  <2>11. Complete(c)'
    BY <1>2, <2>1 DEF Complete
  <2>. QED  BY <2>5, <2>8, <2>9, <2>10, <2>11 DEF Intact
<1>. QED  BY <1>2, <1>3, <1>4, <1>5

(* What a sender sends comes behind all that it sent before. *)
LEMMA ReceiveKeeps ==
    ASSUME DataTyped, NEW c \in Children, Receive(c)
    PROVE  DataTyped' /\ \A d \in Children : Intact(d) => Intact(d)'
<1>a. /\ next[c] = <<next[c][1], next[c][2]>> /\ next[c][1] \in Nat \ {0}
      /\ next[c][2] \in {"head", "tail"} /\ cuts[c] \in Nat
      /\ inQueue \in Seq(Pieces) /\ Len(inQueue) \in Nat /\ DOMAIN inQueue = 1 .. Len(inQueue)
  BY DataFacts DEF DataTyped
<1>b. PICK n \in Nat \ {0}, part \in {"head", "tail"}, last \in Nat :
         next[c] = <<n, part>> /\ last = Len(inQueue) + 1
  BY <1>a
<1>1. /\ n \in Nat \ {0} /\ part \in {"head", "tail"} /\ cuts[c] \in Nat
      /\ next[c] = <<n, part>> /\ next[c][1] = n /\ next[c][2] = part
      /\ inQueue \in Seq(Pieces) /\ <<c, n, part>> \in Pieces
      /\ Len(inQueue) \in Nat /\ DOMAIN inQueue = 1 .. Len(inQueue) /\ last = Len(inQueue) + 1
  BY <1>a, <1>b DEF Pieces
<1>2. /\ inQueue' = Append(inQueue, <<c, n, part>>)
      /\ next' = [next EXCEPT ![c] = IF part = "head" THEN <<n, "tail">> ELSE <<n + 1, "head">>]
      /\ UNCHANGED <<leftovers, held, got, cuts>>
  BY <1>1 DEF Receive, Sends
<1>3. /\ inQueue' \in Seq(Pieces) /\ DOMAIN inQueue' = 1 .. last
      /\ \A k \in DOMAIN inQueue : inQueue'[k] = inQueue[k]
      /\ inQueue'[last] = <<c, n, part>>
      /\ Range(inQueue)' = Range(inQueue) \union {<<c, n, part>>}
  <2>1. \A q \in Seq(Pieces) : DOMAIN q = 1 .. Len(q)
    OBVIOUS
  <2>2. /\ inQueue' \in Seq(Pieces) /\ Len(inQueue') = last
        /\ \A k \in 1 .. Len(inQueue) : inQueue'[k] = inQueue[k]
        /\ inQueue'[last] = <<c, n, part>>
        /\ Range(inQueue') = Range(inQueue) \union {<<c, n, part>>}
    <3>1. /\ Append(inQueue, <<c, n, part>>) \in Seq(Pieces)
          /\ Len(Append(inQueue, <<c, n, part>>)) = Len(inQueue) + 1
          /\ \A k \in 1 .. Len(inQueue) : Append(inQueue, <<c, n, part>>)[k] = inQueue[k]
          /\ Append(inQueue, <<c, n, part>>)[Len(inQueue) + 1] = <<c, n, part>>
          /\ Range(Append(inQueue, <<c, n, part>>)) = Range(inQueue) \union {<<c, n, part>>}
      BY <1>1, AppendEntries
    <3>. QED  BY <1>1, <1>2, <3>1
  <2>3. Range(inQueue)' = Range(inQueue')
    BY DEF Range
  <2>. QED  BY <1>1, <2>1, <2>2, <2>3
<1>4. /\ next'[c] = IF part = "head" THEN <<n, "tail">> ELSE <<n + 1, "head">>
      /\ \A d \in Children \ {c} : next'[d] = next[d]
  BY <1>2 DEF DataTyped
<1>5. DataTyped'
  <2>1. next' \in [Children -> (Nat \ {0}) \X {"head", "tail"}]
    BY <1>1, <1>2 DEF DataTyped
  <2>. QED  BY <1>2, <1>3, <2>1 DEF DataTyped, Pieces
<1>6. /\ DOMAIN inQueue' = DOMAIN inQueue \union {last} /\ last \notin DOMAIN inQueue
      /\ \A k \in DOMAIN inQueue : k \in Int /\ k < last
  BY <1>1, <1>3
<1>7. ASSUME NEW d \in Children, d # c, Intact(d)
      PROVE  Intact(d)'
  <2>1. Waiting(d)' = Waiting(d)
    <3>1. inQueue'[last][1] # d
      BY <1>3, <1>7
    <3>2. \A k : k \in Waiting(d)' <=> k \in Waiting(d)
      BY <1>3, <1>6, <3>1 DEF Waiting
    <3>. QED  BY <3>2
  <2>2. /\ \A k \in Waiting(d)' : k + 0 \in Waiting(d) /\ inQueue'[k] = inQueue[k + 0]
        /\ \A k \in Waiting(d) : k - 0 \in Waiting(d)' /\ inQueue'[k - 0] = inQueue[k]
    BY <1>3, <1>6, <2>1 DEF Waiting
  <2>3. leftovers'[d] = leftovers[d] /\ next'[d] = next[d] /\ got'[d] = got[d] /\ cuts'[d] = cuts[d]
    BY <1>2, <1>4, <1>7
  <2>. QED  BY <1>5, <1>7, <2>2, <2>3, Untouched
<1>c. ASSUME Intact(c) PROVE Intact(c)'
  <2>0. Ordered(c) /\ Matched(c) /\ Behind(c) /\ Counted(c) /\ Complete(c)
    BY <1>c DEF Intact
  <2>8. /\ Waiting(c)' = Waiting(c) \union {last}
        /\ \A k \in Waiting(c) : inQueue'[k] = inQueue[k] /\ k \in Int /\ k < last
    <3>1. inQueue'[last][1] = c
      BY <1>3
    <3>2. \A k \in DOMAIN inQueue' : k \in DOMAIN inQueue \/ k = last
      BY <1>6
    <3>3. \A k : k \in Waiting(c)' <=> k \in Waiting(c) \/ k = last
      BY <1>3, <1>6, <3>1, <3>2 DEF Waiting
    <3>. QED  BY <1>3, <1>6, <3>3 DEF Waiting
  <2>9. /\ Sent(c) = 2 * n - (IF part = "head" THEN 2 ELSE 1)
        /\ Sent(c)' = Sent(c) + 1 /\ Number(inQueue'[last]) = Sent(c)'
    <3>1. Number(inQueue'[last]) = 2 * n - (IF part = "head" THEN 1 ELSE 0)
      BY <1>3 DEF Number
    <3>2. Sent(c) = 2 * n - (IF part = "head" THEN 2 ELSE 1)
      BY <1>1 DEF Sent, Number
    <3>3. CASE part = "head"
      BY <1>1, <1>4, <3>1, <3>2, <3>3 DEF Sent, Number
    <3>4. CASE part = "tail"
      <4>1. next'[c] = <<n + 1, "head">>
        BY <1>4, <3>4
      <4>2. Sent(c)' = 2 * (n + 1) - 1 - 1
        BY <4>1 DEF Sent, Number
      <4>. QED  BY <1>1, <3>1, <3>2, <3>4, <4>2
    <3>. QED  BY <1>1, <3>3, <3>4
  <2>10. Ordered(c)'
    <3>1. /\ \A k \in DOMAIN leftovers[c] : Number(leftovers[c][k]) \in Int
          /\ \A k \in Waiting(c) : Number(inQueue[k]) \in Int
      BY <2>0, DataFacts DEF Number, Waiting
    <3>2. Sent(c) \in Int
      BY <1>1, <2>9
    <3>3. \A k \in Waiting(c)' :
             /\ Number(inQueue'[k]) <= Sent(c)'
             /\ \A j \in DOMAIN leftovers[c] : Number(leftovers[c][j]) < Number(inQueue'[k])
      BY <2>0, <2>8, <2>9, <3>1, <3>2 DEF Ordered, Number
    <3>4. \A j, k \in Waiting(c)' : j < k => Number(inQueue'[j]) < Number(inQueue'[k])
      <4>. SUFFICES ASSUME NEW j \in Waiting(c)', NEW k \in Waiting(c)', j < k
                    PROVE  Number(inQueue'[j]) < Number(inQueue'[k])
        OBVIOUS
      <4>1. last \in Int
        BY <1>1
      <4>2. j \in Waiting(c)
        BY <2>8, <4>1
      <4>3. CASE k \in Waiting(c)
        BY <2>0, <2>8, <4>2, <4>3 DEF Ordered, Number
      <4>4. CASE k = last
        BY <2>0, <2>8, <2>9, <3>1, <3>2, <4>2, <4>4 DEF Ordered, Number
      <4>. QED  BY <2>8, <4>3, <4>4
    <3>5. \A k \in DOMAIN leftovers[c] : Number(leftovers[c][k]) <= Sent(c)'
      BY <2>0, <2>9, <3>1, <3>2 DEF Ordered
    <3>. QED  BY <2>0, <1>2, <3>3, <3>4, <3>5 DEF Ordered, Number
  <2>11. \A m : HasHead(c, m)' <=> HasHead(c, m) \/ (m = n /\ part = "head")
    BY <1>1, <1>2, <1>3 DEF HasHead
  <2>12. \A m : HasTail(c, m)' <=> HasTail(c, m) \/ (m = n /\ part = "head")
    BY <1>1, <1>3, <1>4 DEF HasTail
  <2>13. ~ HasTail(c, n + 1) /\ ~ HasHead(c, n + 1)
    <3>1. n + 1 \in Nat \ {0} /\ next[c] # <<n + 1, "tail">>
      BY <1>1
    <3>. QED  BY <2>0, <1>1, <2>9, <3>1, Already DEF HasTail
  <2>14. next'[c][1] \in {n, n + 1}
    BY <1>1, <1>4
  <2>15. Matched(c)'
    BY <2>0, <1>1, <2>11, <2>12, <2>13, <2>14 DEF Matched
  <2>16. Behind(c)'
    <3>1. \A k \in DOMAIN got[c] : got[c][k] # <<>> /\ got[c][k][1][2] \in Nat /\ got[c][k][1][2] < n
      BY <2>0, <1>1, DataFacts DEF Behind
    <3>2. \A k \in DOMAIN got[c] : got[c][k][1][2] < next'[c][1] /\ got[c][k][1][2] < inQueue'[last][2]
      BY <1>1, <1>3, <2>14, <3>1
    <3>. QED  BY <2>0, <1>2, <2>8, <3>2 DEF Behind
  <2>17. Counted(c)'
    <3>1. Dangling(c)' \subseteq Dangling(c)
      BY <1>1, <2>11, <2>12, <2>13, <2>14 DEF Dangling
    <3>2. /\ IsFiniteSet(Dangling(c)) /\ Cardinality(Dangling(c)) \in Nat
          /\ Cardinality(Spoilt(c)) \in Nat
      BY <2>0, Countable
    <3>3. Cardinality(Dangling(c)') \in Nat /\ Cardinality(Dangling(c)') <= Cardinality(Dangling(c))
      BY <3>1, <3>2, FS_Subset, FS_CardinalityType
    <3>4. Spoilt(c)' = Spoilt(c)
      BY <1>2 DEF Spoilt, Frame
    <3>. QED  BY <2>0, <1>1, <1>2, <3>2, <3>3, <3>4 DEF Counted
  <2>18. Complete(c)'
    <3>. SUFFICES ASSUME cuts[c] = 0 PROVE Complete(c)'
      BY <1>2 DEF Complete
    <3>1. /\ \A k \in DOMAIN got[c] : got[c][k] = Frame(c, k)
          /\ leftovers[c] \in {<<>>, << <<c, Len(got[c]) + 1, "head">> >>}
          /\ {Number(inQueue[k]) : k \in Waiting(c)} = Handled(c) + 1 .. Sent(c)
      BY <2>0 DEF Complete
    <3>2. Len(got[c]) \in Nat /\ DOMAIN got[c] = 1 .. Len(got[c])
      BY <2>0, DataFacts
    <3>3. Len(got[c]) < n
      <4>1. CASE Len(got[c]) = 0
        BY <1>1, <4>1
      <4>2. CASE Len(got[c]) # 0
        <5>1. /\ Len(got[c]) \in DOMAIN got[c]
              /\ got[c][Len(got[c])][1] = <<c, Len(got[c]), "head">>
          BY <3>1, <3>2, <4>2 DEF Frame
        <5>. QED  BY <2>0, <1>1, <5>1 DEF Behind
      <4>. QED  BY <4>1, <4>2
    <3>s. Sent(c) \in Int /\ 2 * n - 2 <= Sent(c)
      BY <1>1, <2>9
    <3>4. Handled(c) \in Int /\ Sent(c) \in Int /\ Handled(c) <= Sent(c)
      <4>1. CASE leftovers[c] = <<>>
        <5>1. Len(leftovers[c]) = 0
          BY <4>1
        <5>2. Handled(c) = 2 * Len(got[c])
          BY <3>2, <5>1 DEF Handled
        <5>. QED  BY <1>1, <3>2, <3>3, <3>s, <5>2
      <4>2. CASE leftovers[c] = << <<c, Len(got[c]) + 1, "head">> >>
        <5>1. Len(leftovers[c]) = 1 /\ 1 \in DOMAIN leftovers[c]
              /\ Number(leftovers[c][1]) = 2 * Len(got[c]) + 1
          BY <3>2, <4>2 DEF Number
        <5>2. 2 * Len(got[c]) + 1 <= Sent(c)
          BY <2>0, <5>1 DEF Ordered
        <5>3. Handled(c) = 2 * Len(got[c]) + 1
          BY <5>1 DEF Handled
        <5>. QED  BY <3>2, <3>s, <5>2, <5>3
      <4>. QED  BY <3>1, <4>1, <4>2
    <3>5. {Number(inQueue'[k]) : k \in Waiting(c)'} = {Number(inQueue[k]) : k \in Waiting(c)} \union {Sent(c) + 1}
      BY <2>8, <2>9 DEF Number
    <3>6. {Number(inQueue'[k]) : k \in Waiting(c)'} = Handled(c) + 1 .. Sent(c)'
      <4>1. \A h, t \in Int : h <= t => (h + 1 .. t) \union {t + 1} = h + 1 .. t + 1
        OBVIOUS
      <4>. QED  BY <2>9, <3>1, <3>4, <3>5, <4>1
    <3>7. Handled(c)' = Handled(c)
      BY <1>2 DEF Handled
    <3>. QED  BY <1>2, <3>1, <3>6, <3>7 DEF Complete, Frame
  <2>. QED  BY <2>10, <2>15, <2>16, <2>17, <2>18 DEF Intact
<1>. QED  BY <1>5, <1>7, <1>c

(* The first piece of the queue is taken out: everybody's pieces move up.  *)
LEMMA Taken ==
    ASSUME DataTyped, inQueue # <<>>, inQueue' = Tail(inQueue)
    PROVE  /\ inQueue' \in Seq(Pieces) /\ 1 \in DOMAIN inQueue /\ Head(inQueue) = inQueue[1]
           /\ Range(inQueue) = Range(inQueue)' \union {inQueue[1]}
           /\ \A c \in Children :
                 /\ \A k \in Waiting(c) : k \in Int /\ k >= 1
                 /\ \A k \in Waiting(c)' : /\ k \in Int /\ k >= 1 /\ k + 1 \in Waiting(c)
                                           /\ inQueue'[k] = inQueue[k + 1]
                 /\ \A k \in Waiting(c) \ {1} : k - 1 \in Waiting(c)' /\ inQueue'[k - 1] = inQueue[k]
<1>1. /\ Head(inQueue) = inQueue[1] /\ Len(inQueue) \in Nat \ {0}
      /\ Tail(inQueue) \in Seq(Pieces) /\ Len(Tail(inQueue)) = Len(inQueue) - 1
      /\ \A k \in 1 .. Len(inQueue) - 1 : Tail(inQueue)[k] = inQueue[k + 1]
      /\ Range(inQueue) = Range(Tail(inQueue)) \union {Head(inQueue)}
  <2>1. inQueue \in Seq(Pieces)
    BY DEF DataTyped
  <2>. QED  BY <2>1, TailEntries
<1>2. \A q \in Seq(Pieces) : DOMAIN q = 1 .. Len(q)
  OBVIOUS
<1>3. /\ inQueue \in Seq(Pieces) /\ DOMAIN inQueue = 1 .. Len(inQueue)
      /\ inQueue' \in Seq(Pieces) /\ DOMAIN inQueue' = 1 .. Len(inQueue) - 1
      /\ \A k \in 1 .. Len(inQueue) - 1 : inQueue'[k] = inQueue[k + 1]
  BY <1>1, <1>2 DEF DataTyped
<1>4. Range(inQueue)' = Range(Tail(inQueue))
  BY DEF Range
<1>5. \A k \in DOMAIN inQueue' : k \in Int /\ k >= 1 /\ k + 1 \in DOMAIN inQueue
                                 /\ inQueue'[k] = inQueue[k + 1]
  BY <1>1, <1>3
<1>6. /\ \A k \in DOMAIN inQueue : k \in Int /\ k >= 1
      /\ \A k \in DOMAIN inQueue \ {1} : k - 1 \in DOMAIN inQueue' /\ inQueue'[k - 1] = inQueue[k]
  BY <1>1, <1>3
<1>7. 1 \in DOMAIN inQueue
  BY <1>1, <1>3
<1>. QED  BY <1>1, <1>3, <1>4, <1>5, <1>6, <1>7 DEF Waiting

(* It is the first piece of its sender, all others come behind it. *)
LEMMA TakenOrder ==
    ASSUME DataTyped, inQueue # <<>>, inQueue' = Tail(inQueue), NEW c \in Children,
           inQueue[1][1] = c, Ordered(c), UNCHANGED next
    PROVE  /\ 1 \in Waiting(c) /\ Sent(c) \in Int /\ Sent(c)' = Sent(c)
           /\ Number(inQueue[1]) \in Int /\ Number(inQueue[1]) <= Sent(c)
           /\ \A k \in Waiting(c)' : /\ Number(inQueue'[k]) \in Int
                                     /\ Number(inQueue'[k]) <= Sent(c)
                                     /\ Number(inQueue[1]) < Number(inQueue'[k])
           /\ \A j, k \in Waiting(c)' : j < k => Number(inQueue'[j]) < Number(inQueue'[k])
           /\ \A m, part : <<c, m, part>> \in Range(inQueue)' =>
                 /\ <<c, m, part>> \in Range(inQueue)
                 /\ m \in Nat \ {0} /\ Number(inQueue[1]) < Number(<<c, m, part>>)
           /\ \A h \in Int : {Number(inQueue[k]) : k \in Waiting(c)} = h + 1 .. Sent(c) =>
                 /\ Number(inQueue[1]) = h + 1
                 /\ {Number(inQueue'[k]) : k \in Waiting(c)'} = h + 2 .. Sent(c)
<1>1. /\ 1 \in Waiting(c)
      /\ \A k \in Waiting(c) : k \in Int /\ k >= 1
      /\ \A k \in Waiting(c)' : /\ k \in Int /\ k >= 1 /\ k + 1 \in Waiting(c)
                                /\ inQueue'[k] = inQueue[k + 1]
      /\ \A k \in Waiting(c) \ {1} : k - 1 \in Waiting(c)' /\ inQueue'[k - 1] = inQueue[k]
  BY Taken DEF Waiting
<1>2. \A k \in Waiting(c) : Number(inQueue[k]) \in Int
  BY DataFacts DEF Number, Waiting
<1>3. Sent(c) \in Int /\ Sent(c)' = Sent(c)
  BY DataFacts DEF Sent, Number
<1>4. \A k \in Waiting(c)' : /\ k + 1 \in Waiting(c) /\ 1 < k + 1
                             /\ Number(inQueue'[k]) = Number(inQueue[k + 1])
  <2>1. \A k \in Waiting(c)' : k + 1 \in Waiting(c) /\ inQueue'[k] = inQueue[k + 1]
    BY <1>1
  <2>2. \A k \in Waiting(c)' : k \in Int /\ k >= 1
    BY <1>1
  <2>3. \A k \in Waiting(c)' : 1 < k + 1
    BY <2>2
  <2>. QED  BY <2>1, <2>3 DEF Number
<1>5. \A k \in Waiting(c)' : /\ Number(inQueue'[k]) \in Int
                             /\ Number(inQueue'[k]) <= Sent(c)
                             /\ Number(inQueue[1]) < Number(inQueue'[k])
  BY <1>1, <1>2, <1>4 DEF Ordered
<1>6. ASSUME NEW j \in Waiting(c)', NEW k \in Waiting(c)', j < k
      PROVE  Number(inQueue'[j]) < Number(inQueue'[k])
  <2>1. j + 1 < k + 1
    BY <1>1, <1>6
  <2>. QED  BY <1>4, <2>1 DEF Ordered
<1>7. ASSUME NEW m, NEW part, <<c, m, part>> \in Range(inQueue)'
      PROVE  /\ <<c, m, part>> \in Range(inQueue)
             /\ m \in Nat \ {0} /\ Number(inQueue[1]) < Number(<<c, m, part>>)
  <2>1. PICK k \in DOMAIN inQueue' : inQueue'[k] = <<c, m, part>>
    BY <1>7 DEF Range
  <2>2. k \in Waiting(c)' /\ Number(inQueue'[k]) = Number(<<c, m, part>>)
    BY <2>1 DEF Waiting, Number
  <2>3. inQueue[k + 1] = <<c, m, part>> /\ k + 1 \in DOMAIN inQueue
    BY <1>1, <2>1, <2>2 DEF Waiting
  <2>4. m \in Nat \ {0}
    BY <2>3, DataFacts
  <2>. QED  BY <1>5, <2>2, <2>3, <2>4 DEF Range
<1>8. ASSUME NEW h \in Int, {Number(inQueue[k]) : k \in Waiting(c)} = h + 1 .. Sent(c)
      PROVE  /\ Number(inQueue[1]) = h + 1
             /\ {Number(inQueue'[k]) : k \in Waiting(c)'} = h + 2 .. Sent(c)
  <2>1. Number(inQueue[1]) \in h + 1 .. Sent(c)
    BY <1>1, <1>8
  <2>2. PICK k \in Waiting(c) : Number(inQueue[k]) = h + 1
    BY <1>3, <1>8, <2>1
  <2>3. \A j \in Waiting(c) : j = 1 \/ Number(inQueue[1]) < Number(inQueue[j])
    BY <1>1 DEF Ordered
  <2>4. Number(inQueue[1]) = h + 1
    BY <1>2, <1>3, <2>1, <2>2, <2>3
  <2>5. ASSUME NEW x \in {Number(inQueue'[j]) : j \in Waiting(c)'}
        PROVE  x \in h + 2 .. Sent(c)
    <3>1. PICK j \in Waiting(c)' : x = Number(inQueue'[j])
      OBVIOUS
    <3>2. x \in Int /\ x <= Sent(c) /\ h + 1 < x
      BY <1>5, <2>4, <3>1
    <3>. QED  BY <1>3, <3>2
  <2>6. ASSUME NEW x \in h + 2 .. Sent(c)
        PROVE  x \in {Number(inQueue'[j]) : j \in Waiting(c)'}
    <3>1. x \in h + 1 .. Sent(c) /\ x # h + 1
      BY <1>3
    <3>2. PICK j \in Waiting(c) : Number(inQueue[j]) = x
      BY <1>8, <3>1
    <3>3. j # 1
      BY <2>4, <3>1, <3>2
    <3>4. j - 1 \in Waiting(c)' /\ Number(inQueue'[j - 1]) = x
      BY <1>1, <3>2, <3>3 DEF Number
    <3>. QED  BY <3>4
  <2>. QED  BY <2>4, <2>5, <2>6
<1>. QED  BY <1>1, <1>2, <1>3, <1>5, <1>6, <1>7, <1>8 DEF Ordered

(* All other senders' pieces only move up.                                 *)
LEMMA TakenOthers ==
    ASSUME DataTyped, DataTyped', inQueue # <<>>, inQueue' = Tail(inQueue), UNCHANGED next,
           NEW c \in Children, Intact(c), inQueue[1][1] # c,
           leftovers'[c] = leftovers[c], got'[c] = got[c], cuts'[c] = cuts[c]
    PROVE  Intact(c)'
<1>2. /\ \A k \in Waiting(c)' : k + 1 \in Waiting(c) /\ inQueue'[k] = inQueue[k + 1]
      /\ \A k \in Waiting(c) \ {1} : k - 1 \in Waiting(c)' /\ inQueue'[k - 1] = inQueue[k]
  BY Taken
<1>3. 1 \notin Waiting(c)
  BY DEF Waiting
<1>4. \A k \in Waiting(c) : k - 1 \in Waiting(c)' /\ inQueue'[k - 1] = inQueue[k]
  BY <1>2, <1>3
<1>. QED  BY <1>2, <1>4, Untouched

(* What a step that handles the first piece of the queue does, and to whom. *)
LEMMA HandleFacts ==
    ASSUME DataTyped, Get \/ GetRaises
    PROVE  \E c \in Children, n \in Nat \ {0}, part \in {"head", "tail"} :
              /\ inQueue # <<>> /\ inQueue' = Tail(inQueue) /\ UNCHANGED <<next, held>>
              /\ inQueue[1] = <<c, n, part>> /\ <<c, n, part>> \in Pieces
              /\ Get => /\ leftovers' = [leftovers EXCEPT ![c] = IF part = "tail" THEN <<>>
                                           ELSE Append(leftovers[c], <<c, n, part>>)]
                        /\ got' = IF part = "tail"
                                  THEN [got EXCEPT ![c] = Append(got[c], Append(leftovers[c], <<c, n, part>>))]
                                  ELSE got
                        /\ UNCHANGED cuts
              /\ GetRaises => /\ part = "tail" /\ UNCHANGED <<leftovers, got>>
                              /\ cuts' = [cuts EXCEPT ![c] = cuts[c] + 1]
<1>1. inQueue # <<>> /\ inQueue' = Tail(inQueue) /\ UNCHANGED <<next, held>>
  BY DEF Get, GetRaises
<1>2. 1 \in DOMAIN inQueue /\ Head(inQueue) = inQueue[1]
  BY <1>1, Taken
<1>3. PICK c \in Children, n \in Nat \ {0}, part \in {"head", "tail"} :
         Head(inQueue) = <<c, n, part>> /\ <<c, n, part>> \in Pieces
  <2>1. inQueue[1] \in Pieces
    BY <1>2, DataFacts DEF DataTyped
  <2>. QED  BY <1>2, <2>1 DEF Pieces
<1>4. leftovers[c] \o << <<c, n, part>> >> = Append(leftovers[c], <<c, n, part>>)
  <2>1. leftovers[c] \in Seq(Pieces)
    BY DEF DataTyped
  <2>. QED  BY <1>3, <2>1, AppendIsConcat
<1>5. Head(inQueue)[1] = c /\ Head(inQueue)[3] = part
  <2>1. Head(inQueue) = <<c, n, part>>
    BY <1>3
  <2>. QED  BY <2>1
<1>6. ASSUME Get
      PROVE  /\ leftovers' = [leftovers EXCEPT ![c] = IF part = "tail" THEN <<>>
                                 ELSE Append(leftovers[c], <<c, n, part>>)]
             /\ got' = IF part = "tail"
                       THEN [got EXCEPT ![c] = Append(got[c], Append(leftovers[c], <<c, n, part>>))]
                       ELSE got
             /\ UNCHANGED cuts
  <2>1. Handle(Head(inQueue)) /\ UNCHANGED cuts
    BY <1>6 DEF Get
  <2>2. leftovers[Head(inQueue)[1]] \o <<Head(inQueue)>> = Append(leftovers[c], <<c, n, part>>)
    BY <1>3, <1>4, <1>5
  <2>3. /\ leftovers' = [leftovers EXCEPT ![Head(inQueue)[1]] = IF Head(inQueue)[3] = "tail" THEN <<>>
              ELSE leftovers[Head(inQueue)[1]] \o <<Head(inQueue)>>]
        /\ got' = IF Head(inQueue)[3] = "tail"
                  THEN [got EXCEPT ![Head(inQueue)[1]] =
                          Append(got[Head(inQueue)[1]],
                                 leftovers[Head(inQueue)[1]] \o <<Head(inQueue)>>)]
                  ELSE got
    BY <2>1 DEF Handle
  <2>. QED  BY <1>5, <2>1, <2>2, <2>3, Zenon
<1>7. ASSUME GetRaises
      PROVE  part = "tail" /\ UNCHANGED <<leftovers, got>> /\ cuts' = [cuts EXCEPT ![c] = cuts[c] + 1]
  BY <1>5, <1>7 DEF GetRaises
<1>. QED  BY <1>1, <1>2, <1>3, <1>6, <1>7

(* A head joins what is left over. *)
LEMMA HeadKeeps ==
    ASSUME DataTyped, NEW c \in Children, NEW n \in Nat \ {0},
           inQueue # <<>>, inQueue' = Tail(inQueue), UNCHANGED <<next, held, got, cuts>>,
           inQueue[1] = <<c, n, "head">>, <<c, n, "head">> \in Pieces,
           leftovers' = [leftovers EXCEPT ![c] = Append(leftovers[c], <<c, n, "head">>)]
    PROVE  DataTyped' /\ \A d \in Children : Intact(d) => Intact(d)'
<1>1. /\ leftovers[c] \in Seq(Pieces) /\ Len(leftovers[c]) \in Nat
      /\ DOMAIN leftovers[c] = 1 .. Len(leftovers[c])
  BY DataFacts
<1>2. PICK last \in Nat : last = Len(leftovers[c]) + 1
  BY <1>1
<1>3. /\ leftovers'[c] = Append(leftovers[c], <<c, n, "head">>)
      /\ \A d \in Children \ {c} : leftovers'[d] = leftovers[d]
  BY DEF DataTyped
<1>p. PICK piece \in Pieces : piece = <<c, n, "head">>
  OBVIOUS
<1>4. /\ leftovers'[c] \in Seq(Pieces) /\ Len(leftovers'[c]) = last
      /\ DOMAIN leftovers'[c] = DOMAIN leftovers[c] \union {last}
      /\ \A k \in DOMAIN leftovers[c] : k < last /\ k \in Int /\ leftovers'[c][k] = leftovers[c][k]
      /\ leftovers'[c][last] = <<c, n, "head">>
      /\ Range(leftovers'[c]) = Range(leftovers[c]) \union {<<c, n, "head">>}
  <2>1. /\ Append(leftovers[c], piece) \in Seq(Pieces)
        /\ Len(Append(leftovers[c], piece)) = Len(leftovers[c]) + 1
        /\ \A k \in 1 .. Len(leftovers[c]) :
              Append(leftovers[c], piece)[k] = leftovers[c][k]
        /\ Append(leftovers[c], piece)[Len(leftovers[c]) + 1] = piece
        /\ Range(Append(leftovers[c], piece)) = Range(leftovers[c]) \union {piece}
    BY <1>1, AppendEntries
  <2>2. \A q \in Seq(Pieces) : DOMAIN q = 1 .. Len(q)
    OBVIOUS
  <2>a. leftovers'[c] = Append(leftovers[c], piece)
    BY <1>3, <1>p
  <2>3. DOMAIN leftovers'[c] = 1 .. last
    BY <1>2, <2>a, <2>1, <2>2
  <2>4. DOMAIN leftovers'[c] = DOMAIN leftovers[c] \union {last}
    BY <1>1, <1>2, <2>3
  <2>5. \A k \in DOMAIN leftovers[c] : k < last /\ k \in Int
    BY <1>1, <1>2
  <2>6. \A k \in DOMAIN leftovers[c] : leftovers'[c][k] = leftovers[c][k]
    BY <1>1, <2>a, <2>1
  <2>7. leftovers'[c][last] = piece /\ Range(leftovers'[c]) = Range(leftovers[c]) \union {piece}
    BY <1>2, <2>a, <2>1
  <2>8. leftovers'[c] \in Seq(Pieces) /\ Len(leftovers'[c]) = last
    BY <1>2, <2>a, <2>1
  <2>. QED  BY <1>p, <2>4, <2>5, <2>6, <2>7, <2>8
<1>5. DataTyped'
  <2>1. leftovers' \in [Children -> Seq(Pieces)]
    BY <1>3, <1>4 DEF DataTyped
  <2>2. inQueue' \in Seq(Pieces)
    BY Taken
  <2>. QED  BY <2>1, <2>2 DEF DataTyped, Pieces
<1>6. inQueue[1][1] = c /\ Number(inQueue[1]) = 2 * n - 1
  BY DEF Number
<1>7. ASSUME NEW d \in Children, d # c, Intact(d)
      PROVE  Intact(d)'
  BY <1>3, <1>5, <1>6, <1>7, TakenOthers
<1>c. ASSUME Intact(c) PROVE Intact(c)'
  <2>0. Ordered(c) /\ Matched(c) /\ Behind(c) /\ Counted(c) /\ Complete(c)
    BY <1>c DEF Intact
  <2>8. /\ 1 \in Waiting(c) /\ Sent(c) \in Int /\ Sent(c)' = Sent(c)
        /\ 2 * n - 1 <= Sent(c)
        /\ \A k \in Waiting(c)' : /\ Number(inQueue'[k]) \in Int
                                  /\ Number(inQueue'[k]) <= Sent(c)
                                  /\ 2 * n - 1 < Number(inQueue'[k])
        /\ \A j, k \in Waiting(c)' : j < k => Number(inQueue'[j]) < Number(inQueue'[k])
    BY <2>0, <1>6, TakenOrder
  <2>9. /\ \A k \in Waiting(c)' : k + 1 \in Waiting(c) /\ inQueue'[k] = inQueue[k + 1]
        /\ Range(inQueue) = Range(inQueue)' \union {<<c, n, "head">>}
    BY <2>0, Taken
  <2>10. Ordered(c)'
    <3>1. \A k \in DOMAIN leftovers[c] :
             /\ Number(leftovers[c][k]) < 2 * n - 1 /\ Number(leftovers[c][k]) \in Int
             /\ leftovers[c][k][2] \in Nat /\ leftovers[c][k][2] < n
      <4>. SUFFICES ASSUME NEW k \in DOMAIN leftovers[c]
                    PROVE  /\ Number(leftovers[c][k]) < 2 * n - 1 /\ Number(leftovers[c][k]) \in Int
                           /\ leftovers[c][k][2] \in Nat /\ leftovers[c][k][2] < n
        OBVIOUS
      <4>1. leftovers[c][k][2] \in Nat /\ leftovers[c][k][3] = "head"
        BY <2>0, DataFacts DEF Ordered
      <4>2. Number(leftovers[c][k]) = 2 * leftovers[c][k][2] - 1
        BY <4>1 DEF Number
      <4>3. Number(leftovers[c][k]) < 2 * n - 1
        BY <2>0, <1>6, <2>8 DEF Ordered
      <4>. QED  BY <4>1, <4>2, <4>3
    <3>2. Number(leftovers'[c][last]) = 2 * n - 1
      BY <1>4 DEF Number
    <3>3. ASSUME NEW k \in DOMAIN leftovers'[c]
          PROVE  /\ leftovers'[c][k][1] = c /\ leftovers'[c][k][3] = "head"
                 /\ Number(leftovers'[c][k]) <= Sent(c)
                 /\ \A j \in Waiting(c)' : Number(leftovers'[c][k]) < Number(inQueue'[j])
      <4>1. CASE k \in DOMAIN leftovers[c]
        <5>1. leftovers'[c][k] = leftovers[c][k]
          BY <1>4, <4>1
        <5>2. leftovers[c][k][1] = c /\ leftovers[c][k][3] = "head"
          BY <2>0, <4>1 DEF Ordered
        <5>3. Number(leftovers'[c][k]) \in Int /\ Number(leftovers'[c][k]) < 2 * n - 1
          BY <3>1, <4>1, <5>1
        <5>4. \A x, y, z \in Int : x < y /\ (y < z \/ y <= z) => x < z /\ x <= z
          OBVIOUS
        <5>5. 2 * n - 1 \in Int
          OBVIOUS
        <5>6. Number(leftovers'[c][k]) <= Sent(c)
          BY <2>8, <5>3, <5>4, <5>5
        <5>7. ASSUME NEW j \in Waiting(c)' PROVE Number(leftovers'[c][k]) < Number(inQueue'[j])
          <6>1. Number(inQueue'[j]) \in Int /\ 2 * n - 1 < Number(inQueue'[j])
            BY <2>8
          <6>. QED  BY <5>3, <5>4, <5>5, <6>1
        <5>. QED  BY <5>1, <5>2, <5>6, <5>7
      <4>2. CASE k = last
        <5>1. leftovers'[c][k] = <<c, n, "head">> /\ Number(leftovers'[c][k]) = 2 * n - 1
          BY <1>4, <3>2, <4>2
        <5>2. leftovers'[c][k][1] = c /\ leftovers'[c][k][3] = "head"
          BY <5>1
        <5>. QED  BY <2>8, <5>1, <5>2
      <4>. QED  BY <1>4, <4>1, <4>2
    <3>4. \A j, k \in DOMAIN leftovers'[c] : j < k => leftovers'[c][j][2] < leftovers'[c][k][2]
      <4>. SUFFICES ASSUME NEW j \in DOMAIN leftovers'[c], NEW k \in DOMAIN leftovers'[c], j < k
                    PROVE  leftovers'[c][j][2] < leftovers'[c][k][2]
        OBVIOUS
      <4>1. j \in DOMAIN leftovers[c]
        BY <1>4
      <4>2. CASE k \in DOMAIN leftovers[c]
        BY <2>0, <1>4, <4>1, <4>2 DEF Ordered
      <4>3. CASE k = last
        BY <1>4, <3>1, <4>1, <4>3
      <4>. QED  BY <1>4, <4>2, <4>3
    <3>. QED  BY <2>8, <3>3, <3>4 DEF Ordered, Number
  <2>11. /\ \A m : HasHead(c, m)' <=> HasHead(c, m)
         /\ \A m : HasTail(c, m)' <=> HasTail(c, m)
    <3>1. Range(leftovers[c])' = Range(leftovers'[c])
      BY DEF Range
    <3>. QED  BY <1>4, <2>9, <3>1 DEF HasHead, HasTail
  <2>12. Matched(c)'
    BY <2>0, <2>11 DEF Matched
  <2>13. Behind(c)'
    <3>1. \A k \in DOMAIN got[c] : got[c][k][1][2] < leftovers'[c][last][2]
      BY <2>0, <1>4, <2>8 DEF Behind
    <3>. QED  BY <2>0, <1>4, <2>9, <3>1 DEF Behind
  <2>14. Counted(c)'
    <3>1. Dangling(c)' = Dangling(c)
      BY <2>11 DEF Dangling
    <3>2. Spoilt(c)' = Spoilt(c)
      BY DEF Spoilt, Frame
    <3>. QED  BY <2>0, <3>1, <3>2 DEF Counted
  <2>15. Complete(c)'
    <3>. SUFFICES ASSUME cuts[c] = 0 PROVE Complete(c)'
      BY DEF Complete
    <3>1. /\ \A k \in DOMAIN got[c] : got[c][k] = Frame(c, k)
          /\ leftovers[c] \in {<<>>, << <<c, Len(got[c]) + 1, "head">> >>}
          /\ {Number(inQueue[k]) : k \in Waiting(c)} = Handled(c) + 1 .. Sent(c)
      BY <2>0 DEF Complete
    <3>2. Len(got[c]) \in Nat
      BY <2>0, DataFacts
    <3>3. Handled(c) \in Int
      BY <1>1, <3>2 DEF Handled
    <3>4. /\ 2 * n - 1 = Handled(c) + 1
          /\ {Number(inQueue'[k]) : k \in Waiting(c)'} = Handled(c) + 2 .. Sent(c)
      BY <2>0, <1>6, <3>1, <3>3, TakenOrder
    <3>5. leftovers[c] = <<>> /\ n = Len(got[c]) + 1
      <4>1. CASE leftovers[c] = <<>>
        BY <3>2, <3>4, <4>1 DEF Handled
      <4>2. CASE leftovers[c] = << <<c, Len(got[c]) + 1, "head">> >>
        <5>1. Handled(c) = 2 * Len(got[c]) + 1
          BY <4>2 DEF Handled
        <5>. QED  BY <3>2, <3>4, <5>1
      <4>. QED  BY <3>1, <4>1, <4>2
    <3>6. leftovers'[c] = << <<c, Len(got[c]) + 1, "head">> >>
      BY <1>3, <3>5
    <3>7. Handled(c)' = Handled(c) + 1 /\ Handled(c)' + 1 = Handled(c) + 2
      <4>1. Len(leftovers[c]) = 0 /\ Len(leftovers'[c]) = 1
        BY <3>5, <3>6
      <4>2. Handled(c) = 2 * Len(got[c]) + 0 /\ Handled(c)' = 2 * Len(got[c]) + 1
        BY <4>1 DEF Handled
      <4>. QED  BY <3>2, <4>2
    <3>. QED  BY <2>8, <3>1, <3>4, <3>6, <3>7 DEF Complete, Frame
  <2>. QED  BY <2>10, <2>12, <2>13, <2>14, <2>15 DEF Intact
<1>. QED  BY <1>5, <1>7, <1>c

(* A tail that comes first in the queue has its head in what is left over, *)
(* as the last entry, and the heads before it are without a tail.          *)
LEMMA TailFirst ==
    ASSUME DataTyped, NEW c \in Children, Intact(c), NEW n \in Nat \ {0},
           inQueue # <<>>, inQueue' = Tail(inQueue), UNCHANGED next, inQueue[1] = <<c, n, "tail">>
    PROVE  /\ 2 * n <= Sent(c) /\ n < next[c][1]
           /\ \A k \in DOMAIN leftovers[c] : leftovers[c][k][2] \in Nat \ {0} /\ leftovers[c][k][2] <= n
           /\ Len(leftovers[c]) \in Nat \ {0}
           /\ leftovers[c][Len(leftovers[c])] = <<c, n, "head">>
           /\ Len(leftovers[c]) # 1 =>
                 leftovers[c][1][2] < n /\ leftovers[c][1][2] \in Dangling(c)
<1>0. DataTyped /\ Ordered(c) /\ Matched(c)
  BY DEF Intact
<1>1. inQueue[1][1] = c /\ Number(inQueue[1]) = 2 * n
  BY DEF Number
<1>2. /\ 1 \in Waiting(c) /\ Sent(c) \in Int /\ 2 * n <= Sent(c)
      /\ \A m, part : <<c, m, part>> \in Range(inQueue)' =>
            m \in Nat \ {0} /\ 2 * n < Number(<<c, m, part>>)
      /\ Range(inQueue) = Range(inQueue)' \union {<<c, n, "tail">>}
  <2>1. Range(inQueue) = Range(inQueue)' \union {<<c, n, "tail">>}
    BY <1>0, Taken
  <2>2. /\ 1 \in Waiting(c) /\ Sent(c) \in Int /\ Number(inQueue[1]) <= Sent(c)
        /\ \A m, part : <<c, m, part>> \in Range(inQueue)' =>
              m \in Nat \ {0} /\ Number(inQueue[1]) < Number(<<c, m, part>>)
    BY <1>0, <1>1, TakenOrder
  <2>3. ASSUME NEW m, NEW part, <<c, m, part>> \in Range(inQueue)'
        PROVE  m \in Nat \ {0} /\ 2 * n < Number(<<c, m, part>>)
    <3>1. m \in Nat \ {0} /\ Number(inQueue[1]) < Number(<<c, m, part>>)
      BY <2>2, <2>3
    <3>. QED  BY <1>1, <3>1
  <2>. QED  BY <1>1, <2>1, <2>2, <2>3
<1>3. next[c][1] \in Nat \ {0} /\ n < next[c][1]
  BY <1>0, <1>2, DataFacts, Already
<1>4. /\ Len(leftovers[c]) \in Nat /\ DOMAIN leftovers[c] = 1 .. Len(leftovers[c])
      /\ \A k \in DOMAIN leftovers[c] :
            /\ leftovers[c][k] = <<c, leftovers[c][k][2], "head">>
            /\ leftovers[c][k][2] \in Nat \ {0}
  BY <1>0, DataFacts DEF Ordered
<1>5. ASSUME NEW k \in DOMAIN leftovers[c] PROVE leftovers[c][k][2] <= n
  <2>1. Number(leftovers[c][k]) = 2 * leftovers[c][k][2] - 1
    BY <1>4 DEF Number
  <2>2. Number(leftovers[c][k]) < 2 * n
    <3>1. Number(leftovers[c][k]) < Number(inQueue[1])
      BY <1>0, <1>2 DEF Ordered
    <3>. QED  BY <1>1, <3>1
  <2>. QED  BY <1>4, <2>1, <2>2
<1>6. ~ (<<c, n, "head">> \in Range(inQueue))
  <2>. SUFFICES ASSUME <<c, n, "head">> \in Range(inQueue)' PROVE FALSE
    BY <1>2
  <2>1. 2 * n < Number(<<c, n, "head">>)
    BY <1>2
  <2>. QED  BY <2>1 DEF Number
<1>7. PICK k \in DOMAIN leftovers[c] : leftovers[c][k] = <<c, n, "head">>
  <2>1. n \in 1 .. next[c][1] /\ HasTail(c, n)
    BY <1>2, <1>3 DEF HasTail
  <2>2. HasHead(c, n)
    BY <1>0, <2>1 DEF Matched
  <2>. QED  BY <1>6, <2>2 DEF HasHead, Range
<1>8. Len(leftovers[c]) \in Nat \ {0} /\ Len(leftovers[c]) \in DOMAIN leftovers[c]
      /\ 1 \in DOMAIN leftovers[c]
  BY <1>4, <1>7
<1>9. k = Len(leftovers[c])
  <2>. SUFFICES ASSUME k < Len(leftovers[c]) PROVE FALSE
    BY <1>4, <1>7
  <2>1. leftovers[c][k][2] < leftovers[c][Len(leftovers[c])][2]
    BY <1>0, <1>7, <1>8 DEF Ordered
  <2>. QED  BY <1>4, <1>5, <1>7, <1>8, <2>1
<1>10. ASSUME Len(leftovers[c]) # 1
       PROVE  leftovers[c][1][2] < n /\ leftovers[c][1][2] \in Dangling(c)
  <2>m. PICK m \in Nat \ {0} : m = leftovers[c][1][2]
    BY <1>4, <1>8
  <2>1. m < n
    <3>1. 1 < Len(leftovers[c])
      <4>1. \A l \in Nat \ {0} : l # 1 => 1 < l
        OBVIOUS
      <4>. QED  BY <1>8, <1>10, <4>1
    <3>2. leftovers[c][1][2] < leftovers[c][Len(leftovers[c])][2]
      BY <1>0, <1>8, <3>1 DEF Ordered
    <3>. QED  BY <1>7, <1>9, <2>m, <3>2
  <2>2. HasHead(c, m)
    BY <1>4, <1>8, <2>m DEF HasHead, Range
  <2>3. ~ (<<c, m, "tail">> \in Range(inQueue))
    <3>. SUFFICES ASSUME <<c, m, "tail">> \in Range(inQueue)' PROVE FALSE
      BY <1>2, <2>1
    <3>1. 2 * n < Number(<<c, m, "tail">>)
      BY <1>2
    <3>. QED  BY <2>1, <3>1 DEF Number
  <2>4. next[c] # <<m, "tail">>
    BY <1>3, <2>1
  <2>5. m \in 1 .. next[c][1]
    BY <1>3, <2>1
  <2>. QED  BY <2>m, <2>1, <2>2, <2>3, <2>4, <2>5 DEF Dangling, HasTail
<1>. QED  BY <1>2, <1>3, <1>4, <1>5, <1>7, <1>8, <1>9, <1>10

(* on_received raises: the head of the frame it got stays without a tail. *)
LEMMA RaiseKeeps ==
    ASSUME DataTyped, NEW c \in Children, NEW n \in Nat \ {0},
           inQueue # <<>>, inQueue' = Tail(inQueue), UNCHANGED <<next, held, got, leftovers>>,
           inQueue[1] = <<c, n, "tail">>, cuts' = [cuts EXCEPT ![c] = cuts[c] + 1]
    PROVE  DataTyped' /\ \A d \in Children : Intact(d) => Intact(d)'
<1>1. cuts[c] \in Nat /\ cuts'[c] = cuts[c] + 1 /\ \A d \in Children \ {c} : cuts'[d] = cuts[d]
  BY DEF DataTyped
<1>2. DataTyped'
  <2>1. inQueue' \in Seq(Pieces)
    BY Taken
  <2>2. cuts' \in [Children -> Nat]
    BY <1>1 DEF DataTyped
  <2>. QED  BY <2>1, <2>2 DEF DataTyped, Pieces
<1>3. inQueue[1][1] = c /\ Number(inQueue[1]) = 2 * n
  BY DEF Number
<1>4. ASSUME NEW d \in Children, d # c, Intact(d)
      PROVE  Intact(d)'
  BY <1>1, <1>2, <1>3, <1>4, TakenOthers
<1>c. ASSUME Intact(c) PROVE Intact(c)'
  <2>0. Ordered(c) /\ Matched(c) /\ Behind(c) /\ Counted(c) /\ Complete(c)
    BY <1>c DEF Intact
  <2>5. /\ \A k \in Waiting(c)' : k + 1 \in Waiting(c) /\ inQueue'[k] = inQueue[k + 1]
        /\ Range(inQueue) = Range(inQueue)' \union {<<c, n, "tail">>}
    BY <2>0, Taken
  <2>6. /\ Sent(c)' = Sent(c)
        /\ \A k \in Waiting(c)' : Number(inQueue'[k]) <= Sent(c)
        /\ \A j, k \in Waiting(c)' : j < k => Number(inQueue'[j]) < Number(inQueue'[k])
    BY <2>0, <1>3, TakenOrder
  <2>7. Ordered(c)'
    <3>1. \A k \in Waiting(c)' : \A j \in DOMAIN leftovers[c] : Number(leftovers[c][j]) < Number(inQueue'[k])
      BY <2>0, <2>5 DEF Ordered
    <3>. QED  BY <2>0, <2>6, <3>1 DEF Ordered, Number
  <2>8. /\ \A m : HasHead(c, m)' <=> HasHead(c, m)
        /\ \A m : HasTail(c, m)' => HasTail(c, m)
        /\ \A m : HasTail(c, m) => HasTail(c, m)' \/ m = n
    BY <2>5 DEF HasHead, HasTail
  <2>9. Matched(c)'
    BY <2>0, <2>8 DEF Matched
  <2>10. Behind(c)'
    BY <2>0, <2>5 DEF Behind
  <2>11. Counted(c)'
    <3>1. Dangling(c)' \subseteq Dangling(c) \union {n}
      BY <2>8 DEF Dangling
    <3>2. Spoilt(c)' = Spoilt(c)
      BY DEF Spoilt, Frame
    <3>3. /\ IsFiniteSet(Dangling(c)) /\ Cardinality(Dangling(c)) \in Nat
          /\ Cardinality(Spoilt(c)) \in Nat
      BY <2>0, Countable
    <3>4. /\ Cardinality(Dangling(c)') <= Cardinality(Dangling(c)) + 1
          /\ Cardinality(Dangling(c)') \in Nat
      BY <3>1, <3>3, OneMore
    <3>. QED  BY <2>0, <1>1, <3>2, <3>3, <3>4 DEF Counted
  <2>12. Complete(c)'
    BY <1>1 DEF Complete
  <2>. QED  BY <2>7, <2>9, <2>10, <2>11, <2>12 DEF Intact
<1>. QED  BY <1>2, <1>4, <1>c

(* A tail makes a frame of what was left over.  It is spoilt only if there *)
(* was a head too many, and then that is gone.                             *)
LEMMA TailKeeps ==
    ASSUME DataTyped, NEW c \in Children, NEW n \in Nat \ {0},
           inQueue # <<>>, inQueue' = Tail(inQueue), UNCHANGED <<next, held, cuts>>,
           inQueue[1] = <<c, n, "tail">>, <<c, n, "tail">> \in Pieces,
           leftovers' = [leftovers EXCEPT ![c] = <<>>],
           got' = [got EXCEPT ![c] = Append(got[c], Append(leftovers[c], <<c, n, "tail">>))]
    PROVE  DataTyped' /\ \A d \in Children : Intact(d) => Intact(d)'
<1>g. /\ leftovers[c] \in Seq(Pieces) /\ got[c] \in Seq(Seq(Pieces)) /\ Len(got[c]) \in Nat
      /\ DOMAIN got[c] = 1 .. Len(got[c])
  BY DataFacts
<1>3. PICK piece \in Pieces : piece = <<c, n, "tail">>
  OBVIOUS
<1>h. Append(leftovers[c], piece) \in Seq(Pieces)
  BY <1>g, AppendEntries
<1>5. PICK text \in Seq(Pieces), last \in Nat \ {0} :
         text = Append(leftovers[c], piece) /\ last = Len(got[c]) + 1
  <2>1. Len(got[c]) + 1 \in Nat \ {0}
    BY <1>g
  <2>. QED  BY <1>h, <2>1
<1>6. /\ leftovers'[c] = <<>> /\ got'[c] = Append(got[c], text) /\ cuts'[c] = cuts[c]
      /\ \A d \in Children \ {c} : leftovers'[d] = leftovers[d] /\ got'[d] = got[d]
  BY <1>3, <1>5 DEF DataTyped
<1>7. /\ got'[c] \in Seq(Seq(Pieces)) /\ Len(got'[c]) = last
      /\ DOMAIN got'[c] = DOMAIN got[c] \union {last} /\ last \notin DOMAIN got[c]
      /\ \A k \in DOMAIN got[c] : k \in Nat \ {0} /\ k < last /\ got'[c][k] = got[c][k]
      /\ got'[c][last] = text
  <2>1. /\ Append(got[c], text) \in Seq(Seq(Pieces)) /\ Len(Append(got[c], text)) = Len(got[c]) + 1
        /\ \A k \in 1 .. Len(got[c]) : Append(got[c], text)[k] = got[c][k]
        /\ Append(got[c], text)[Len(got[c]) + 1] = text
    BY <1>g, AppendEntries
  <2>2. DOMAIN got'[c] = 1 .. last
    <3>1. \A q \in Seq(Seq(Pieces)) : DOMAIN q = 1 .. Len(q)
      OBVIOUS
    <3>. QED  BY <1>5, <1>6, <2>1, <3>1
  <2>3. DOMAIN got'[c] = DOMAIN got[c] \union {last} /\ last \notin DOMAIN got[c]
    BY <1>g, <1>5, <2>2
  <2>4. \A k \in DOMAIN got[c] : k \in Nat \ {0} /\ k < last
    <3>1. \A m \in Nat : \A k \in 1 .. m : k \in Nat \ {0} /\ k < m + 1
      OBVIOUS
    <3>2. Len(got[c]) \in Nat /\ DOMAIN got[c] = 1 .. Len(got[c]) /\ last = Len(got[c]) + 1
      BY <1>g, <1>5
    <3>. QED  BY <3>1, <3>2
  <2>5. \A k \in DOMAIN got[c] : got'[c][k] = got[c][k]
    BY <1>g, <1>6, <2>1
  <2>6. got'[c][last] = text /\ got'[c] \in Seq(Seq(Pieces)) /\ Len(got'[c]) = last
    BY <1>5, <1>6, <2>1
  <2>. QED  BY <2>3, <2>4, <2>5, <2>6
<1>8. DataTyped'
  <2>1. leftovers' \in [Children -> Seq(Pieces)]
    BY DEF DataTyped
  <2>2. got' \in [Children -> Seq(Seq(Pieces))]
    BY <1>6, <1>7 DEF DataTyped
  <2>3. inQueue' \in Seq(Pieces)
    BY Taken
  <2>. QED  BY <2>1, <2>2, <2>3 DEF DataTyped, Pieces
<1>9. inQueue[1][1] = c /\ Number(inQueue[1]) = 2 * n
  BY DEF Number
<1>10. ASSUME NEW d \in Children, d # c, Intact(d)
       PROVE  Intact(d)'
  <2>1. leftovers'[d] = leftovers[d] /\ got'[d] = got[d] /\ cuts'[d] = cuts[d]
    BY <1>6, <1>10
  <2>. QED  BY <1>8, <1>9, <1>10, <2>1, TakenOthers
<1>c. ASSUME Intact(c) PROVE Intact(c)'
  <2>0. Ordered(c) /\ Matched(c) /\ Behind(c) /\ Counted(c) /\ Complete(c)
    BY <1>c DEF Intact
  <2>1. /\ 2 * n <= Sent(c) /\ n < next[c][1]
        /\ \A k \in DOMAIN leftovers[c] : leftovers[c][k][2] \in Nat \ {0} /\ leftovers[c][k][2] <= n
        /\ Len(leftovers[c]) \in Nat \ {0}
        /\ leftovers[c][Len(leftovers[c])] = <<c, n, "head">>
        /\ Len(leftovers[c]) # 1 =>
              leftovers[c][1][2] < n /\ leftovers[c][1][2] \in Dangling(c)
    BY <1>c, TailFirst
  <2>2. /\ leftovers[c] \in Seq(Pieces) /\ DOMAIN leftovers[c] = 1 .. Len(leftovers[c])
        /\ 1 \in DOMAIN leftovers[c]
        /\ got[c] \in Seq(Seq(Pieces)) /\ Len(got[c]) \in Nat /\ DOMAIN got[c] = 1 .. Len(got[c])
        /\ next[c][1] \in Nat \ {0}
    BY <2>0, <2>1, DataFacts
  <2>4. /\ Append(leftovers[c], piece) \in Seq(Pieces)
        /\ Append(leftovers[c], piece)[1] = leftovers[c][1]
        /\ Append(leftovers[c], piece) # <<>>
        /\ leftovers[c] = << <<c, n, "head">> >> => Append(leftovers[c], piece) = Frame(c, n)
    <3>1. Append(leftovers[c], piece) \in Seq(Pieces) /\ Append(leftovers[c], piece)[1] = leftovers[c][1]
      BY <2>1, <2>2, AppendEntries
    <3>2. Append(leftovers[c], piece) # <<>>
      <4>1. Len(Append(leftovers[c], piece)) = Len(leftovers[c]) + 1
        BY <2>2, AppendEntries
      <4>2. Len(Append(leftovers[c], piece)) # 0
        BY <2>1, <4>1
      <4>3. Len(<<>>) = 0
        OBVIOUS
      <4>. QED  BY <4>2, <4>3
    <3>3. leftovers[c] = << <<c, n, "head">> >> => Append(leftovers[c], piece) = Frame(c, n)
      <4>1. \A q \in Seq(Pieces) : Len(q) = 2 => q = <<q[1], q[2]>>
        OBVIOUS
      <4>2. /\ Len(Append(leftovers[c], piece)) = Len(leftovers[c]) + 1
            /\ Append(leftovers[c], piece)[Len(leftovers[c]) + 1] = piece
        BY <2>2, AppendEntries
      <4>3. leftovers[c] = << <<c, n, "head">> >> => Len(leftovers[c]) = 1
        OBVIOUS
      <4>4. ASSUME leftovers[c] = << <<c, n, "head">> >>
            PROVE  Append(leftovers[c], piece) = Frame(c, n)
        <5>1. leftovers[c][1] = <<c, n, "head">> /\ Len(leftovers[c]) = 1
          BY <4>3, <4>4
        <5>2. /\ Len(Append(leftovers[c], piece)) = 2 /\ Append(leftovers[c], piece)[2] = piece
              /\ Append(leftovers[c], piece)[1] = <<c, n, "head">>
          BY <3>1, <4>2, <5>1
        <5>. QED  BY <1>3, <3>1, <4>1, <5>2 DEF Frame
      <4>. QED  BY <4>4
    <3>. QED  BY <3>1, <3>2, <3>3
  <2>11. DOMAIN leftovers'[c] = {} /\ Range(leftovers[c])' = {}
    BY <1>6 DEF Range
  <2>12. /\ \A k \in Waiting(c)' : k + 1 \in Waiting(c) /\ inQueue'[k] = inQueue[k + 1]
         /\ Range(inQueue) = Range(inQueue)' \union {<<c, n, "tail">>}
    BY <2>0, Taken
  <2>13. /\ Sent(c)' = Sent(c) /\ Sent(c) \in Int
         /\ \A k \in Waiting(c)' : Number(inQueue'[k]) <= Sent(c)
         /\ \A j, k \in Waiting(c)' : j < k => Number(inQueue'[j]) < Number(inQueue'[k])
    BY <2>0, <1>9, TakenOrder
  <2>14. ASSUME NEW m, NEW part, <<c, m, part>> \in Range(inQueue)'
         PROVE  /\ <<c, m, part>> \in Range(inQueue) /\ m \in Nat \ {0} /\ n < m
    <3>1. /\ <<c, m, part>> \in Range(inQueue) /\ m \in Nat \ {0}
          /\ Number(inQueue[1]) < Number(<<c, m, part>>)
      BY <2>0, <1>9, <2>14, TakenOrder
    <3>. QED  BY <1>9, <3>1 DEF Number
  <2>15. Ordered(c)'
    BY <2>11, <2>13 DEF Ordered, Number
  <2>16. /\ \A m : HasHead(c, m)' <=> <<c, m, "head">> \in Range(inQueue)'
         /\ \A m : HasTail(c, m) <=> HasTail(c, m)' \/ m = n
    BY <2>1, <2>11, <2>12 DEF HasHead, HasTail
  <2>17. Matched(c)'
    <3>. SUFFICES ASSUME NEW m \in 1 .. next[c][1], HasTail(c, m)' PROVE HasHead(c, m)'
      BY DEF Matched
    <3>1. n < m
      BY <2>1, <2>2, <2>14 DEF HasTail
    <3>2. HasHead(c, m)
      BY <2>0, <2>16 DEF Matched
    <3>3. ~ (<<c, m, "head">> \in Range(leftovers[c]))
      <4>. SUFFICES ASSUME NEW k \in DOMAIN leftovers[c], leftovers[c][k] = <<c, m, "head">>
                    PROVE  FALSE
        BY DEF Range
      <4>. QED  BY <2>1, <3>1
    <3>. QED  BY <2>12, <2>16, <3>2, <3>3 DEF HasHead
  <2>18. /\ text # <<>> /\ text[1] = leftovers[c][1] /\ text[1][2] \in Nat \ {0} /\ text[1][2] <= n
    BY <2>1, <2>2, <2>4, <1>5
  <2>19. Behind(c)'
    <3>1. \A k \in Waiting(c)' : inQueue'[k][2] \in Nat /\ n < inQueue'[k][2]
      <4>. SUFFICES ASSUME NEW k \in Waiting(c)'
                    PROVE  inQueue'[k][2] \in Nat /\ n < inQueue'[k][2]
        OBVIOUS
      <4>1. inQueue'[k] = <<c, inQueue'[k][2], inQueue'[k][3]>> /\ inQueue'[k] \in Range(inQueue)'
        <5>1. \A p \in Pieces : p = <<p[1], p[2], p[3]>>
          BY DEF Pieces
        <5>2. inQueue'[k] \in Pieces
          <6>1. \A q \in Seq(Pieces) : \A j \in DOMAIN q : q[j] \in Pieces
            OBVIOUS
          <6>2. inQueue' \in Seq(Pieces) /\ k \in DOMAIN inQueue'
            BY <2>0, Taken DEF Waiting
          <6>. QED  BY <6>1, <6>2
        <5>. QED  BY <5>1, <5>2 DEF Waiting, Range
      <4>. QED  BY <2>14, <4>1
    <3>2. /\ text[1][2] < next[c][1]
          /\ \A k \in Waiting(c)' : text[1][2] < inQueue'[k][2]
      <4>1. \A f, x \in Nat : f <= n /\ n < x => f < x
        OBVIOUS
      <4>2. text[1][2] \in Nat
        BY <2>18
      <4>. QED  BY <2>1, <2>2, <2>18, <3>1, <4>1, <4>2
    <3>3. \A k \in DOMAIN got[c] :
             /\ got[c][k] # <<>> /\ got[c][k][1][2] < next[c][1]
             /\ got[c][k][1][2] < text[1][2]
             /\ \A j \in Waiting(c)' : got[c][k][1][2] < inQueue'[j][2]
      BY <2>0, <2>2, <2>12, <2>18 DEF Behind
    <3>4. ASSUME NEW j \in DOMAIN got'[c], NEW k \in DOMAIN got'[c], j < k
          PROVE  got'[c][j][1][2] < got'[c][k][1][2]
      <4>1. j \in DOMAIN got[c]
        BY <1>7, <3>4
      <4>2. CASE k \in DOMAIN got[c]
        BY <2>0, <1>7, <3>4, <4>1, <4>2 DEF Behind
      <4>3. CASE k = last
        BY <1>7, <3>3, <4>1, <4>3
      <4>. QED  BY <1>7, <4>2, <4>3
    <3>. QED  BY <1>7, <2>11, <2>18, <3>2, <3>3, <3>4 DEF Behind
  <2>20. Dangling(c)' \subseteq Dangling(c)
    <3>. SUFFICES ASSUME NEW m \in Dangling(c)' PROVE m \in Dangling(c)
      OBVIOUS
    <3>1. m \in 1 .. next[c][1] /\ HasHead(c, m)' /\ ~HasTail(c, m)'
      BY DEF Dangling
    <3>2. <<c, m, "head">> \in Range(inQueue) /\ n < m
      BY <2>14, <2>16, <3>1
    <3>. QED  BY <2>16, <3>1, <3>2 DEF Dangling, HasHead
  <2>21. Counted(c)'
    <3>1. /\ IsFiniteSet(Dangling(c)) /\ Cardinality(Dangling(c)) \in Nat
          /\ IsFiniteSet(Spoilt(c)) /\ Cardinality(Spoilt(c)) \in Nat
      BY <2>0, Countable
    <3>c. /\ cuts[c] \in Nat /\ cuts'[c] = cuts[c]
          /\ Cardinality(Spoilt(c)) + Cardinality(Dangling(c)) <= cuts[c]
      BY <2>0, DataFacts DEF Counted
    <3>2. Spoilt(c)' \subseteq Spoilt(c) \union {last}
      BY <1>7 DEF Spoilt, Frame
    <3>3. CASE Len(leftovers[c]) = 1
      <4>1. leftovers[c] = << <<c, n, "head">> >>
        <5>1. \A q \in Seq(Pieces) : Len(q) = 1 => q = <<q[1]>>
          OBVIOUS
        <5>. QED  BY <2>1, <2>2, <3>3, <5>1
      <4>2. text = Frame(c, n) /\ text = Frame(c, text[1][2])
        BY <2>4, <1>5, <4>1 DEF Frame
      <4>3. Spoilt(c)' \subseteq Spoilt(c)
        BY <1>7, <4>2 DEF Spoilt, Frame
      <4>4. /\ Cardinality(Spoilt(c)') <= Cardinality(Spoilt(c)) /\ Cardinality(Spoilt(c)') \in Nat
            /\ Cardinality(Dangling(c)') <= Cardinality(Dangling(c))
            /\ Cardinality(Dangling(c)') \in Nat
        BY <2>20, <3>1, <4>3, FS_Subset, FS_CardinalityType
      <4>. QED  BY <3>1, <3>c, <4>4 DEF Counted
    <3>4. CASE Len(leftovers[c]) # 1
      <4>. PICK m : m = leftovers[c][1][2]
        OBVIOUS
      <4>1. m \in Dangling(c) /\ m < n /\ m \in Nat
        BY <2>1, <2>2, <3>4
      <4>2. m \notin Dangling(c)'
        <5>. SUFFICES ASSUME HasHead(c, m)' PROVE FALSE
          BY DEF Dangling
        <5>1. n < m
          BY <2>14, <2>16
        <5>. QED  BY <4>1, <5>1
      <4>3. Dangling(c)' \subseteq Dangling(c) \ {m}
        BY <2>20, <4>2
      <4>4. /\ Cardinality(Dangling(c)') <= Cardinality(Dangling(c)) - 1
            /\ Cardinality(Dangling(c)') \in Nat
        BY <3>1, <4>1, <4>3, OneLess
      <4>5. /\ Cardinality(Spoilt(c)') <= Cardinality(Spoilt(c)) + 1
            /\ Cardinality(Spoilt(c)') \in Nat
        BY <3>1, <3>2, OneMore
      <4>. QED  BY <3>1, <3>c, <4>4, <4>5 DEF Counted
    <3>. QED  BY <3>3, <3>4
  <2>22. Complete(c)'
    <3>. SUFFICES ASSUME cuts[c] = 0 PROVE Complete(c)'
      BY DEF Complete
    <3>1. /\ \A k \in DOMAIN got[c] : got[c][k] = Frame(c, k)
          /\ leftovers[c] = << <<c, Len(got[c]) + 1, "head">> >>
          /\ {Number(inQueue[k]) : k \in Waiting(c)} = Handled(c) + 1 .. Sent(c)
      BY <2>0, <2>1 DEF Complete
    <3>2. Handled(c) = 2 * Len(got[c]) + 1
      BY <3>1 DEF Handled
    <3>h. Handled(c) \in Int
      BY <2>2, <3>2
    <3>3. /\ 2 * n = Handled(c) + 1
          /\ {Number(inQueue'[k]) : k \in Waiting(c)'} = Handled(c) + 2 .. Sent(c)
      BY <2>0, <1>9, <3>1, <3>h, TakenOrder
    <3>4. n = last /\ text = Frame(c, last)
      <4>1. n = last
        BY <2>2, <1>5, <3>2, <3>3
      <4>. QED  BY <2>4, <1>5, <3>1, <4>1
    <3>5. \A k \in DOMAIN got'[c] : got'[c][k] = Frame(c, k)
      BY <1>7, <3>1, <3>4
    <3>6. Handled(c)' = Handled(c) + 1 /\ Handled(c)' + 1 = Handled(c) + 2
      <4>1. Handled(c)' = 2 * last + 0
        BY <1>6, <1>7 DEF Handled
      <4>. QED  BY <2>2, <1>5, <3>2, <4>1
    <3>. QED  BY <1>6, <2>13, <3>3, <3>5, <3>6 DEF Complete, Frame, Number
  <2>. QED  BY <2>15, <2>17, <2>19, <2>21, <2>22 DEF Intact
<1>. QED  BY <1>8, <1>10, <1>c

(* A thread that was started before another reads its sender's next piece, *)
(* and puts it into the queue.  Nobody else's is touched.                  *)
LEMMA OrphanOthers ==
    ASSUME DataTyped, HeldOwn, NEW c \in Children, OrphanReads(c) \/ OrphanReceives(c)
    PROVE  /\ DataTyped' /\ HeldOwn'
           /\ \A d \in Children \ {c} : held'[d] = held[d] /\ (Intact(d) => Intact(d)')
<1>0. /\ next[c][1] \in Nat \ {0} /\ next[c][2] \in {"head", "tail"}
      /\ Len(inQueue) \in Nat /\ DOMAIN inQueue = 1 .. Len(inQueue) /\ inQueue \in Seq(Pieces)
  BY DataFacts DEF DataTyped
<1>1. CASE OrphanReads(c)
  <2>1. /\ next' = [next EXCEPT ![c] = IF next[c][2] = "head" THEN <<next[c][1], "tail">>
                                       ELSE <<next[c][1] + 1, "head">>]
        /\ held' = [held EXCEPT ![c] = << <<c, next[c][1], next[c][2]>> >>]
        /\ UNCHANGED <<inQueue, leftovers, got, cuts>>
    BY <1>1 DEF OrphanReads, Sends
  <2>2. /\ next' \in [Children -> (Nat \ {0}) \X {"head", "tail"}]
        /\ << <<c, next[c][1], next[c][2]>> >> \in Seq(Pieces)
    BY <1>0, <2>1 DEF DataTyped, Pieces
  <2>3. DataTyped'
    BY <2>1, <2>2 DEF DataTyped, Pieces
  <2>4. \A d \in Children \ {c} : next'[d] = next[d] /\ held'[d] = held[d]
    BY <2>1 DEF DataTyped
  <2>5. HeldOwn'
    <3>1. held'[c][1][1] = c
      BY <2>1 DEF DataTyped
    <3>. QED  BY <2>4, <3>1 DEF HeldOwn
  <2>6. ASSUME NEW d \in Children \ {c}, Intact(d) PROVE Intact(d)'
    BY <2>1, <2>3, <2>4, <2>6, Idle
  <2>. QED  BY <2>3, <2>4, <2>5, <2>6
<1>2. CASE OrphanReceives(c)
  <2>1. PICK piece \in Pieces, last \in Nat : piece = held[c][1] /\ last = Len(inQueue) + 1
    <3>1. held[c] \in Seq(Pieces) /\ held[c] # <<>>
      BY <1>2 DEF OrphanReceives, DataTyped
    <3>2. held[c][1] \in Pieces
      BY <3>1
    <3>. QED  BY <1>0, <3>2
  <2>2. /\ inQueue' = Append(inQueue, piece) /\ held' = [held EXCEPT ![c] = <<>>]
        /\ UNCHANGED <<leftovers, next, got, cuts>>
    BY <1>2, <2>1 DEF OrphanReceives
  <2>3. /\ inQueue' \in Seq(Pieces) /\ Len(inQueue') = last /\ DOMAIN inQueue' = 1 .. last
        /\ \A k \in DOMAIN inQueue : inQueue'[k] = inQueue[k] /\ k \in Int
        /\ inQueue'[last] = piece
    <3>1. \A q \in Seq(Pieces) : DOMAIN q = 1 .. Len(q)
      OBVIOUS
    <3>2. /\ Append(inQueue, piece) \in Seq(Pieces) /\ Len(Append(inQueue, piece)) = Len(inQueue) + 1
          /\ \A k \in 1 .. Len(inQueue) : Append(inQueue, piece)[k] = inQueue[k]
          /\ Append(inQueue, piece)[Len(inQueue) + 1] = piece
      BY <1>0, AppendEntries
    <3>. QED  BY <1>0, <2>1, <2>2, <3>1, <3>2
  <2>4. DataTyped'
    <3>1. held' \in [Children -> Seq(Pieces)]
      BY <2>2 DEF DataTyped
    <3>. QED  BY <2>2, <2>3, <3>1 DEF DataTyped, Pieces
  <2>5. \A d \in Children \ {c} : held'[d] = held[d]
    BY <2>2 DEF DataTyped
  <2>6. HeldOwn'
    <3>1. held'[c] = <<>>
      BY <2>2 DEF DataTyped
    <3>. QED  BY <2>5, <3>1 DEF HeldOwn
  <2>7. ASSUME NEW d \in Children \ {c}, Intact(d) PROVE Intact(d)'
    <3>1. inQueue'[last][1] # d
      BY <1>2, <2>1, <2>3 DEF OrphanReceives, HeldOwn
    <3>2. /\ DOMAIN inQueue' = DOMAIN inQueue \union {last} /\ last \notin DOMAIN inQueue
          /\ \A k \in DOMAIN inQueue : k \in Int
      BY <1>0, <2>1, <2>3
    <3>3. Waiting(d)' = Waiting(d)
      <4>1. \A k : k \in Waiting(d)' <=> k \in Waiting(d)
        BY <2>3, <3>1, <3>2 DEF Waiting
      <4>. QED  BY <4>1
    <3>4. /\ \A k \in Waiting(d)' : k + 0 \in Waiting(d) /\ inQueue'[k] = inQueue[k + 0]
          /\ \A k \in Waiting(d) : k - 0 \in Waiting(d)' /\ inQueue'[k - 0] = inQueue[k]
      BY <2>3, <3>2, <3>3 DEF Waiting
    <3>. QED  BY <2>2, <2>4, <2>7, <3>4, Untouched
  <2>. QED  BY <2>4, <2>5, <2>6, <2>7
<1>. QED  BY <1>1, <1>2

(* Every step keeps the frames together. *)
LEMMA FrameStep == Inv /\ FrameInv /\ [Next]_vars => FrameInv'
<1>. SUFFICES ASSUME Inv, FrameInv, [Next]_vars PROVE FrameInv'
  OBVIOUS
<1>0. DataTyped /\ HeldOwn /\ \A c \in Children \ twice : held[c] = <<>> /\ Intact(c)
  BY DEF FrameInv
<1>a. twice \subseteq twice'
  <2>1. \A c : Launch(c) => twice \subseteq twice'
    BY DEF Launch
  <2>2. StartNext \/ AddedStart => twice \subseteq twice'
    BY <2>1 DEF StartNext, AddedStart
  <2>3. StartsDone \/ AwaitNext \/ AwaitTimeout \/ AwaitsDone \/ RunEnter \/ LoopCheck \/ GetTimeout
        \/ Get \/ GetRaises \/ StopNext \/ StopNextDone \/ MuxEnds => twice' = twice
    BY DEF StartsDone, AwaitNext, AwaitTimeout, AwaitsDone, RunEnter, LoopCheck, GetTimeout,
           Get, GetRaises, StopNext, StopNextDone, MuxEnds, histories
  <2>4. AddedLook \/ RemoveStop \/ RemoveDone \/ Start \/ StopCall \/ StopReturn => twice' = twice
    BY DEF AddedLook, RemoveStop, RemoveDone, Start, StopCall, StopReturn, histories
  <2>5. \A c \in Children : ChildStep(c) \/ ChildEnds(c) \/ OrphanEnds(c) \/ Receive(c) \/ OrphanReads(c)
                            \/ SenderReconnects(c) \/ AddTransport(c) \/ RemoveTransport(c)
                            => twice' = twice
    BY DEF ChildStep, ChildOpen, ChildOpened, ChildEnter, OrphanEnter, OrphanReceives, ChildEnds,
           OrphanEnds, Receive, OrphanReads, SenderReconnects, AddTransport, RemoveTransport, histories
  <2>6. UNCHANGED vars => twice' = twice
    BY DEF vars, histories
  <2>. QED  BY <2>2, <2>3, <2>4, <2>5, <2>6 DEF Next, MuxStep, EditorStep
<1>b. ASSUME UNCHANGED held, DataTyped', \A d \in Children : Intact(d) => Intact(d)'
      PROVE  FrameInv'
  <2>1. HeldOwn'
    BY <1>0, <1>b DEF HeldOwn
  <2>. QED  BY <1>0, <1>a, <1>b, <2>1 DEF FrameInv
<1>1. CASE \E c \in Children : Receive(c)
  <2>1. UNCHANGED held
    BY <1>1 DEF Receive
  <2>. QED  BY <1>0, <1>1, <1>b, <2>1, ReceiveKeeps
<1>2. CASE \E c \in Children : ChildOpen(c) \/ SenderReconnects(c)
  <2>1. PICK c \in Children : Anew(c) /\ UNCHANGED <<inQueue, leftovers, held, got>>
    BY <1>2 DEF ChildOpen, SenderReconnects
  <2>. QED  BY <1>0, <1>b, <2>1, AnewKeeps
<1>3. CASE Get \/ GetRaises
  <2>1. PICK c \in Children, n \in Nat \ {0}, part \in {"head", "tail"} :
          /\ inQueue # <<>> /\ inQueue' = Tail(inQueue) /\ UNCHANGED <<next, held>>
          /\ inQueue[1] = <<c, n, part>> /\ <<c, n, part>> \in Pieces
          /\ Get => /\ leftovers' = [leftovers EXCEPT ![c] = IF part = "tail" THEN <<>>
                                       ELSE Append(leftovers[c], <<c, n, part>>)]
                    /\ got' = IF part = "tail"
                              THEN [got EXCEPT ![c] = Append(got[c], Append(leftovers[c], <<c, n, part>>))]
                              ELSE got
                    /\ UNCHANGED cuts
          /\ GetRaises => /\ part = "tail" /\ UNCHANGED <<leftovers, got>>
                          /\ cuts' = [cuts EXCEPT ![c] = cuts[c] + 1]
    BY <1>0, <1>3, HandleFacts
  <2>2. CASE Get /\ part = "head"
    BY <1>0, <1>b, <2>1, <2>2, HeadKeeps
  <2>3. CASE Get /\ part = "tail"
    BY <1>0, <1>b, <2>1, <2>3, TailKeeps
  <2>4. CASE GetRaises
    BY <1>0, <1>b, <2>1, <2>4, RaiseKeeps
  <2>. QED  BY <1>3, <2>1, <2>2, <2>3, <2>4
<1>4. CASE \E c \in Children : OrphanReads(c) \/ OrphanReceives(c)
  <2>1. PICK c \in Children : OrphanReads(c) \/ OrphanReceives(c)
    BY <1>4
  <2>2. c \in twice
    <3>1. orphan[c] = "up" \/ held[c] # <<>>
      BY <2>1 DEF OrphanReads, OrphanReceives
    <3>2. c \notin twice => orphan[c] = "down" /\ held[c] = <<>>
      BY <1>0 DEF Inv, ThreadInv
    <3>. QED  BY <3>1, <3>2
  <2>3. /\ DataTyped' /\ HeldOwn'
        /\ \A d \in Children \ {c} : held'[d] = held[d] /\ (Intact(d) => Intact(d)')
    BY <1>0, <2>1, OrphanOthers
  <2>4. \A d \in Children \ twice' : held'[d] = <<>> /\ Intact(d)'
    BY <1>0, <1>a, <2>2, <2>3
  <2>. QED  BY <2>3, <2>4 DEF FrameInv
<1>5. CASE UNCHANGED data
  <2>1. UNCHANGED <<inQueue, leftovers, next, held, got, cuts>>
    BY <1>5 DEF data
  <2>2. DataTyped'
    BY <1>0, <2>1 DEF DataTyped, Pieces
  <2>3. ASSUME NEW d \in Children, Intact(d) PROVE Intact(d)'
    BY <1>0, <2>1, <2>2, <2>3, Idle
  <2>. QED  BY <1>b, <2>1, <2>2, <2>3
<1>6. StartNext \/ StartsDone \/ AwaitNext \/ AwaitTimeout \/ AwaitsDone => UNCHANGED data
  BY DEF StartNext, StartsDone, AwaitNext, AwaitTimeout, AwaitsDone
<1>7. RunEnter \/ LoopCheck \/ GetTimeout \/ StopNext \/ StopNextDone \/ MuxEnds => UNCHANGED data
  BY DEF RunEnter, LoopCheck, GetTimeout, StopNext, StopNextDone, MuxEnds, data
<1>8. EditorStep \/ Start \/ StopCall \/ StopReturn => UNCHANGED data
  BY DEF EditorStep, AddedLook, AddedStart, RemoveStop, RemoveDone, Start, StopCall, StopReturn
<1>9. \A c \in Children : ChildOpened(c) \/ ChildEnter(c) \/ OrphanEnter(c) \/ ChildEnds(c)
                          \/ OrphanEnds(c) \/ AddTransport(c) \/ RemoveTransport(c) => UNCHANGED data
  BY DEF ChildOpened, ChildEnter, OrphanEnter, ChildEnds, OrphanEnds, AddTransport, RemoveTransport
<1>10. UNCHANGED vars => UNCHANGED data
  BY DEF vars
<1>. QED  BY <1>1, <1>2, <1>3, <1>4, <1>5, <1>6, <1>7, <1>8, <1>9, <1>10
          DEF Next, MuxStep, ChildStep

(* In the beginning nothing was sent. *)
LEMMA FrameInit == Init => FrameInv
<1>. SUFFICES ASSUME Init PROVE FrameInv
  OBVIOUS
<1>1. /\ inQueue = <<>> /\ leftovers = [c \in Children |-> <<>>]
      /\ next = [c \in Children |-> <<1, "head">>]
      /\ got = [c \in Children |-> <<>>] /\ cuts = [c \in Children |-> 0]
      /\ held = [c \in Children |-> <<>>]
  BY DEF Init
<1>2. DataTyped /\ HeldOwn /\ \A c \in Children : held[c] = <<>>
  BY <1>1 DEF DataTyped, HeldOwn
<1>3. ASSUME NEW c \in Children
      PROVE  Ordered(c) /\ Matched(c) /\ Behind(c) /\ Counted(c) /\ Complete(c)
  <2>1. /\ DOMAIN inQueue = {} /\ leftovers[c] = <<>> /\ DOMAIN leftovers[c] = {}
        /\ got[c] = <<>> /\ DOMAIN got[c] = {} /\ Len(got[c]) = 0 /\ Len(leftovers[c]) = 0
        /\ next[c] = <<1, "head">> /\ cuts[c] = 0
    BY <1>1
  <2>2. Waiting(c) = {} /\ Spoilt(c) = {} /\ Sent(c) = 0 /\ Handled(c) = 0
    BY <2>1 DEF Waiting, Spoilt, Sent, Number, Handled
  <2>3. \A n : ~HasHead(c, n) /\ ~HasTail(c, n)
    BY <2>1 DEF HasHead, HasTail, Range
  <2>4. Ordered(c) /\ Matched(c) /\ Behind(c)
    BY <2>1, <2>2, <2>3 DEF Ordered, Matched, Behind
  <2>5. Counted(c)
    <3>1. Dangling(c) = {}
      BY <2>3 DEF Dangling
    <3>2. Cardinality({}) = 0
      BY FS_EmptySet
    <3>. QED  BY <2>1, <2>2, <3>1, <3>2 DEF Counted
  <2>6. Complete(c)
    BY <2>1, <2>2 DEF Complete
  <2>. QED  BY <2>4, <2>5, <2>6
<1>. QED  BY <1>2, <1>3 DEF FrameInv, Intact

(* However the pieces of the senders interleave, no frame is given out     *)
(* twice or too early, no more are spoilt than were cut off, and what was  *)
(* not cut is handed on whole and in order: the leftover that              *)
(* MuxTransport.run keeps for each sender.                                 *)
THEOREM FramesWhole == Spec => []WholeFrames
<1>1. FrameInv => WholeFrames
  <2>. SUFFICES ASSUME FrameInv, NEW c \in Children \ twice
                PROVE  /\ \A j, k \in DOMAIN got[c] : j < k => got[c][j][1][2] < got[c][k][1][2]
                       /\ Cardinality(Spoilt(c)) <= cuts[c]
                       /\ cuts[c] = 0 =>
                             /\ \A k \in DOMAIN got[c] : got[c][k] = Frame(c, k)
                             /\ leftovers[c] \in {<<>>, <<Frame(c, Len(got[c]) + 1)[1]>>}
                             /\ {Number(inQueue[k]) : k \in Waiting(c)} = Handled(c) + 1 .. Sent(c)
                             /\ \A j, k \in Waiting(c) : j < k => Number(inQueue[j]) < Number(inQueue[k])
    BY DEF WholeFrames
  <2>1. DataTyped /\ Ordered(c) /\ Behind(c) /\ Counted(c) /\ Complete(c)
    BY DEF FrameInv, Intact
  <2>2. Cardinality(Spoilt(c)) <= cuts[c]
    <3>1. /\ Cardinality(Dangling(c)) \in Nat /\ Cardinality(Spoilt(c)) \in Nat /\ cuts[c] \in Nat
      BY <2>1, Countable, DataFacts
    <3>. QED  BY <2>1, <3>1 DEF Counted
  <2>3. Frame(c, Len(got[c]) + 1)[1] = <<c, Len(got[c]) + 1, "head">>
    BY DEF Frame
  <2>. QED  BY <2>1, <2>2, <2>3 DEF Ordered, Behind, Complete
<1>2. Init => Inv /\ FrameInv
  BY InvInit, FrameInit
<1>3. Inv /\ FrameInv /\ [Next]_vars => Inv' /\ FrameInv'
  BY InvStep, FrameStep
<1>. QED  BY <1>1, <1>2, <1>3, PTL DEF Spec
=============================================================================
