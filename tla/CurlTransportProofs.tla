--------------------------- MODULE CurlTransportProofs ---------------------------
(***************************************************************************)
(* The pool of handles is sound, the destination policy holds on every     *)
(* connection, a refusal is reported exactly, and what is handed up is one *)
(* response, for any number of threads, handles and addresses, any policy, *)
(* and pools, header blocks and bodies of any size.                        *)
(*                                                                         *)
(* The first two need what the locals of Perform do not say by themselves: *)
(* a Perform has a handle exactly while it builds, connects or transfers,  *)
(* that is an existing one, and a handle that does not exist keeps no      *)
(* connection. The last two need how far each exchange has got: nothing is *)
(* received before something was sent, and nothing is sent where every     *)
(* address was refused.                                                    *)
(***************************************************************************)
EXTENDS CurlTransport, TLAPS

Working == {"build", "connect", "transfer"}

\* An exchange is a record of these fields.
Field == {"pc", "host", "handle", "code", "refused", "admitted", "sent", "headers", "statusLine",
          "headerBytes", "headersComplete", "headersTooLarge", "written", "overflowed", "deadline",
          "response"}
IsExchange(p) == p = [f \in Field |-> p[f]]

ExchangeOK(p) ==
  /\ IsExchange(p)
  /\ p.pc \in Working \cup {"idle", "acquire"}
  /\ p.pc \in Working => p.handle \in live
  /\ p.pc \notin Working => p.handle = 0
  /\ p.pc # "idle" => p.host = Name \/ p.host \in Permitted

Connections == [host : Addresses \cup {Name}, at : Addresses]

StateOK ==
  /\ live \subseteq 1 .. Handles
  /\ idle \in Seq(1 .. Handles)
  /\ connection \in [1 .. Handles -> SUBSET Connections]
  /\ \A h \in (1 .. Handles) \ live : connection[h] = {}

PerformsOK ==
  /\ DOMAIN perform = Thread /\ perform = [t \in Thread |-> perform[t]]
  /\ \A t \in Thread : ExchangeOK(perform[t])

IInv == StateOK /\ PerformsOK /\ PoolIsSound /\ PolicyHolds

------------------------------------------------------------------------------
\* No exchange.
LEMMA NoExchangeFields ==
  IsExchange(NoExchange) /\ NoExchange.pc = "idle" /\ NoExchange.handle = 0
<1>1. DOMAIN NoExchange = Field
  BY Zenon DEF NoExchange, Field
<1> QED BY <1>1, Zenon DEF NoExchange, IsExchange

\* A field that is set leaves the others as they were.
LEMMA Sets ==
  ASSUME NEW p, IsExchange(p), NEW f \in Field, NEW v
  PROVE  /\ IsExchange([p EXCEPT ![f] = v])
         /\ [p EXCEPT ![f] = v][f] = v
         /\ \A g \in Field \ {f} : [p EXCEPT ![f] = v][g] = p[g]
<1>1. DOMAIN p = Field
  BY Zenon DEF IsExchange
<1> QED BY <1>1, Zenon DEF IsExchange

\* The three that matter to the pool and the policy, and the result.
LEMMA SetsOne ==
  ASSUME NEW p, IsExchange(p), NEW q, NEW v
  PROVE  /\ q = [p EXCEPT !.pc = v]
              => IsExchange(q) /\ q.pc = v /\ q.host = p.host /\ q.handle = p.handle
         /\ q = [p EXCEPT !.host = v]
              => IsExchange(q) /\ q.pc = p.pc /\ q.host = v /\ q.handle = p.handle
         /\ q = [p EXCEPT !.handle = v]
              => IsExchange(q) /\ q.pc = p.pc /\ q.host = p.host /\ q.handle = v
         /\ q = [p EXCEPT !.response = v]
              => IsExchange(q) /\ q.pc = p.pc /\ q.host = p.host /\ q.handle = p.handle
<1>1. "pc" \in Field /\ "host" \in Field /\ "handle" \in Field /\ "response" \in Field
  BY Zenon DEF Field
<1>2. CASE q = [p EXCEPT !.pc = v]
  BY <1>1, <1>2, Sets
<1>3. CASE q = [p EXCEPT !.host = v]
  BY <1>1, <1>3, Sets
<1>4. CASE q = [p EXCEPT !.handle = v]
  BY <1>1, <1>4, Sets
<1>5. CASE q = [p EXCEPT !.response = v]
  BY <1>1, <1>5, Sets
<1> QED BY <1>2, <1>3, <1>4, <1>5, Zenon

\* Its place, host and handle are what the pool and the policy depend on.
Like(q, p) == IsExchange(q) /\ q.pc = p.pc /\ q.host = p.host /\ q.handle = p.handle

\* The other fields do not matter to them.
LEMMA Alike ==
  ASSUME NEW p, NEW q, Like(q, p), NEW f \in Field \ {"pc", "host", "handle"}, NEW v
  PROVE  Like([q EXCEPT ![f] = v], p)
BY Sets DEF Like, Field

------------------------------------------------------------------------------
\* The pool s, the handles l that exist and the handle H[t] that each thread has.
Sound(s, l, H) ==
  /\ \A t, u \in Thread : t # u /\ H[t] # 0 => H[t] # H[u]
  /\ \A i, j \in 1 .. Len(s) : s[i] = s[j] => i = j
  /\ \A i \in 1 .. Len(s), u \in Thread : H[u] # s[i]
  /\ \A i \in 1 .. Len(s) : s[i] \in l
  /\ \A u \in Thread : H[u] # 0 => H[u] \in l
  /\ \A h \in l : (\E i \in 1 .. Len(s) : s[i] = h) \/ (\E u \in Thread : H[u] = h)
  /\ Len(s) <= MaxIdle

HandleOf == [t \in Thread |-> perform[t].handle]

\* That is what the invariant says of the pool.
LEMMA PoolAsSound == StateOK => (PoolIsSound <=> Sound(idle, live, HandleOf))
<1> SUFFICES ASSUME StateOK
             PROVE  PoolIsSound <=> Sound(idle, live, HandleOf)
  BY Zenon
<1>1. DOMAIN idle = 1 .. Len(idle) /\ \A i \in 1 .. Len(idle) : idle[i] # 0
  BY TransportAssumption DEF StateOK
<1>2. \A h : h \in Range(idle) <=> \E i \in 1 .. Len(idle) : idle[i] = h
  BY <1>1, Zenon DEF Range
<1>3. \A h : h \in InUse <=> h # 0 /\ \E u \in Thread : HandleOf[u] = h
  BY Zenon DEF InUse, HandleOf
<1>4. \A h \in live : h # 0
  BY TransportAssumption DEF StateOK
<1>5. IsInjective(idle) <=> \A i, j \in 1 .. Len(idle) : idle[i] = idle[j] => i = j
  BY <1>1, Zenon DEF IsInjective
<1>6. Range(idle) \cap InUse = {} <=> \A i \in 1 .. Len(idle), u \in Thread : HandleOf[u] # idle[i]
  BY <1>1, <1>2, <1>3, Zenon
<1>7. Range(idle) \cup InUse = live
        <=> /\ \A i \in 1 .. Len(idle) : idle[i] \in live
            /\ \A u \in Thread : HandleOf[u] # 0 => HandleOf[u] \in live
            /\ \A h \in live : (\E i \in 1 .. Len(idle) : idle[i] = h)
                                 \/ (\E u \in Thread : HandleOf[u] = h)
  BY <1>1, <1>2, <1>3, <1>4
<1>8. (\A t, u \in Thread : t # u /\ perform[t].handle # 0 => perform[t].handle # perform[u].handle)
        <=> \A t, u \in Thread : t # u /\ HandleOf[t] # 0 => HandleOf[t] # HandleOf[u]
  BY Zenon DEF HandleOf
<1> QED BY <1>5, <1>6, <1>7, <1>8, Zenon DEF PoolIsSound, Sound

\* A sequence without its last element.
LEMMA PopBack ==
  ASSUME NEW S, NEW s \in Seq(S), s # <<>>, NEW f, f = SubSeq(s, 1, Len(s) - 1),
         NEW n, n = Len(s) - 1
  PROVE  /\ n \in Nat /\ Len(s) = n + 1 /\ f \in Seq(S) /\ Len(f) = n
         /\ \A i \in 1 .. n : f[i] = s[i]
<1>1. n \in Nat /\ Len(s) = n + 1 /\ \A i \in 1 .. n : s[i] \in S
  OBVIOUS
<1>2. f = [i \in 1 .. n |-> s[i]]
  <2>1. f = SubSeq(s, 1, n)
    BY Zenon
  <2> QED BY <1>1, <2>1
<1> QED BY <1>1, <1>2

\* A handle is taken from the pool.
TakesLast(t, x, n, s, f, l, H, K) ==
  /\ n \in Nat /\ Len(s) = n + 1 /\ x = s[n + 1]
  /\ Len(f) = n /\ \A i \in 1 .. n : f[i] = s[i]
  /\ l \in SUBSET (1 .. Handles) /\ Sound(s, l, H)
  /\ H[t] = 0 /\ K[t] = x /\ \A u \in Thread \ {t} : K[u] = H[u]
LEMMA TakeKeeps ==
  ASSUME NEW t \in Thread, NEW x, NEW n, NEW s, NEW f, NEW l, NEW H, NEW K,
         TakesLast(t, x, n, s, f, l, H, K)
  PROVE  Sound(f, l, K) /\ x \in l
<1>1. /\ n \in Nat /\ Len(s) = n + 1 /\ x = s[n + 1]
      /\ Len(f) = n /\ \A i \in 1 .. n : f[i] = s[i]
      /\ l \in SUBSET (1 .. Handles) /\ Sound(s, l, H)
      /\ H[t] = 0 /\ K[t] = x /\ \A u \in Thread \ {t} : K[u] = H[u]
  BY Zenon DEF TakesLast
<1> USE <1>1
<1>3. n + 1 \in 1 .. Len(s) /\ \A i \in 1 .. n : i \in 1 .. Len(s) /\ i # n + 1
  OBVIOUS
<1>4. MaxIdle \in Nat
  BY TransportAssumption, Zenon
<1>5. \A h \in l : (\E i \in 1 .. n : s[i] = h) \/ (\E u \in Thread : K[u] = h)
  <2> SUFFICES ASSUME NEW h \in l
               PROVE  (\E i \in 1 .. n : s[i] = h) \/ (\E u \in Thread : K[u] = h)
    BY Zenon
  <2>1. CASE \E i \in 1 .. Len(s) : s[i] = h
    BY <1>3, <2>1
  <2>2. CASE \E u \in Thread : H[u] = h
    <3>1. PICK u \in Thread : H[u] = h
      BY <2>2, Zenon
    <3>2. CASE u = t
      BY <3>1, <3>2, TransportAssumption
    <3> QED BY <3>1, <3>2, Zenon
  <2> QED BY <2>1, <2>2, Zenon DEF Sound
<1>7. \A i \in 1 .. n : i \in 1 .. Len(s) /\ f[i] = s[i] /\ f[i] # x
  BY <1>3 DEF Sound
<1>8. x \in l /\ \A u \in Thread : H[u] # x
  BY <1>3 DEF Sound
<1>9. \A i, j \in 1 .. n : f[i] = f[j] => i = j
  BY <1>7 DEF Sound
<1>10. \A i \in 1 .. n, u \in Thread : K[u] # f[i]
  <2>1. \A i \in 1 .. n, u \in Thread \ {t} : H[u] # s[i]
    BY <1>7, Zenon DEF Sound
  <2> QED BY <1>7, <2>1
<1>11. \A v, u \in Thread : v # u /\ K[v] # 0 => K[v] # K[u]
  BY <1>8 DEF Sound
<1>12. \A u \in Thread : K[u] # 0 => K[u] \in l
  BY <1>8, Zenon DEF Sound
<1>13. \A i \in 1 .. n : f[i] \in l
  BY <1>7, Zenon DEF Sound
<1>14. n <= MaxIdle
  BY <1>3, <1>4 DEF Sound
<1>15. \A h \in l : (\E i \in 1 .. n : f[i] = h) \/ (\E u \in Thread : K[u] = h)
  <2> SUFFICES ASSUME NEW h \in l, ~\E u \in Thread : K[u] = h
               PROVE  \E i \in 1 .. n : f[i] = h
    BY Zenon
  <2>1. PICK i \in 1 .. n : s[i] = h
    BY <1>5, Zenon
  <2> QED BY <1>7, <2>1, Zenon
<1> QED BY <1>8, <1>9, <1>10, <1>11, <1>12, <1>13, <1>14, <1>15, Zenon DEF Sound

\* A new handle is made.
LEMMA CreateKeeps ==
  ASSUME NEW s \in Seq(1 .. Handles), s = <<>>, NEW l \in SUBSET (1 .. Handles),
         NEW H, NEW K, Sound(s, l, H), NEW h \in (1 .. Handles) \ l,
         NEW t \in Thread, H[t] = 0, K[t] = h, \A u \in Thread \ {t} : K[u] = H[u]
  PROVE  Sound(s, l \cup {h}, K)
<1>1. Len(s) = 0 /\ h # 0
  BY TransportAssumption
<1>2. \A u \in Thread : H[u] # h
  BY <1>1, Zenon DEF Sound
<1>3. \A v, u \in Thread : v # u /\ K[v] # 0 => K[v] # K[u]
  BY <1>1, <1>2 DEF Sound
<1>4. \A g \in l \cup {h} : \E u \in Thread : K[u] = g
  <2>1. ASSUME NEW g \in l
        PROVE  \E u \in Thread : K[u] = g
    <3>1. PICK u \in Thread : H[u] = g
      BY <1>1 DEF Sound
    <3> QED BY <3>1, TransportAssumption
  <2> QED BY <2>1, Zenon
<1> QED BY <1>1, <1>2, <1>3, <1>4 DEF Sound

\* A handle goes back to the pool.
LEMMA GiveKeeps ==
  ASSUME NEW s \in Seq(1 .. Handles), Len(s) < MaxIdle, NEW l \in SUBSET (1 .. Handles),
         NEW H, NEW K, Sound(s, l, H),
         NEW t \in Thread, H[t] \in 1 .. Handles, K[t] = 0, \A u \in Thread \ {t} : K[u] = H[u]
  PROVE  Sound(Append(s, H[t]), l, K) /\ Append(s, H[t]) \in Seq(1 .. Handles)
<1>1. PICK x : x = H[t] /\ x # 0 /\ x \in 1 .. Handles
  BY TransportAssumption
<1>2. PICK n \in Nat : n = Len(s)
  OBVIOUS
<1>3. PICK a : /\ a = Append(s, x) /\ a \in Seq(1 .. Handles) /\ Len(a) = n + 1
               /\ a[n + 1] = x /\ \A i \in 1 .. n : a[i] = s[i]
  <2>1. /\ Append(s, x) \in Seq(1 .. Handles) /\ Len(Append(s, x)) = Len(s) + 1
        /\ Append(s, x)[Len(s) + 1] = x /\ \A i \in 1 .. Len(s) : Append(s, x)[i] = s[i]
    BY <1>1
  <2> QED BY <1>2, <2>1, Zenon
<1>4. /\ x \in l /\ \A i \in 1 .. n : s[i] # x
      /\ \A u \in Thread \ {t} : H[u] # x
  BY <1>1, <1>2, Zenon DEF Sound
<1>5. \A i \in 1 .. n + 1 : i \in 1 .. n \/ i = n + 1
  OBVIOUS
<1>6. \A v, u \in Thread : v # u /\ K[v] # 0 => K[v] # K[u]
  BY DEF Sound
<1>7. \A i, j \in 1 .. n + 1 : a[i] = a[j] => i = j
  BY <1>2, <1>3, <1>4, <1>5 DEF Sound
<1>8. \A i \in 1 .. n + 1, u \in Thread : K[u] # a[i]
  <2>1. \A i \in 1 .. n, u \in Thread : K[u] # a[i]
    BY <1>2, <1>3, TransportAssumption DEF Sound
  <2>2. \A u \in Thread : K[u] # a[n + 1]
    BY <1>1, <1>3, <1>4
  <2> QED BY <1>5, <2>1, <2>2, Zenon
<1>9. \A i \in 1 .. n + 1 : a[i] \in l
  BY <1>2, <1>3, <1>4, <1>5 DEF Sound
<1>10. \A u \in Thread : K[u] # 0 => K[u] \in l
  BY Zenon DEF Sound
<1>11. \A h \in l : (\E i \in 1 .. n + 1 : a[i] = h) \/ (\E u \in Thread : K[u] = h)
  <2> SUFFICES ASSUME NEW h \in l
               PROVE  (\E i \in 1 .. n + 1 : a[i] = h) \/ (\E u \in Thread : K[u] = h)
    BY Zenon
  <2>1. CASE \E i \in 1 .. n : s[i] = h
    BY <1>3, <2>1
  <2>2. CASE \E u \in Thread : H[u] = h
    BY <1>1, <1>3, <2>2
  <2> QED BY <1>2, <2>1, <2>2, Zenon DEF Sound
<1>12. n + 1 <= MaxIdle
  BY <1>2, TransportAssumption
<1>13. Sound(a, l, K)
  <2>1. PICK m : m = Len(a) /\ m = n + 1
    BY <1>3, Zenon
  <2>2. /\ \A i, j \in 1 .. m : a[i] = a[j] => i = j
        /\ \A i \in 1 .. m, u \in Thread : K[u] # a[i]
    BY <1>7, <1>8, <2>1, Zenon
  <2>3. /\ \A i \in 1 .. m : a[i] \in l
        /\ \A h \in l : (\E i \in 1 .. m : a[i] = h) \/ (\E u \in Thread : K[u] = h)
        /\ m <= MaxIdle
    BY <1>9, <1>11, <1>12, <2>1, Zenon
  <2>4. /\ \A i, j \in 1 .. Len(a) : a[i] = a[j] => i = j
        /\ \A i \in 1 .. Len(a), u \in Thread : K[u] # a[i]
    BY <2>1, <2>2, Zenon
  <2>5. /\ \A i \in 1 .. Len(a) : a[i] \in l
        /\ \A h \in l : (\E i \in 1 .. Len(a) : a[i] = h) \/ (\E u \in Thread : K[u] = h)
        /\ Len(a) <= MaxIdle
    BY <2>1, <2>3, Zenon
  <2> QED BY <1>6, <1>10, <2>4, <2>5, Zenon DEF Sound
<1> QED BY <1>1, <1>3, <1>13, Zenon

\* A handle goes away.
LEMMA DropKeeps ==
  ASSUME NEW s \in Seq(1 .. Handles), NEW l \in SUBSET (1 .. Handles),
         NEW H, NEW K, Sound(s, l, H),
         NEW t \in Thread, H[t] \in 1 .. Handles, K[t] = 0, \A u \in Thread \ {t} : K[u] = H[u]
  PROVE  Sound(s, l \ {H[t]}, K)
<1>1. PICK x : x = H[t] /\ x # 0 /\ x \in 1 .. Handles
  BY TransportAssumption
<1>2. /\ \A i \in 1 .. Len(s) : s[i] # x /\ s[i] # 0
      /\ \A u \in Thread \ {t} : H[u] # x
  BY <1>1, TransportAssumption DEF Sound
<1>3. \A i \in 1 .. Len(s), u \in Thread : K[u] # s[i]
  BY <1>2, Zenon DEF Sound
<1>4. \A v, u \in Thread : v # u /\ K[v] # 0 => K[v] # K[u]
  BY DEF Sound
<1>5. \A h \in l \ {x} : (\E i \in 1 .. Len(s) : s[i] = h) \/ (\E u \in Thread : K[u] = h)
  <2> SUFFICES ASSUME NEW h \in l \ {x}
               PROVE  (\E i \in 1 .. Len(s) : s[i] = h) \/ (\E u \in Thread : K[u] = h)
    BY Zenon
  <2>1. CASE \E u \in Thread : H[u] = h
    BY <1>1, <2>1, Zenon
  <2> QED BY <2>1, Zenon DEF Sound
<1>6. /\ \A i \in 1 .. Len(s) : s[i] \in l \ {x}
      /\ \A u \in Thread : K[u] # 0 => K[u] \in l \ {x}
  BY <1>1, <1>2 DEF Sound
<1> QED BY <1>1, <1>3, <1>4, <1>5, <1>6, Zenon DEF Sound

------------------------------------------------------------------------------
\* One Perform goes on and the others stay as they are.
LEMMA Frame ==
  ASSUME PerformsOK, NEW t \in Thread, NEW q, Goes(t, q)
  PROVE  /\ DOMAIN perform' = Thread /\ perform' = [u \in Thread |-> perform'[u]]
         /\ perform'[t] = q /\ \A u \in Thread \ {t} : perform'[u] = perform[u]
         /\ HandleOf'[t] = q.handle /\ \A u \in Thread \ {t} : HandleOf'[u] = HandleOf[u]
BY Zenon DEF PerformsOK, Goes, HandleOf

\* The state after a step is in order if the parts of it are.
LEMMA Together ==
  ASSUME StateOK', PerformsOK', PolicyHolds', Sound(idle', live', HandleOf')
  PROVE  IInv'
<1>1. (StateOK => (PoolIsSound <=> Sound(idle, live, HandleOf)))'
  BY PoolAsSound, PTL
<1> QED BY <1>1, Zenon DEF IInv

\* What a connection of a Perform may be.
Good(c) == c.at \in Permitted /\ (c.host = Name \/ c.host \in Permitted)

\* A step with the same handle, which may make a connection.
LEMMA KeepsHandle ==
  ASSUME IInv, NEW t \in Thread, NEW q, Goes(t, q), ExchangeOK(q), q.handle = perform[t].handle,
         UNCHANGED <<idle, live>>,
         \/ UNCHANGED connection
         \/ \E c \in Connections :
              Good(c) /\ q.handle \in live /\ connection' = [connection EXCEPT ![q.handle] = {c}]
  PROVE  IInv'
<1>1. StateOK /\ PerformsOK /\ PolicyHolds /\ Sound(idle, live, HandleOf)
  BY PoolAsSound, Zenon DEF IInv
<1>2. StateOK' /\ PolicyHolds'
  <2>1. CASE UNCHANGED connection
    BY <1>1, <2>1, Zenon DEF StateOK, PolicyHolds
  <2>2. CASE \E c \in Connections :
               Good(c) /\ q.handle \in live /\ connection' = [connection EXCEPT ![q.handle] = {c}]
    <3>1. PICK c \in Connections :
            /\ Good(c) /\ q.handle \in live /\ connection' = [connection EXCEPT ![q.handle] = {c}]
      BY <2>2, Zenon
    <3>2. PICK h \in live : h = q.handle /\ h \in 1 .. Handles
      BY <1>1, <3>1, Zenon DEF StateOK
    <3>3. /\ connection' \in [1 .. Handles -> SUBSET Connections]
          /\ \A g \in 1 .. Handles : connection'[g] = IF g = h THEN {c} ELSE connection[g]
      BY <1>1, <3>1, <3>2, Zenon DEF StateOK
    <3>4. StateOK'
      BY <1>1, <3>2, <3>3, Zenon DEF StateOK
    <3>5. PolicyHolds'
      BY <1>1, <3>1, <3>3, Zenon DEF StateOK, PolicyHolds, Good
    <3> QED BY <3>4, <3>5, Zenon
  <2> QED BY <2>1, <2>2, Zenon
<1>3. PerformsOK'
  BY <1>1, Frame DEF PerformsOK, ExchangeOK
<1>4. HandleOf' = HandleOf
  BY <1>1, Frame DEF HandleOf
<1> QED BY <1>1, <1>2, <1>3, <1>4, Together, Zenon

\* A Perform that releases its handle returns.
LEMMA ReleaseStep ==
  ASSUME IInv, NEW t \in Thread, NEW r, Returns(t, r), perform[t].pc \in Working,
         NEW kept \in {{}, connection[perform[t].handle]}, Release(perform[t].handle, kept)
  PROVE  IInv'
<1>1. StateOK /\ PerformsOK /\ PolicyHolds /\ Sound(idle, live, HandleOf)
  BY PoolAsSound, Zenon DEF IInv
<1>2. PICK h \in live : h = perform[t].handle /\ h \in 1 .. Handles /\ HandleOf[t] = h
  BY <1>1, Zenon DEF PerformsOK, ExchangeOK, HandleOf, StateOK
<1>3. PICK q : q = [NoExchange EXCEPT !.response = r]
  BY Zenon
<1>4. Goes(t, q) /\ IsExchange(q) /\ q.pc = "idle" /\ q.handle = 0
  BY <1>3, NoExchangeFields, SetsOne, Zenon DEF Returns
<1>5. /\ perform'[t] = q /\ \A u \in Thread \ {t} : perform'[u] = perform[u]
      /\ HandleOf'[t] = 0 /\ \A u \in Thread \ {t} : HandleOf'[u] = HandleOf[u]
      /\ DOMAIN perform' = Thread /\ perform' = [u \in Thread |-> perform'[u]]
  BY <1>1, <1>4, Frame, Zenon
<1>6. \A u \in Thread \ {t} : perform[u].pc \in Working => perform[u].handle \in live \ {h}
  <2> SUFFICES ASSUME NEW u \in Thread \ {t}, perform[u].pc \in Working
               PROVE  perform[u].handle \in live \ {h}
    BY Zenon
  <2>1. perform[u].handle \in live /\ HandleOf[u] = perform[u].handle /\ h # 0
    BY <1>1, <1>2, TransportAssumption DEF PerformsOK, ExchangeOK, HandleOf
  <2> QED BY <1>1, <1>2, <2>1 DEF Sound
<1> DEFINE Given(s, l, H, K) ==
             /\ s \in Seq(1 .. Handles) /\ l \in SUBSET (1 .. Handles) /\ Sound(s, l, H)
             /\ H[t] = h /\ K[t] = 0 /\ \A u \in Thread \ {t} : K[u] = H[u]
<1>7. PICK s, l, H, K : Given(s, l, H, K) /\ s = idle /\ l = live /\ H = HandleOf /\ K = HandleOf'
  BY <1>1, <1>2, <1>5, Zenon DEF StateOK
<1>8. CASE HasRoom
  <2>1. /\ idle' = Append(idle, h) /\ connection' = [connection EXCEPT ![h] = kept]
        /\ live' = live
    BY <1>2, <1>8, Zenon DEF Release
  <2>2. Sound(idle', live', HandleOf') /\ idle' \in Seq(1 .. Handles)
    <3>1. Len(s) < MaxIdle
      BY <1>8, <1>7, Zenon DEF HasRoom
    <3>2. Sound(Append(s, H[t]), l, K) /\ Append(s, H[t]) \in Seq(1 .. Handles)
      BY <1>2, <1>7, <3>1, GiveKeeps, Zenon
    <3> QED BY <1>2, <1>7, <2>1, <3>2, Zenon
  <2>3. StateOK' /\ PolicyHolds'
    BY <1>1, <1>2, <2>1, <2>2, Zenon DEF StateOK, PolicyHolds
  <2>4. PerformsOK'
    BY <1>1, <1>4, <1>5, <2>1, Zenon DEF PerformsOK, ExchangeOK, Working
  <2> QED BY <2>2, <2>3, <2>4, Together, Zenon
<1>9. CASE ~HasRoom
  <2>1. /\ idle' = idle /\ connection' = [connection EXCEPT ![h] = {}]
        /\ live' = live \ {h}
    BY <1>2, <1>9, Zenon DEF Release
  <2>2. Sound(idle', live', HandleOf')
    <3>1. Sound(s, l \ {H[t]}, K)
      BY <1>2, <1>7, DropKeeps, Zenon
    <3> QED BY <1>2, <1>7, <2>1, <3>1, Zenon
  <2>3. StateOK' /\ PolicyHolds'
    BY <1>1, <1>2, <2>1, <2>2, Zenon DEF StateOK, PolicyHolds
  <2>4. PerformsOK'
    BY <1>1, <1>4, <1>5, <1>6, <2>1, Zenon DEF PerformsOK, ExchangeOK, Working
  <2> QED BY <2>2, <2>3, <2>4, Together, Zenon
<1> QED BY <1>8, <1>9, Zenon

\* A Perform that has returned, and one that begins.
LEMMA ReturnedExchange ==
  ASSUME NEW r, NEW q, q = [NoExchange EXCEPT !.response = r]
  PROVE  ExchangeOK(q) /\ q.handle = 0
<1>1. PICK n : n = NoExchange /\ IsExchange(n) /\ n.pc = "idle" /\ n.handle = 0
  BY NoExchangeFields, Zenon
<1>2. q = [n EXCEPT !.response = r]
  BY <1>1, Zenon
<1>3. IsExchange(q) /\ q.pc = n.pc /\ q.handle = n.handle
  BY <1>1, <1>2, SetsOne
<1> QED BY <1>1, <1>3, Zenon DEF ExchangeOK, Working

\* Only for a host that may be sent to.
LEMMA BegunExchange ==
  ASSUME NEW host, PermittedByClient(host)
  PROVE  \A q : q = [NoExchange EXCEPT !.pc = "acquire", !.host = host]
                  => ExchangeOK(q) /\ q.handle = 0
<1>1. PICK n : n = NoExchange /\ IsExchange(n) /\ n.pc = "idle" /\ n.handle = 0
  BY NoExchangeFields, Zenon
<1>2. PICK p : p = [n EXCEPT !.pc = "acquire"]
  BY Zenon
<1>3. IsExchange(p) /\ p.pc = "acquire" /\ p.handle = n.handle
  BY <1>1, <1>2, SetsOne
<1>4. \A q : q = [p EXCEPT !.host = host]
               => IsExchange(q) /\ q.pc = p.pc /\ q.handle = p.handle /\ q.host = host
  BY <1>3, SetsOne
<1>5. \A q : q = [p EXCEPT !.host = host] => ExchangeOK(q) /\ q.handle = 0
  BY <1>1, <1>3, <1>4, Zenon DEF ExchangeOK, PermittedByClient, Working
<1> QED BY <1>1, <1>2, <1>5, Zenon

\* A Perform gets a handle.
LEMMA GetsHandle ==
  ASSUME IInv, NEW t \in Thread, Acquired(t) \/ Created(t), At(t, "acquire")
  PROVE  IInv'
<1>1. StateOK /\ PerformsOK /\ PolicyHolds /\ Sound(idle, live, HandleOf)
  BY PoolAsSound, Zenon DEF IInv
<1>2. PICK p : p = perform[t] /\ IsExchange(p) /\ p.handle = 0 /\ (p.host = Name \/ p.host \in Permitted)
  BY <1>1, Zenon DEF PerformsOK, ExchangeOK, At, Working
<1>3. HandleOf[t] = 0
  BY <1>2, Zenon DEF HandleOf
<1>4. ASSUME NEW h, NEW q, q = [p EXCEPT !.pc = "build", !.handle = h]
      PROVE  IsExchange(q) /\ q.pc = "build" /\ q.handle = h /\ q.host = p.host
  <2>1. PICK b : b = [p EXCEPT !.pc = "build"]
    BY Zenon
  <2>2. IsExchange(b) /\ b.pc = "build" /\ b.host = p.host
    BY <1>2, <2>1, SetsOne
  <2>3. q = [b EXCEPT !.handle = h]
    BY <1>4, <2>1, Zenon
  <2> QED BY <2>2, <2>3, SetsOne
<1>5. CASE Acquired(t)
  <2>1. PICK h, q : h = idle[Len(idle)] /\ q = [p EXCEPT !.pc = "build", !.handle = h]
    BY Zenon
  <2>2. /\ idle # <<>> /\ idle' = SubSeq(idle, 1, Len(idle) - 1)
        /\ Goes(t, q) /\ UNCHANGED <<live, connection>>
    BY <1>2, <1>5, <2>1, Zenon DEF Acquired
  <2>3. /\ perform'[t] = q /\ \A u \in Thread \ {t} : perform'[u] = perform[u]
        /\ HandleOf'[t] = q.handle /\ \A u \in Thread \ {t} : HandleOf'[u] = HandleOf[u]
        /\ DOMAIN perform' = Thread /\ perform' = [u \in Thread |-> perform'[u]]
    BY <1>1, <2>2, Frame, Zenon
  <2>4. Sound(idle', live', HandleOf') /\ idle' \in Seq(1 .. Handles) /\ h \in live
    <3>1. PICK s, l, H, K, f : /\ s = idle /\ l = live /\ H = HandleOf /\ K = HandleOf' /\ f = idle'
      BY Zenon
    <3>2. /\ s \in Seq(1 .. Handles) /\ l \in SUBSET (1 .. Handles) /\ Sound(s, l, H)
          /\ s # <<>> /\ f = SubSeq(s, 1, Len(s) - 1)
      BY <1>1, <1>3, <2>2, <3>1, Zenon DEF StateOK
    <3>3. h = s[Len(s)] /\ H[t] = 0 /\ K[t] = h /\ \A u \in Thread \ {t} : K[u] = H[u]
      <4>1. q.handle = h
        BY <1>4, <2>1, Zenon
      <4> QED BY <1>3, <2>1, <2>3, <3>1, <4>1, Zenon
    <3>4. PICK n : n = Len(s) - 1
      BY Zenon
    <3>5. /\ n \in Nat /\ Len(s) = n + 1 /\ f \in Seq(1 .. Handles) /\ Len(f) = n
          /\ \A i \in 1 .. n : f[i] = s[i]
      <4>1. PICK S : S = 1 .. Handles
        BY Zenon
      <4>2. s \in Seq(S)
        BY <3>2, <4>1, Zenon
      <4> HIDE <4>1
      <4>3. /\ n \in Nat /\ Len(s) = n + 1 /\ f \in Seq(S) /\ Len(f) = n
            /\ \A i \in 1 .. n : f[i] = s[i]
        BY <3>2, <3>4, <4>2, PopBack
      <4> QED BY <4>1, <4>3, Zenon
    <3>6. Sound(f, l, K) /\ h \in l
      <4>1. h = s[n + 1]
        BY <3>3, <3>5, Zenon
      <4>2. TakesLast(t, h, n, s, f, l, H, K)
        BY <3>2, <3>3, <3>5, <4>1, Zenon DEF TakesLast
      <4> QED BY <4>2, TakeKeeps, Zenon
    <3> QED BY <2>2, <3>1, <3>5, <3>6, Zenon
  <2>5. StateOK' /\ PolicyHolds'
    BY <1>1, <2>2, <2>4, Zenon DEF StateOK, PolicyHolds
  <2>6. PerformsOK'
    <3>1. IsExchange(q) /\ q.pc = "build" /\ q.handle = h /\ q.host = p.host
      BY <1>4, <2>1, Zenon
    <3> QED BY <1>1, <1>2, <2>2, <2>3, <2>4, <3>1 DEF PerformsOK, ExchangeOK, Working
  <2> QED BY <2>4, <2>5, <2>6, Together, Zenon
<1>6. CASE Created(t)
  <2>1. PICK h, q : /\ h \in (1 .. Handles) \ live /\ q = [p EXCEPT !.pc = "build", !.handle = h]
                    /\ idle = <<>> /\ live' = live \cup {h} /\ Goes(t, q)
                    /\ UNCHANGED <<idle, connection>>
    BY <1>2, <1>6, Zenon DEF Created
  <2>2. /\ perform'[t] = q /\ \A u \in Thread \ {t} : perform'[u] = perform[u]
        /\ HandleOf'[t] = q.handle /\ \A u \in Thread \ {t} : HandleOf'[u] = HandleOf[u]
        /\ DOMAIN perform' = Thread /\ perform' = [u \in Thread |-> perform'[u]]
    BY <1>1, <2>1, Frame, Zenon
  <2>3. Sound(idle', live', HandleOf')
    <3>1. PICK s, l, H, K : /\ s = idle /\ l = live /\ H = HandleOf /\ K = HandleOf'
      BY Zenon
    <3>2. /\ s \in Seq(1 .. Handles) /\ s = <<>> /\ l \in SUBSET (1 .. Handles) /\ Sound(s, l, H)
          /\ h \in (1 .. Handles) \ l
          /\ H[t] = 0 /\ K[t] = h /\ \A u \in Thread \ {t} : K[u] = H[u]
      BY <1>1, <1>3, <1>4, <2>1, <2>2, <3>1, Zenon DEF StateOK
    <3>3. Sound(s, l \cup {h}, K)
      BY <3>2, CreateKeeps, Zenon
    <3> QED BY <2>1, <3>1, <3>3, Zenon
  <2>4. StateOK' /\ PolicyHolds'
    BY <1>1, <2>1, Zenon DEF StateOK, PolicyHolds
  <2>5. PerformsOK'
    <3>1. IsExchange(q) /\ q.pc = "build" /\ q.handle = h /\ q.host = p.host
      BY <1>4, <2>1, Zenon
    <3>2. ExchangeOK(q)'
      BY <1>2, <2>1, <3>1 DEF ExchangeOK, Working
    <3>3. \A u \in Thread \ {t} :
            ExchangeOK(perform[u]) /\ (perform[u].pc \in Working => perform[u].handle \in live')
      BY <1>1, <2>1, Zenon DEF PerformsOK, ExchangeOK
    <3> QED BY <2>2, <3>2, <3>3 DEF PerformsOK, ExchangeOK
  <2> QED BY <2>3, <2>4, <2>5, Together, Zenon
<1> QED BY <1>5, <1>6, Zenon

------------------------------------------------------------------------------
\* What the callbacks set.
LEMMA CallbackFields ==
  ASSUME NEW p, IsExchange(p), NEW a, NEW b, NEW c, NEW d
  PROVE  /\ Like([p EXCEPT !.code = a], p)
         /\ Like([p EXCEPT !.headersTooLarge = a, !.code = b], p)
         /\ Like([p EXCEPT !.code = a, !.deadline = b], p)
         /\ Like([p EXCEPT !.written = a, !.overflowed = b, !.code = c], p)
         /\ Like([p EXCEPT !.written = a], p)
         /\ Like([p EXCEPT !.refused = a], p) /\ Like([p EXCEPT !.admitted = a], p)
         /\ Like([p EXCEPT !.headerBytes = a, !.headers = b, !.statusLine = c,
                           !.headersComplete = d], p)
<1> DEFINE Other == Field \ {"pc", "host", "handle"}
<1>1. /\ "code" \in Other /\ "headersTooLarge" \in Other /\ "deadline" \in Other
      /\ "written" \in Other /\ "overflowed" \in Other /\ "refused" \in Other /\ "admitted" \in Other
      /\ "headerBytes" \in Other /\ "headers" \in Other /\ "statusLine" \in Other
      /\ "headersComplete" \in Other
  BY Zenon DEF Field
<1>2. Like(p, p)
  BY Zenon DEF Like
<1>3. \A q, v : \A f \in Other : Like(q, p) => Like([q EXCEPT ![f] = v], p)
  BY Alike, Zenon
<1> HIDE DEF Other
<1>4. /\ Like([p EXCEPT !.code = a], p) /\ Like([p EXCEPT !.headersTooLarge = a], p)
      /\ Like([p EXCEPT !.written = a], p) /\ Like([p EXCEPT !.headerBytes = a], p)
      /\ Like([p EXCEPT !.refused = a], p) /\ Like([p EXCEPT !.admitted = a], p)
  BY <1>1, <1>2, <1>3, Zenon
<1>5. /\ Like([p EXCEPT !.headersTooLarge = a, !.code = b], p)
      /\ Like([p EXCEPT !.code = a, !.deadline = b], p)
      /\ Like([p EXCEPT !.written = a, !.overflowed = b], p)
      /\ Like([p EXCEPT !.headerBytes = a, !.headers = b], p)
  BY <1>1, <1>3, <1>4, Zenon
<1>6. /\ Like([p EXCEPT !.written = a, !.overflowed = b, !.code = c], p)
      /\ Like([p EXCEPT !.headerBytes = a, !.headers = b, !.statusLine = c], p)
  BY <1>1, <1>3, <1>5, Zenon
<1>7. Like([p EXCEPT !.headerBytes = a, !.headers = b, !.statusLine = c, !.headersComplete = d], p)
  BY <1>1, <1>3, <1>6, Zenon
<1> QED BY <1>4, <1>5, <1>6, <1>7, Zenon

\* A Perform that goes on to the next place with the same handle.
Reused(p, pc, v)      == [p EXCEPT !.pc = pc, !.sent = v]
Opened(p, pc, v, w)   == [p EXCEPT !.admitted = w, !.pc = pc, !.sent = v]
AtPlace(q, p, pc) == IsExchange(q) /\ q.pc = pc /\ q.host = p.host /\ q.handle = p.handle

\* It is the same Perform.
LEMMA GoesToPlace ==
  ASSUME NEW p, IsExchange(p), NEW pc, NEW v
  PROVE  AtPlace(Reused(p, pc, v), p, pc) /\ \A w : AtPlace(Opened(p, pc, v, w), p, pc)
<1>1. "sent" \in Field \ {"pc", "host", "handle"}
  BY Zenon DEF Field
<1>2. ASSUME NEW o, IsExchange(o)
      PROVE  \A q : q = [o EXCEPT !.pc = pc, !.sent = v]
                      => IsExchange(q) /\ q.pc = pc /\ q.host = o.host /\ q.handle = o.handle
  <2>1. PICK b : b = [o EXCEPT !.pc = pc]
    BY Zenon
  <2>2. IsExchange(b) /\ b.pc = pc /\ b.host = o.host /\ b.handle = o.handle
    BY <1>2, <2>1, SetsOne
  <2>3. Like([b EXCEPT !.sent = v], b)
    BY <1>1, <2>2, Alike DEF Like
  <2>4. PICK c : c = [b EXCEPT !.sent = v]
    BY Zenon
  <2>5. IsExchange(c) /\ c.pc = pc /\ c.host = o.host /\ c.handle = o.handle
    BY <2>2, <2>3, <2>4, Zenon DEF Like
  <2> QED BY <2>1, <2>4, <2>5, Zenon
<1>3. ASSUME NEW w, NEW q, q = [p EXCEPT !.admitted = w, !.pc = pc, !.sent = v]
      PROVE  IsExchange(q) /\ q.pc = pc /\ q.host = p.host /\ q.handle = p.handle
  <2>1. PICK b : b = [p EXCEPT !.admitted = w]
    BY Zenon
  <2>2. IsExchange(b) /\ b.host = p.host /\ b.handle = p.handle
    <3>1. Like([p EXCEPT !.admitted = w], p)
      BY CallbackFields, Zenon
    <3> QED BY <2>1, <3>1, Zenon DEF Like
  <2>3. q = [b EXCEPT !.pc = pc, !.sent = v]
    BY <1>3, <2>1, Zenon
  <2>4. IsExchange(q) /\ q.pc = pc /\ q.host = b.host /\ q.handle = b.handle
    BY <1>2, <2>2, <2>3, Zenon
  <2> QED BY <2>2, <2>4, Zenon
<1>4. AtPlace(Reused(p, pc, v), p, pc)
  BY <1>2, Zenon DEF AtPlace, Reused
<1>5. \A w : AtPlace(Opened(p, pc, v, w), p, pc)
  BY <1>3, Zenon DEF AtPlace, Opened
<1> QED BY <1>4, <1>5, Zenon

\* The end of a Perform that has a handle.
LEMMA ConcludeStep ==
  ASSUME IInv, NEW t \in Thread, perform[t].pc \in Working, NEW p, Like(p, perform[t]),
         Conclude(t, p)
  PROVE  IInv'
<1>1. p.handle = perform[t].handle
  BY Zenon DEF Like
<1>2. PICK kept \in {{}, connection[perform[t].handle]} : Release(perform[t].handle, kept)
  BY <1>1, Zenon DEF Conclude
<1>3. PICK r : Returns(t, r)
  BY Zenon DEF Conclude
<1> QED BY <1>2, <1>3, ReleaseStep, Zenon

\* A callback that lets the transfer go on.
LEMMA ContinueStep ==
  ASSUME IInv, NEW t \in Thread, NEW q, Like(q, perform[t]), Goes(t, q),
         UNCHANGED <<idle, live, connection>>
  PROVE  IInv'
<1>1. ExchangeOK(perform[t])
  BY Zenon DEF IInv, PerformsOK
<1>2. ExchangeOK(q) /\ q.handle = perform[t].handle
  BY <1>1, Zenon DEF ExchangeOK, Like
<1> QED BY <1>2, KeepsHandle, Zenon

------------------------------------------------------------------------------
\* Perform, up to the transfer.
LEMMA BeforeSteps ==
  ASSUME IInv, NEW t \in Thread,
         (\E host : Perform(t, host)) \/ Acquire(t) \/ BuildHeaders(t) \/ HeadersNotBuilt(t)
  PROVE  IInv'
<1>1. ExchangeOK(perform[t]) /\ IsExchange(perform[t])
  BY Zenon DEF IInv, PerformsOK, ExchangeOK
<1>2. ASSUME perform[t].pc \notin Working, NEW r, Returns(t, r),
             UNCHANGED <<idle, live, connection>>
      PROVE  IInv'
  <2>1. PICK q : q = [NoExchange EXCEPT !.response = r] /\ Goes(t, q)
    BY <1>2, Zenon DEF Returns
  <2>2. ExchangeOK(q) /\ q.handle = perform[t].handle
    BY <1>1, <1>2, <2>1, ReturnedExchange, Zenon DEF ExchangeOK
  <2> QED BY <1>2, <2>1, <2>2, KeepsHandle, Zenon
<1>3. CASE \E host : Perform(t, host)
  <2>1. PICK host : Perform(t, host)
    BY <1>3, Zenon
  <2>2. perform[t].pc \notin Working /\ UNCHANGED <<idle, live, connection>>
    BY <2>1, Zenon DEF Perform, At, Working
  <2>3. CASE PermittedByClient(host)
    <3>1. PICK q : q = [NoExchange EXCEPT !.pc = "acquire", !.host = host] /\ Goes(t, q)
      BY <2>1, <2>3, Zenon DEF Perform
    <3>2. ExchangeOK(q) /\ q.handle = perform[t].handle
      BY <1>1, <2>2, <2>3, <3>1, BegunExchange, Zenon DEF ExchangeOK
    <3> QED BY <2>2, <3>1, <3>2, KeepsHandle, Zenon
  <2>4. CASE ~PermittedByClient(host)
    BY <1>2, <2>1, <2>2, <2>4, Zenon DEF Perform, Fails
  <2> QED BY <2>3, <2>4, Zenon
<1>4. CASE Acquire(t)
  <2>1. CASE NotCreated(t)
    BY <1>2, <1>4, <2>1, Zenon DEF Acquire, NotCreated, Fails, At, Working
  <2> QED BY <1>4, <2>1, GetsHandle, Zenon DEF Acquire
<1>5. CASE BuildHeaders(t)
  <2>1. PICK p, q : p = perform[t] /\ q = [p EXCEPT !.pc = "connect"]
    BY Zenon
  <2>2. IsExchange(q) /\ q.pc = "connect" /\ q.host = p.host /\ q.handle = p.handle
    BY <1>1, <2>1, SetsOne
  <2>3. ExchangeOK(q) /\ q.handle = perform[t].handle
    BY <1>1, <1>5, <2>1, <2>2, Zenon DEF ExchangeOK, BuildHeaders, At, Working
  <2> QED BY <1>5, <2>1, <2>3, KeepsHandle, Zenon DEF BuildHeaders
<1>6. CASE HeadersNotBuilt(t)
  <2>1. /\ perform[t].pc \in Working
        /\ Release(perform[t].handle, connection[perform[t].handle])
    BY <1>6, Zenon DEF HeadersNotBuilt, At, Working
  <2>2. PICK r : Returns(t, r)
    BY <1>6, Zenon DEF HeadersNotBuilt, Fails
  <2> QED BY <2>1, <2>2, ReleaseStep, Zenon
<1> QED BY <1>3, <1>4, <1>5, <1>6, Zenon

\* A connection is reused, or opened to an address the policy admits.
LEMMA ConnectSteps ==
  ASSUME IInv, NEW t \in Thread, Reuse(t) \/ \E address : OnOpenSocket(t, address)
  PROVE  IInv'
<1>1. PICK p : /\ p = perform[t] /\ ExchangeOK(p) /\ IsExchange(p) /\ p.pc = "connect"
  BY Zenon DEF IInv, PerformsOK, ExchangeOK, Reuse, OnOpenSocket, At
<1>2. /\ p.handle \in live /\ p.host \in Addresses \cup {Name}
      /\ p.host = Name \/ p.host \in Permitted
  BY <1>1, TransportAssumption, Zenon DEF ExchangeOK, Working
<1>3. ASSUME NEW q, IsExchange(q), q.pc = "transfer", q.host = p.host, q.handle = p.handle
      PROVE  ExchangeOK(q)
  BY <1>2, <1>3, Zenon DEF ExchangeOK, Working
<1>4. CASE Reuse(t)
  <2>1. PICK v, q : /\ v = TRUE /\ q = Reused(p, "transfer", v) /\ Goes(t, q)
                    /\ UNCHANGED <<idle, live, connection>>
    BY <1>1, <1>4, Zenon DEF Reuse, Reused
  <2>2. IsExchange(q) /\ q.pc = "transfer" /\ q.host = p.host /\ q.handle = p.handle
    <3>1. AtPlace(Reused(p, "transfer", v), p, "transfer")
      BY <1>1, GoesToPlace, Zenon
    <3> QED BY <2>1, <3>1, Zenon DEF AtPlace
  <2>3. ExchangeOK(q)
    BY <1>3, <2>2, Zenon
  <2> QED BY <1>1, <2>1, <2>2, <2>3, KeepsHandle, Zenon
<1>5. CASE \E address : OnOpenSocket(t, address)
  <2>1. PICK address : OnOpenSocket(t, address)
    BY <1>5, Zenon
  <2>2. UNCHANGED <<idle, live>>
    BY <2>1, Zenon DEF OnOpenSocket
  <2>3. CASE /\ Admits(address)
             /\ Goes(t, [p EXCEPT !.admitted = p.admitted + 1, !.pc = "transfer", !.sent = TRUE])
             /\ connection' = [connection EXCEPT ![p.handle] = {[host |-> p.host, at |-> address]}]
    <3>1. PICK c : c = [host |-> p.host, at |-> address]
      BY Zenon
    <3>2. c \in Connections /\ Good(c)
      BY <1>2, <2>3, <3>1, TransportAssumption, Zenon DEF Connections, Good, Admits
    <3>3. PICK n, v, q : /\ n = p.admitted + 1 /\ v = TRUE /\ Goes(t, q)
                         /\ q = Opened(p, "transfer", v, n)
      BY <2>3, Zenon DEF Opened
    <3>4. IsExchange(q) /\ q.pc = "transfer" /\ q.host = p.host /\ q.handle = p.handle
      <4>1. AtPlace(Opened(p, "transfer", v, n), p, "transfer")
        BY <1>1, GoesToPlace, Zenon
      <4> QED BY <3>3, <4>1, Zenon DEF AtPlace
    <3>5. ExchangeOK(q)
      BY <1>3, <3>4
    <3>6. q.handle = perform[t].handle /\ q.handle \in live
          /\ connection' = [connection EXCEPT ![q.handle] = {c}]
      BY <1>1, <1>2, <2>3, <3>1, <3>4, Zenon
    <3> QED BY <2>2, <3>2, <3>3, <3>5, <3>6, KeepsHandle, Zenon
  <2>4. CASE /\ UNCHANGED connection
             /\ \/ Goes(t, [p EXCEPT !.admitted = p.admitted + 1])
                \/ Goes(t, [p EXCEPT !.refused = p.refused + 1])
    <3>1. PICK q : Like(q, p) /\ Goes(t, q)
      <4>1. \A n : Like([p EXCEPT !.admitted = n], p) /\ Like([p EXCEPT !.refused = n], p)
        BY <1>1, CallbackFields, Zenon
      <4> QED BY <2>4, <4>1, Zenon
    <3> QED BY <1>1, <2>2, <2>4, <3>1, ContinueStep, Zenon
  <2> QED BY <1>1, <2>1, <2>3, <2>4, Zenon DEF OnOpenSocket
<1> QED BY <1>4, <1>5, Zenon

\* The callbacks, and the end of the transfer.
LEMMA TransferSteps ==
  ASSUME IInv, NEW t \in Thread,
         \/ \E line : OnHeader(t, line)
         \/ \E bytes : OnBody(t, bytes)
         \/ OnProgressWithClock(t) \/ TransferEnds(t)
  PROVE  IInv'
<1>1. PICK p : p = perform[t] /\ IsExchange(p)
  BY Zenon DEF IInv, PerformsOK, ExchangeOK
<1>2. perform[t].pc \in Working
  BY Zenon DEF OnHeader, OnBody, OnProgressWithClock, TransferEnds, At, Working
<1>3. ASSUME NEW q, Like(q, p), Conclude(t, q) PROVE IInv'
  BY <1>1, <1>2, <1>3, ConcludeStep, Zenon
<1>4. ASSUME NEW q, Like(q, p), Goes(t, q), UNCHANGED <<idle, live, connection>> PROVE IInv'
  BY <1>1, <1>4, ContinueStep, Zenon
<1>5. CASE \E line : OnHeader(t, line)
  <2>1. PICK line : OnHeader(t, line)
    BY <1>5, Zenon
  <2>2. CASE Conclude(t, [p EXCEPT !.headersTooLarge = TRUE, !.code = "write"])
    <3>1. \A a, b : Like([p EXCEPT !.headersTooLarge = a, !.code = b], p)
      BY <1>1, CallbackFields, Zenon
    <3>2. PICK q : Like(q, p) /\ Conclude(t, q)
      BY <2>2, <3>1, Zenon
    <3> QED BY <1>3, <3>2, Zenon
  <2>3. CASE /\ Goes(t, [p EXCEPT !.headerBytes = HeaderBytesAt(p, line),
                                  !.headers = HeadersAfter(p, line),
                                  !.statusLine = TRUE,
                                  !.headersComplete = line = "blank"])
             /\ UNCHANGED <<proxy, idle, live, connection>>
    <3>1. \A a, b, c, d : Like([p EXCEPT !.headerBytes = a, !.headers = b, !.statusLine = c,
                                         !.headersComplete = d], p)
      BY <1>1, CallbackFields, Zenon
    <3>2. PICK q : Like(q, p) /\ Goes(t, q)
      BY <2>3, <3>1, Zenon
    <3> QED BY <1>4, <2>3, <3>2, Zenon
  <2> QED BY <1>1, <2>1, <2>2, <2>3, Zenon DEF OnHeader
<1>6. CASE \E bytes : OnBody(t, bytes)
  <2>1. PICK bytes : OnBody(t, bytes)
    BY <1>6, Zenon
  <2>2. CASE Conclude(t, [p EXCEPT !.written = Capacity, !.overflowed = TRUE, !.code = "write"])
    <3>1. \A a, b, c : Like([p EXCEPT !.written = a, !.overflowed = b, !.code = c], p)
      BY <1>1, CallbackFields, Zenon
    <3>2. PICK q : Like(q, p) /\ Conclude(t, q)
      BY <2>2, <3>1, Zenon
    <3> QED BY <1>3, <3>2
  <2>3. CASE /\ Goes(t, [p EXCEPT !.written = p.written + bytes])
             /\ UNCHANGED <<proxy, idle, live, connection>>
    <3>1. \A a : Like([p EXCEPT !.written = a], p)
      BY <1>1, CallbackFields, Zenon
    <3>2. PICK q : Like(q, p) /\ Goes(t, q)
      BY <2>3, <3>1, Zenon
    <3> QED BY <1>4, <2>3, <3>2, Zenon
  <2> QED BY <1>1, <2>1, <2>2, <2>3, Zenon DEF OnBody
<1>7. CASE OnProgressWithClock(t)
  <2>1. \A a, b : Like([p EXCEPT !.code = a, !.deadline = b], p)
    BY <1>1, CallbackFields, Zenon
  <2>2. Conclude(t, [p EXCEPT !.code = "aborted",
                              !.deadline = IF p.headersComplete THEN "TransferTimeout"
                                                                ELSE "ResponseTimeout"])
    BY <1>1, <1>7, Zenon DEF OnProgressWithClock
  <2>3. PICK q : Like(q, p) /\ Conclude(t, q)
    BY <2>1, <2>2, Zenon
  <2> QED BY <1>3, <2>3
<1>8. CASE TransferEnds(t)
  <2>1. \A a : Like([p EXCEPT !.code = a], p)
    BY <1>1, CallbackFields, Zenon
  <2>2. \E code : Conclude(t, [p EXCEPT !.code = code])
    BY <1>1, <1>8, Zenon DEF TransferEnds
  <2>3. PICK q : Like(q, p) /\ Conclude(t, q)
    BY <2>1, <2>2, Zenon
  <2> QED BY <1>3, <2>3
<1> QED BY <1>5, <1>6, <1>7, <1>8, Zenon

------------------------------------------------------------------------------
\* A transport that was just made, with no handle yet.
LEMMA InitIsOK == Init => IInv
<1> SUFFICES ASSUME Init PROVE IInv
  BY Zenon
<1>1. StateOK
  <2>1. idle \in Seq(1 .. Handles)
    BY DEF Init
  <2> QED BY <2>1, Zenon DEF Init, StateOK
<1>2. \A t \in Thread : perform[t] = NoExchange
  BY Zenon DEF Init
<1>3. PerformsOK
  BY <1>2, NoExchangeFields, Zenon DEF Init, PerformsOK, ExchangeOK, Working
<1>4. PoolIsSound
  <2>1. HandleOf = [t \in Thread |-> 0]
    BY <1>2, NoExchangeFields, Zenon DEF HandleOf
  <2>2. Sound(idle, live, HandleOf)
    BY <2>1, TransportAssumption DEF Init, Sound
  <2> QED BY <1>1, <2>2, PoolAsSound, Zenon
<1>5. PolicyHolds
  BY Zenon DEF Init, PolicyHolds
<1> QED BY <1>1, <1>3, <1>4, <1>5, Zenon DEF IInv

\* Every step of every thread keeps the invariant.
LEMMA StepKeeps == IInv /\ [Next]_transportVars => IInv'
<1> SUFFICES ASSUME IInv, [Next]_transportVars PROVE IInv'
  BY Zenon
<1>1. CASE UNCHANGED transportVars
  BY <1>1 DEF transportVars, IInv, StateOK, PerformsOK, ExchangeOK, PoolIsSound, PolicyHolds, InUse
<1>2. CASE Next
  <2>1. PICK t \in Thread : (\E host : Perform(t, host)) \/ Step(t)
    BY <1>2, Zenon DEF Next
  <2>2. CASE (\E host : Perform(t, host)) \/ Acquire(t) \/ BuildHeaders(t) \/ HeadersNotBuilt(t)
    BY <2>2, BeforeSteps, Zenon
  <2>3. CASE Reuse(t) \/ \E address : OnOpenSocket(t, address)
    BY <2>3, ConnectSteps, Zenon
  <2>4. CASE \/ \E line : OnHeader(t, line)
             \/ \E bytes : OnBody(t, bytes)
             \/ OnProgressWithClock(t) \/ TransferEnds(t)
    BY <2>4, TransferSteps, Zenon
  <2> QED BY <2>1, <2>2, <2>3, <2>4, Zenon DEF Step
<1> QED BY <1>1, <1>2, Zenon

\* The handle pool (HandlePool, CurlTransport.cpp): a handle is used by one
\* thread at a time and never while it is in the pool, no path out of Perform
\* loses one, and the pool stays within its bound.
THEOREM PoolSound == Spec => []PoolIsSound
<1>1. IInv => PoolIsSound
  BY Zenon DEF IInv
<1> QED BY <1>1, InitIsOK, StepKeeps, PTL DEF Spec

\* The destination policy (OnOpenSocket and PermittedByClient): no handle ever
\* has a connection to an address the policy refuses, reused ones included.
THEOREM PolicyKept == Spec => []PolicyHolds
<1>1. IInv => PolicyHolds
  BY Zenon DEF IInv
<1> QED BY <1>1, InitIsOK, StepKeeps, PTL DEF Spec

------------------------------------------------------------------------------
(***************************************************************************)
(* What a Perform reports.                                                 *)
(***************************************************************************)

\* How far an exchange has got says what it can have counted and kept: nothing
\* is sent or received before there is a connection, and there is one only
\* where no address was refused or one was admitted.
Progress(p) ==
  /\ p.code = None /\ p.deadline = None
  /\ p.overflowed = FALSE /\ p.headersTooLarge = FALSE
  /\ p.refused \in Nat /\ p.admitted \in Nat
  /\ p.written \in 0 .. Capacity
  /\ p.headers \subseteq {"last"}
  /\ p.headersComplete \in BOOLEAN
  /\ p.headersComplete = FALSE => p.written = 0
  /\ p.pc # "transfer" => /\ p.sent = FALSE /\ p.headers = {}
                          /\ p.written = 0 /\ p.headersComplete = FALSE
  /\ p.pc = "transfer" => p.sent = TRUE /\ (p.refused = 0 \/ p.admitted > 0)

Progressing == \A t \in Thread : Progress(perform[t])

\* No exchange has got anywhere, whatever the last one told.
LEMMA NoProgress ==
  ASSUME NEW r, NEW q, q = NoExchange \/ q = [NoExchange EXCEPT !.response = r]
  PROVE  /\ Progress(q) /\ q.pc = "idle"
         /\ q = [NoExchange EXCEPT !.response = r] => q.response = r
<1>1. /\ NoExchange.code = None /\ NoExchange.deadline = None /\ NoExchange.overflowed = FALSE
      /\ NoExchange.headersTooLarge = FALSE /\ NoExchange.refused = 0 /\ NoExchange.admitted = 0
      /\ NoExchange.written = 0 /\ NoExchange.headers = {} /\ NoExchange.headersComplete = FALSE
      /\ NoExchange.sent = FALSE /\ NoExchange.pc = "idle"
  BY Zenon DEF NoExchange
<1>2. PICK n : n = NoExchange
  BY Zenon
<1>3. IsExchange(n) /\ (q = n \/ q = [n EXCEPT !["response"] = r])
  BY <1>2, NoExchangeFields, Zenon
<1>4. /\ \A x \in Field \ {"response"} : q[x] = n[x]
      /\ q = [n EXCEPT !["response"] = r] => q["response"] = r
  <2>1. "response" \in Field
    BY Zenon DEF Field
  <2>2. CASE q = n
    BY <1>3, <2>1, <2>2, Sets
  <2> QED BY <1>3, <2>1, <2>2, Sets
<1>5. /\ q.code = n.code /\ q.deadline = n.deadline /\ q.overflowed = n.overflowed
      /\ q.headersTooLarge = n.headersTooLarge /\ q.refused = n.refused /\ q.admitted = n.admitted
      /\ q.written = n.written /\ q.headers = n.headers /\ q.headersComplete = n.headersComplete
      /\ q.sent = n.sent /\ q.pc = n.pc
  BY <1>4, Zenon DEF Field
<1>6. 0 \in Nat /\ 0 \in 0 .. Capacity /\ {} \subseteq {"last"} /\ FALSE \in BOOLEAN
  BY TransportAssumption
<1>7. q.pc = "idle" /\ "idle" # "transfer"
  BY <1>1, <1>2, <1>5, Zenon
<1>8. Progress(q)
  BY <1>1, <1>2, <1>5, <1>6, <1>7, Zenon DEF Progress
<1> QED BY <1>2, <1>4, <1>7, <1>8, Zenon

\* The policy refused every address there was.
AllRefused(p) == p.refused > 0 /\ p.admitted = 0

\* What ends an exchange sets no other fields than these.
EndsAs(e, p) ==
  /\ e.pc = p.pc /\ e.refused = p.refused /\ e.admitted = p.admitted
  /\ e.sent = p.sent /\ e.headers = p.headers /\ e.headersComplete = p.headersComplete

\* The four ways an exchange ends: at a header, at a byte of the body, at a
\* deadline, or as libcurl ends it.
AtHeader(e, p) ==
  /\ p.pc = "transfer" /\ e.code = "write" /\ e.headersTooLarge = TRUE
  /\ e.deadline = None /\ e.written = p.written /\ e.overflowed = FALSE
AtBody(e, p) ==
  /\ p.pc = "transfer" /\ e.code = "write" /\ e.headersTooLarge = FALSE
  /\ e.deadline = None /\ e.written = Capacity /\ e.overflowed = TRUE
AtDeadline(e, p) ==
  /\ e.code = "aborted" /\ e.headersTooLarge = FALSE
  /\ e.deadline = IF p.headersComplete THEN "TransferTimeout" ELSE "ResponseTimeout"
  /\ e.written = p.written /\ e.overflowed = FALSE
AtEnd(e, p) ==
  /\ e.code \in Codes(p) /\ e.headersTooLarge = FALSE
  /\ e.deadline = None /\ e.written = p.written /\ e.overflowed = FALSE

Ending(e, p) == EndsAs(e, p) /\ (AtHeader(e, p) \/ AtBody(e, p) \/ AtDeadline(e, p) \/ AtEnd(e, p))

\* What is told of it.
Told(e, p) ==
  /\ ErrorOf(e) = "DestinationRefused" <=> AllRefused(p)
  /\ AllRefused(p) => e.sent = FALSE /\ e.headers = {} /\ e.written = 0
  /\ e.headers \subseteq {"last"} /\ e.written \in 0 .. Capacity
  /\ e.overflowed = FALSE \/ (e.overflowed = TRUE /\ ErrorOf(e) = None /\ e.written = Capacity)
  /\ ErrorOf(e) = "TransferTimeout" => e.sent = TRUE /\ p.headersComplete = TRUE
  /\ ErrorOf(e) = "ResponseTimeout" => p.headersComplete = FALSE /\ e.written = 0
  /\ ErrorOf(e) = "ConnectTimeout" => e.sent = FALSE

\* An exchange that was refused never had a connection, and no other end of an
\* exchange is classified as a refusal.
LEMMA EndIsTold ==
  ASSUME NEW p, Progress(p), p.pc \in {"connect", "transfer"}, NEW e, Ending(e, p)
  PROVE  Told(e, p)
<1>1. /\ AllRefused(p) => p.pc = "connect"
      /\ AllRefused(e) <=> AllRefused(p)
      /\ p.sent = TRUE \/ p.sent = FALSE
      /\ p.headersComplete = TRUE \/ p.headersComplete = FALSE
      /\ p.headersComplete = TRUE => p.sent = TRUE /\ p.pc = "transfer"
      /\ p.headersComplete = FALSE => p.written = 0
  BY DEF Progress, AllRefused, Ending, EndsAs
<1>2. /\ AllRefused(p) => e.sent = FALSE /\ e.headers = {} /\ e.written = 0
      /\ e.headers \subseteq {"last"}
  BY <1>1, Zenon DEF Progress, Ending, EndsAs, AtHeader, AtBody, AtDeadline, AtEnd
<1>3. e.written \in 0 .. Capacity
  BY TransportAssumption DEF Progress, Ending, AtHeader, AtBody, AtDeadline, AtEnd
<1>4. AllRefused(p) => e.code # "OK"
  BY <1>1, Zenon DEF Ending, AtHeader, AtBody, AtDeadline, AtEnd, Codes
<1>5. WasRefused(e) <=> AllRefused(p)
  BY <1>1, <1>4, Zenon DEF WasRefused, AllRefused
<1>6. CASE AllRefused(p)
  BY <1>1, <1>2, <1>3, <1>5, <1>6, Zenon
     DEF Told, ErrorOf, Ending, EndsAs, AtHeader, AtBody, AtDeadline, AtEnd
<1>7. CASE ~AllRefused(p)
  <2>1. ~WasRefused(e)
    BY <1>5, <1>7, Zenon
  <2>2. CASE AtHeader(e, p)
    <3>1. ErrorOf(e) = "HeadersTooLarge"
      BY <2>1, <2>2, Zenon DEF ErrorOf, AbandonedAtHeaders, AtHeader
    <3> QED BY <1>2, <1>3, <1>7, <2>2, <3>1, Zenon DEF Told, AtHeader
  <2>3. CASE AtBody(e, p)
    <3>1. ErrorOf(e) = None
      BY <2>1, <2>3, Zenon DEF ErrorOf, AbandonedAtHeaders, CutOff, AtBody
    <3> QED BY <1>2, <1>3, <1>7, <2>3, <3>1, Zenon DEF Told, AtBody, None
  <2>4. CASE AtDeadline(e, p)
    <3>1. ErrorOf(e) = e.deadline
      BY <2>1, <2>4, Zenon DEF ErrorOf, AbandonedAtHeaders, CutOff, AtDeadline, ClassifyCurlError, None
    <3>2. /\ e.deadline = "TransferTimeout" => p.headersComplete = TRUE /\ e.sent = TRUE
          /\ e.deadline = "ResponseTimeout" => p.headersComplete = FALSE /\ e.written = 0
          /\ e.deadline \in {"TransferTimeout", "ResponseTimeout"}
      BY <1>1, <2>4, Zenon DEF AtDeadline, Ending, EndsAs
    <3> QED BY <1>2, <1>3, <1>7, <2>4, <3>1, <3>2, Zenon DEF Told, AtDeadline
  <2>5. CASE AtEnd(e, p)
    <3>1. CASE e.code = "OK"
      <4>1. ErrorOf(e) = None
        BY <2>1, <3>1, Zenon DEF ErrorOf, AbandonedAtHeaders
      <4> QED BY <1>2, <1>3, <1>7, <2>5, <4>1, Zenon DEF Told, AtEnd, None
    <3>2. CASE e.code # "OK"
      <4>1. e.code # "write" /\ e.code # "aborted"
        BY <2>5, Zenon DEF AtEnd, Codes
      <4>2. ErrorOf(e) = ClassifyCurlError(e)
        BY <2>1, <3>2, <4>1, Zenon DEF ErrorOf, AbandonedAtHeaders, CutOff
      <4>3. /\ ClassifyCurlError(e) # "DestinationRefused"
            /\ ClassifyCurlError(e) = "TransferTimeout" => e.sent = TRUE /\ e.headersComplete = TRUE
            /\ ClassifyCurlError(e) = "ResponseTimeout" => e.headersComplete = FALSE
            /\ ClassifyCurlError(e) = "ConnectTimeout" => e.sent = FALSE
        BY <1>1, <4>1, Zenon DEF ClassifyCurlError, Ending, EndsAs
      <4>4. ErrorOf(e) = "ResponseTimeout" => p.headersComplete = FALSE /\ e.written = 0
        BY <1>1, <2>5, <4>2, <4>3, Zenon DEF AtEnd, Ending, EndsAs
      <4> QED BY <1>2, <1>3, <1>7, <2>5, <4>2, <4>3, <4>4, Zenon DEF Told, AtEnd, Ending, EndsAs
    <3> QED BY <3>1, <3>2, Zenon
  <2> QED BY <2>2, <2>3, <2>4, <2>5, Zenon DEF Ending
<1> QED BY <1>6, <1>7, Zenon

\* A Perform that goes on, and one that returns.
LEMMA GoesOn ==
  ASSUME PerformsOK, Progressing, NEW t \in Thread, NEW q, Goes(t, q), Progress(q)
  PROVE  Progressing' /\ perform'[t] = q /\ \A u \in Thread \ {t} : perform'[u] = perform[u]
BY Frame, Zenon DEF Progressing

\* What a Perform that is not at libcurl goes on to, and back.
LEMMA GoesBefore ==
  ASSUME NEW p, Progress(p), p.pc # "transfer", NEW q, q.pc # "transfer",
         \A x \in Field \ {"pc", "host", "handle"} : q[x] = p[x]
  PROVE  Progress(q)
<1>1. /\ q.code = p.code /\ q.deadline = p.deadline /\ q.overflowed = p.overflowed
      /\ q.headersTooLarge = p.headersTooLarge /\ q.refused = p.refused /\ q.admitted = p.admitted
      /\ q.written = p.written /\ q.headers = p.headers /\ q.headersComplete = p.headersComplete
      /\ q.sent = p.sent
  BY Zenon DEF Field
<1> QED BY <1>1, Zenon DEF Progress

\* Every Perform is where it was, or goes where it may, or tells what it may.
Reports(t) ==
  Returning(t) => \E e : Told(e, perform[t]) /\ perform'[t].response =
                           [error      |-> ErrorOf(e),
                            connected  |-> e.sent,
                            headers    |-> IF AbandonedAtHeaders(e) THEN {} ELSE e.headers,
                            bodyBytes  |-> e.written,
                            overflowed |-> e.overflowed]

\* The other Performs stay where they are.
LEMMA OnlyOne ==
  ASSUME NEW t \in Thread, \A u \in Thread \ {t} : perform'[u] = perform[u], Reports(t)
  PROVE  \A u \in Thread : Reports(u)
<1> SUFFICES ASSUME NEW u \in Thread, u # t PROVE Reports(u)
  BY Zenon
<1>1. perform'[u] = perform[u]
  BY Zenon
<1> QED BY <1>1, Zenon DEF Reports, Returning

\* The end of an exchange is told.
LEMMA ConcludeTells ==
  ASSUME PerformsOK, Progressing, NEW t \in Thread, perform[t].pc \in {"connect", "transfer"},
         NEW e, Ending(e, perform[t]), Conclude(t, e)
  PROVE  Progressing' /\ \A u \in Thread : Reports(u)
<1>1. Told(e, perform[t])
  BY EndIsTold, Zenon DEF Progressing
<1>2. PICK r : /\ r = [error      |-> ErrorOf(e),
                       connected  |-> e.sent,
                       headers    |-> IF AbandonedAtHeaders(e) THEN {} ELSE e.headers,
                       bodyBytes  |-> e.written,
                       overflowed |-> e.overflowed]
               /\ Returns(t, r)
  BY Zenon DEF Conclude
<1>3. PICK q : q = [NoExchange EXCEPT !.response = r] /\ Goes(t, q)
  BY <1>2, Zenon DEF Returns
<1>4. Progress(q) /\ q.response = r
  BY <1>3, NoProgress, Zenon
<1>5. Progressing' /\ perform'[t] = q /\ \A u \in Thread \ {t} : perform'[u] = perform[u]
  BY <1>3, <1>4, GoesOn, Zenon
<1>6. Reports(t)
  BY <1>1, <1>2, <1>4, <1>5, Zenon DEF Reports
<1> QED BY <1>5, <1>6, OnlyOne, Zenon

\* Before libcurl has the exchange nothing is told of it.
LEMMA BeforeTells ==
  ASSUME IInv, Progressing, NEW t \in Thread,
         (\E host : Perform(t, host)) \/ Acquire(t) \/ BuildHeaders(t) \/ HeadersNotBuilt(t)
  PROVE  Progressing' /\ \A u \in Thread : Reports(u)
<1>1. PICK p : /\ p = perform[t] /\ IsExchange(p) /\ Progress(p)
               /\ p.pc \in {"idle", "acquire", "build"} /\ PerformsOK
  BY Zenon DEF IInv, PerformsOK, ExchangeOK, Progressing, Perform, Acquire, BuildHeaders,
               HeadersNotBuilt, At
<1>2. p.pc # "transfer" /\ Reports(t)
  BY <1>1, Zenon DEF Reports, Returning
<1>3. ASSUME NEW r, Returns(t, r) PROVE Progressing' /\ \A u \in Thread : Reports(u)
  <2>1. PICK q : q = [NoExchange EXCEPT !.response = r] /\ Goes(t, q)
    BY <1>3, Zenon DEF Returns
  <2>2. Progress(q)
    BY <2>1, NoProgress, Zenon
  <2> QED BY <1>1, <1>2, <2>1, <2>2, GoesOn, OnlyOne, Zenon
<1>4. ASSUME NEW n, Progress(n), n.pc # "transfer", NEW q, q.pc # "transfer", Goes(t, q),
             \A x \in Field \ {"pc", "host", "handle"} : q[x] = n[x]
      PROVE  Progressing' /\ \A u \in Thread : Reports(u)
  BY <1>1, <1>2, <1>4, GoesBefore, GoesOn, OnlyOne, Zenon
<1>5. "pc" \in Field /\ "host" \in Field /\ "handle" \in Field
  BY Zenon DEF Field
<1>6. CASE \E host : Perform(t, host)
  <2>1. PICK host : Perform(t, host)
    BY <1>6, Zenon
  <2>2. CASE PermittedByClient(host)
    <3>1. PICK n : n = NoExchange /\ IsExchange(n)
      BY NoExchangeFields, Zenon
    <3>2. n.pc # "transfer" /\ Progress(n)
      BY <3>1, NoProgress, Zenon
    <3>3. PICK q : q = [n EXCEPT !["pc"] = "acquire", !["host"] = host] /\ Goes(t, q)
      BY <2>1, <2>2, <3>1, Zenon DEF Perform
    <3>4. q["pc"] = "acquire" /\ \A x \in Field \ {"pc", "host"} : q[x] = n[x]
      <4>1. DOMAIN n = Field /\ "pc" # "host"
        BY <3>1, Zenon DEF IsExchange
      <4> HIDE <3>1
      <4> QED BY <1>5, <3>3, <4>1, Zenon
    <3> QED BY <1>4, <3>2, <3>3, <3>4, Zenon
  <2>3. CASE ~PermittedByClient(host)
    BY <1>3, <2>1, <2>3, Zenon DEF Perform, Fails
  <2> QED BY <2>2, <2>3, Zenon
<1>7. CASE Acquire(t)
  <2>1. CASE NotCreated(t)
    BY <1>3, <2>1, Zenon DEF NotCreated, Fails
  <2>2. CASE Acquired(t) \/ Created(t)
    <3>1. PICK h : Goes(t, [p EXCEPT !["pc"] = "build", !["handle"] = h])
      BY <1>1, <2>2, Zenon DEF Acquired, Created
    <3>2. PICK q : q = [p EXCEPT !["pc"] = "build", !["handle"] = h] /\ Goes(t, q)
      BY <3>1, Zenon
    <3>3. q["pc"] = "build" /\ \A x \in Field \ {"pc", "handle"} : q[x] = p[x]
      BY <1>1, <1>5, <3>2, Zenon DEF IsExchange
    <3> QED BY <1>1, <1>2, <1>4, <3>2, <3>3, Zenon
  <2> QED BY <1>7, <2>1, <2>2, Zenon DEF Acquire
<1>8. CASE BuildHeaders(t)
  <2>1. PICK q : q = [p EXCEPT !["pc"] = "connect"] /\ Goes(t, q)
    BY <1>1, <1>8, Zenon DEF BuildHeaders
  <2>2. q["pc"] = "connect" /\ \A x \in Field \ {"pc"} : q[x] = p[x]
    BY <1>1, <1>5, <2>1, Zenon DEF IsExchange
  <2>3. q.pc # "transfer" /\ \A x \in Field \ {"pc", "host", "handle"} : q[x] = p[x]
    BY <2>2, Zenon
  <2> QED BY <1>1, <1>2, <1>4, <2>1, <2>3, Zenon
<1>9. CASE HeadersNotBuilt(t)
  BY <1>3, <1>9, Zenon DEF HeadersNotBuilt, Fails
<1> QED BY <1>6, <1>7, <1>8, <1>9, Zenon

\* A connection is there only where an address was admitted or none was tried.
LEMMA ConnectTells ==
  ASSUME IInv, Progressing, NEW t \in Thread, Reuse(t) \/ \E address : OnOpenSocket(t, address)
  PROVE  Progressing' /\ \A u \in Thread : Reports(u)
<1>1. PICK p : /\ p = perform[t] /\ IsExchange(p) /\ Progress(p) /\ p.pc = "connect" /\ PerformsOK
  BY Zenon DEF IInv, PerformsOK, ExchangeOK, Progressing, Reuse, OnOpenSocket, At
<1>2. DOMAIN p = Field
  BY <1>1, Zenon DEF IsExchange
<1>3. ASSUME NEW q, Goes(t, q), Progress(q), q.pc # "idle"
      PROVE  Progressing' /\ \A u \in Thread : Reports(u)
  <2>1. Progressing' /\ perform'[t] = q /\ \A u \in Thread \ {t} : perform'[u] = perform[u]
    BY <1>1, <1>3, GoesOn, Zenon
  <2>2. Reports(t)
    BY <1>3, <2>1, Zenon DEF Reports, Returning
  <2> QED BY <2>1, <2>2, OnlyOne, Zenon
<1>4. ASSUME NEW n, NEW q,
             \/ q = [p EXCEPT !["pc"] = "transfer", !["sent"] = TRUE] /\ p.refused = 0
             \/ /\ n = p.admitted + 1
                /\ \/ q = [p EXCEPT !["admitted"] = n, !["pc"] = "transfer", !["sent"] = TRUE]
                   \/ q = [p EXCEPT !["admitted"] = n]
             \/ q = [p EXCEPT !["refused"] = n] /\ n = p.refused + 1
      PROVE  Progress(q) /\ q.pc # "idle"
  <2>1. \A x \in Field \ {"pc", "sent", "admitted", "refused"} : q[x] = p[x]
    BY <1>2, <1>4, Zenon
  <2>2. /\ q.code = p.code /\ q.deadline = p.deadline /\ q.overflowed = p.overflowed
        /\ q.headersTooLarge = p.headersTooLarge
        /\ q.written = p.written /\ q.headers = p.headers /\ q.headersComplete = p.headersComplete
    BY <2>1, Zenon DEF Field
  <2>3. "pc" \in Field /\ "sent" \in Field /\ "admitted" \in Field /\ "refused" \in Field
    BY Zenon DEF Field
  <2>4. \/ q.pc = "transfer" /\ q.sent = TRUE /\ p.refused = 0 /\ q.refused = 0 /\ q.admitted = p.admitted
        \/ q.pc = "transfer" /\ q.sent = TRUE /\ q.refused = p.refused /\ q.admitted = p.admitted + 1
        \/ /\ q.pc = "connect" /\ q.sent = p.sent /\ q.refused = p.refused
           /\ q.admitted = p.admitted + 1
        \/ /\ q.pc = "connect" /\ q.sent = p.sent /\ q.refused = p.refused + 1
           /\ q.admitted = p.admitted
    BY <1>1, <1>2, <1>4, <2>3, Zenon
  <2>5. /\ p.refused \in Nat /\ p.admitted \in Nat /\ p.sent = FALSE
        /\ q.refused \in Nat /\ q.admitted \in Nat
        /\ q.pc = "transfer" => q.sent = TRUE /\ (q.refused = 0 \/ q.admitted > 0)
        /\ q.pc # "transfer" => q.sent = FALSE
    BY <1>1, <2>4 DEF Progress
  <2> QED BY <1>1, <2>2, <2>4, <2>5, Zenon DEF Progress
<1>5. CASE Reuse(t)
  <2>1. PICK q : q = [p EXCEPT !["pc"] = "transfer", !["sent"] = TRUE] /\ Goes(t, q)
    BY <1>1, <1>5, Zenon DEF Reuse
  <2>2. p.refused = 0
    BY <1>1, <1>5 DEF Reuse, Progress
  <2> QED BY <1>3, <1>4, <2>1, <2>2, Zenon
<1>6. CASE \E address : OnOpenSocket(t, address)
  <2>1. PICK n, m : n = p.admitted + 1 /\ m = p.refused + 1
    BY Zenon
  <2>2. \/ Goes(t, [p EXCEPT !["admitted"] = n, !["pc"] = "transfer", !["sent"] = TRUE])
        \/ Goes(t, [p EXCEPT !["admitted"] = n])
        \/ Goes(t, [p EXCEPT !["refused"] = m])
    BY <1>1, <1>6, <2>1, Zenon DEF OnOpenSocket
  <2>3. PICK q : /\ Goes(t, q)
                 /\ \/ q = [p EXCEPT !["admitted"] = n, !["pc"] = "transfer", !["sent"] = TRUE]
                    \/ q = [p EXCEPT !["admitted"] = n]
                    \/ q = [p EXCEPT !["refused"] = m]
    BY <2>2, Zenon
  <2>4. Progress(q) /\ q.pc # "idle"
    BY <1>4, <2>1, <2>3, Zenon
  <2> QED BY <1>3, <2>3, <2>4, Zenon
<1> QED BY <1>5, <1>6, Zenon

\* What a callback adds to an exchange that goes on.
LEMMA CallbackTells ==
  ASSUME NEW p, IsExchange(p), Progress(p), p.pc = "transfer", NEW q,
         \/ \E line, n, v : /\ v \in BOOLEAN /\ p.written = 0
                            /\ q = [p EXCEPT !["headerBytes"] = n, !["headers"] = HeadersAfter(p, line),
                                             !["statusLine"] = TRUE, !["headersComplete"] = v]
         \/ \E w \in 0 .. Capacity : /\ p.headersComplete = TRUE
                                       /\ q = [p EXCEPT !["written"] = w]
  PROVE  Progress(q) /\ q.pc = "transfer"
<1>1. DOMAIN p = Field
  BY Zenon DEF IsExchange
<1>2. /\ "headerBytes" \in Field /\ "headers" \in Field /\ "statusLine" \in Field
      /\ "headersComplete" \in Field /\ "written" \in Field
  BY Zenon DEF Field
<1>3. \A x \in Field \ {"headerBytes", "headers", "statusLine", "headersComplete", "written"} :
        q[x] = p[x]
  BY <1>1, Zenon
<1>4. /\ q.code = p.code /\ q.deadline = p.deadline /\ q.overflowed = p.overflowed
      /\ q.headersTooLarge = p.headersTooLarge /\ q.refused = p.refused /\ q.admitted = p.admitted
      /\ q.sent = p.sent /\ q.pc = p.pc
  BY <1>3, Zenon DEF Field
<1>5. /\ q.written \in 0 .. Capacity /\ q.headers \subseteq {"last"} /\ q.headersComplete \in BOOLEAN
      /\ q.headersComplete = FALSE => q.written = 0
  <2>1. p.written \in 0 .. Capacity /\ p.headers \subseteq {"last"} /\ p.headersComplete \in BOOLEAN
    BY Zenon DEF Progress
  <2>2. \A line : HeadersAfter(p, line) \subseteq {"last"}
    BY <2>1, Zenon DEF HeadersAfter
  <2>3. CASE \E w \in 0 .. Capacity : /\ p.headersComplete = TRUE
                                        /\ q = [p EXCEPT !["written"] = w]
    <3>1. PICK w \in 0 .. Capacity : /\ p.headersComplete = TRUE
                                     /\ q = [p EXCEPT !["written"] = w]
      BY <2>3, Zenon
    <3>2. q.headersComplete = TRUE /\ q.headers = p.headers /\ q.written = w
      BY <1>1, <1>2, <3>1, Zenon
    <3> QED BY <2>1, <3>1, <3>2, Zenon
  <2>4. CASE \E line, n, v : /\ v \in BOOLEAN /\ p.written = 0
                             /\ q = [p EXCEPT !["headerBytes"] = n,
                                              !["headers"] = HeadersAfter(p, line),
                                              !["statusLine"] = TRUE, !["headersComplete"] = v]
    <3>1. PICK line, n, v :
            /\ v \in BOOLEAN /\ p.written = 0
            /\ q = [p EXCEPT !["headerBytes"] = n, !["headers"] = HeadersAfter(p, line),
                             !["statusLine"] = TRUE, !["headersComplete"] = v]
      BY <2>4, Zenon
    <3>2. PICK h : h = HeadersAfter(p, line)
      BY Zenon
    <3>3. h \subseteq {"last"}
      BY <2>2, <3>2, Zenon
    <3>4. q = [p EXCEPT !["headerBytes"] = n, !["headers"] = h, !["statusLine"] = TRUE,
                        !["headersComplete"] = v]
      BY <3>1, <3>2, Zenon
    <3>5. q.headersComplete = v /\ q.headers = h /\ q.written = p.written
      BY <1>1, <1>2, <3>4, Zenon
    <3> QED BY <2>1, <3>1, <3>3, <3>5, Zenon
  <2> QED BY <2>3, <2>4, Zenon
<1> QED BY <1>4, <1>5, Zenon DEF Progress

\* The callbacks, and the end of the transfer.
LEMMA TransferTells ==
  ASSUME IInv, Progressing, NEW t \in Thread,
         \/ \E line : OnHeader(t, line)
         \/ \E bytes \in 1 .. 2 : OnBody(t, bytes)
         \/ OnProgressWithClock(t) \/ TransferEnds(t)
  PROVE  Progressing' /\ \A u \in Thread : Reports(u)
<1>1. PICK p : p = perform[t] /\ IsExchange(p) /\ Progress(p) /\ PerformsOK
  BY Zenon DEF IInv, PerformsOK, ExchangeOK, Progressing
<1>2. DOMAIN p = Field
  BY <1>1, Zenon DEF IsExchange
<1>3. p.pc \in {"connect", "transfer"}
  BY <1>1, Zenon DEF OnHeader, OnBody, OnProgressWithClock, TransferEnds, At
<1>4. ASSUME NEW e, Ending(e, p), Conclude(t, e)
      PROVE  Progressing' /\ \A u \in Thread : Reports(u)
  BY <1>1, <1>3, <1>4, ConcludeTells, Zenon
<1>5. ASSUME NEW q, Goes(t, q), Progress(q), q.pc = "transfer"
      PROVE  Progressing' /\ \A u \in Thread : Reports(u)
  <2>1. Progressing' /\ perform'[t] = q /\ \A u \in Thread \ {t} : perform'[u] = perform[u]
    BY <1>1, <1>5, GoesOn, Zenon
  <2>2. Reports(t)
    BY <1>5, <2>1, Zenon DEF Reports, Returning
  <2> QED BY <2>1, <2>2, OnlyOne, Zenon
<1>6. /\ "code" \in Field /\ "deadline" \in Field /\ "headersTooLarge" \in Field
      /\ "written" \in Field /\ "overflowed" \in Field
  BY Zenon DEF Field
<1>7. ASSUME NEW e, \A x \in Field \ {"code", "deadline", "headersTooLarge", "written", "overflowed"} :
                      e[x] = p[x]
      PROVE  EndsAs(e, p)
  BY <1>7, Zenon DEF EndsAs, Field
<1>8. /\ p.code = None /\ p.deadline = None /\ p.overflowed = FALSE /\ p.headersTooLarge = FALSE
      /\ p.written \in 0 .. Capacity
  BY <1>1, Zenon DEF Progress
<1>9. CASE \E line : OnHeader(t, line)
  <2>1. PICK line : OnHeader(t, line)
    BY <1>9, Zenon
  <2>2. p.pc = "transfer"
    BY <1>1, <2>1, Zenon DEF OnHeader, At
  <2>3. CASE Conclude(t, [p EXCEPT !.headersTooLarge = TRUE, !.code = "write"])
    <3>1. PICK e : e = [p EXCEPT !["headersTooLarge"] = TRUE, !["code"] = "write"] /\ Conclude(t, e)
      BY <2>3, Zenon
    <3>2. /\ \A x \in Field \ {"headersTooLarge", "code"} : e[x] = p[x]
          /\ e["headersTooLarge"] = TRUE /\ e["code"] = "write"
      BY <1>2, <1>6, <3>1, Zenon
    <3>3. EndsAs(e, p)
      BY <1>7, <3>2, Zenon
    <3>4. AtHeader(e, p)
      BY <1>6, <1>8, <2>2, <3>2, Zenon DEF AtHeader
    <3> QED BY <1>4, <3>1, <3>3, <3>4, Zenon DEF Ending
  <2>4. CASE Goes(t, [p EXCEPT !.headerBytes = HeaderBytesAt(p, line),
                               !.headers = HeadersAfter(p, line),
                               !.statusLine = TRUE,
                               !.headersComplete = line = "blank"])
    <3>1. PICK n, v : n = HeaderBytesAt(p, line) /\ v = (line = "blank") /\ v \in BOOLEAN
      BY Zenon
    <3>2. PICK q : /\ q = [p EXCEPT !["headerBytes"] = n, !["headers"] = HeadersAfter(p, line),
                                    !["statusLine"] = TRUE, !["headersComplete"] = v]
                   /\ Goes(t, q)
      BY <2>4, <3>1, Zenon
    <3>3. p.written = 0
      BY <1>1, <2>1, Zenon DEF OnHeader
    <3>4. Progress(q) /\ q.pc = "transfer"
      BY <1>1, <2>2, <3>1, <3>2, <3>3, CallbackTells, Zenon
    <3> QED BY <1>5, <3>2, <3>4, Zenon
  <2> QED BY <1>1, <2>1, <2>3, <2>4, Zenon DEF OnHeader
<1>10. CASE \E bytes \in 1 .. 2 : OnBody(t, bytes)
  <2>1. PICK bytes \in 1 .. 2 : OnBody(t, bytes)
    BY <1>10, Zenon
  <2>2. p.pc = "transfer"
    BY <1>1, <2>1, Zenon DEF OnBody, At
  <2>3. CASE Conclude(t, [p EXCEPT !.written = Capacity, !.overflowed = TRUE, !.code = "write"])
    <3>1. PICK e : /\ e = [p EXCEPT !["written"] = Capacity, !["overflowed"] = TRUE, !["code"] = "write"]
                   /\ Conclude(t, e)
      BY <2>3, Zenon
    <3>2. /\ \A x \in Field \ {"written", "overflowed", "code"} : e[x] = p[x]
          /\ e["written"] = Capacity /\ e["overflowed"] = TRUE /\ e["code"] = "write"
      BY <1>2, <1>6, <3>1, Zenon
    <3>3. EndsAs(e, p)
      BY <1>7, <3>2, Zenon
    <3>4. AtBody(e, p)
      BY <1>6, <1>8, <2>2, <3>2, Zenon DEF AtBody
    <3> QED BY <1>4, <3>1, <3>3, <3>4, Zenon DEF Ending
  <2>4. CASE ~(bytes > Capacity - p.written)
    <3>1. PICK w : w = p.written + bytes
      BY Zenon
    <3>2. w \in 0 .. Capacity
      BY <1>8, <2>1, <2>4, <3>1, TransportAssumption
    <3>3. PICK q : q = [p EXCEPT !["written"] = w] /\ Goes(t, q)
      BY <1>1, <2>1, <2>4, <3>1, Zenon DEF OnBody
    <3>4. p.headersComplete = TRUE
      BY <1>1, <2>1, Zenon DEF OnBody, Progress
    <3>5. Progress(q) /\ q.pc = "transfer"
      BY <1>1, <2>2, <3>2, <3>3, <3>4, CallbackTells, Zenon
    <3> QED BY <1>5, <3>3, <3>5, Zenon
  <2> QED BY <1>1, <2>1, <2>3, <2>4, Zenon DEF OnBody
<1>11. CASE OnProgressWithClock(t)
  <2>1. PICK d : d = IF p.headersComplete THEN "TransferTimeout" ELSE "ResponseTimeout"
    BY Zenon
  <2>2. PICK e : e = [p EXCEPT !["code"] = "aborted", !["deadline"] = d] /\ Conclude(t, e)
    BY <1>1, <1>11, <2>1, Zenon DEF OnProgressWithClock
  <2>3. /\ \A x \in Field \ {"code", "deadline"} : e[x] = p[x]
        /\ e["code"] = "aborted" /\ e["deadline"] = d
    BY <1>2, <1>6, <2>2, Zenon
  <2>4. EndsAs(e, p)
    BY <1>7, <2>3, Zenon
  <2>5. e.headersTooLarge = FALSE /\ e.overflowed = FALSE /\ e.written = p.written
    BY <1>6, <1>8, <2>3, Zenon
  <2>6. AtDeadline(e, p)
    BY <2>1, <2>3, <2>5, Zenon DEF AtDeadline
  <2> QED BY <1>4, <2>2, <2>4, <2>6, Zenon DEF Ending
<1>12. CASE TransferEnds(t)
  <2>1. PICK code \in Codes(p) : Conclude(t, [p EXCEPT !.code = code])
    BY <1>1, <1>12, Zenon DEF TransferEnds
  <2>2. PICK e : e = [p EXCEPT !["code"] = code] /\ Conclude(t, e)
    BY <2>1, Zenon
  <2>3. e["code"] = code /\ \A x \in Field \ {"code"} : e[x] = p[x]
    BY <1>2, <1>6, <2>2, Zenon
  <2>4. EndsAs(e, p)
    BY <1>7, <2>3, Zenon
  <2>5. AtEnd(e, p)
    BY <1>6, <1>8, <2>1, <2>3, Zenon DEF AtEnd
  <2> QED BY <1>4, <2>2, <2>4, <2>5, Zenon DEF Ending
<1> QED BY <1>9, <1>10, <1>11, <1>12, Zenon

\* Every step of every thread keeps how far the exchanges are and tells what it may.
LEMMA StepTells ==
  ASSUME IInv, Progressing, [Next]_transportVars
  PROVE  Progressing' /\ \A u \in Thread : Reports(u)
<1>1. CASE UNCHANGED transportVars
  BY <1>1, Zenon DEF transportVars, Progressing, Reports, Returning
<1>2. CASE Next
  <2>1. PICK t \in Thread : (\E host : Perform(t, host)) \/ Step(t)
    BY <1>2, Zenon DEF Next
  <2>2. CASE (\E host : Perform(t, host)) \/ Acquire(t) \/ BuildHeaders(t) \/ HeadersNotBuilt(t)
    BY <2>2, BeforeTells, Zenon
  <2>3. CASE Reuse(t) \/ \E address : OnOpenSocket(t, address)
    BY <2>3, ConnectTells, Zenon
  <2>4. CASE \/ \E line : OnHeader(t, line)
             \/ \E bytes \in 1 .. 2 : OnBody(t, bytes)
             \/ OnProgressWithClock(t) \/ TransferEnds(t)
    BY <2>4, TransferTells, Zenon
  <2> QED BY <2>1, <2>2, <2>3, <2>4, Zenon DEF Step
<1> QED BY <1>1, <1>2, Zenon

\* No exchange has been made yet.
LEMMA InitProgresses == Init => Progressing
<1> SUFFICES ASSUME Init, NEW t \in Thread PROVE Progress(perform[t])
  BY Zenon DEF Progressing
<1>1. perform[t] = NoExchange
  BY Zenon DEF Init
<1> QED BY <1>1, NoProgress, Zenon

\* What the two properties say of the response that is told.
LEMMA ToldIsRight ==
  ASSUME NEW t \in Thread, Reports(t), Returning(t)
  PROVE  LET p == perform[t]
             r == perform'[t].response
         IN  /\ r.error = "DestinationRefused" <=> p.refused > 0 /\ p.admitted = 0
             /\ r.error = "DestinationRefused" =>
                  ~r.connected /\ r.headers = {} /\ r.bodyBytes = 0
             /\ r.headers \subseteq {"last"}
             /\ r.bodyBytes <= Capacity
             /\ r.overflowed => r.error = None /\ r.bodyBytes = Capacity
             /\ r.error = "TransferTimeout" => r.connected /\ p.headersComplete
             /\ r.error = "ResponseTimeout" => ~p.headersComplete /\ r.bodyBytes = 0
             /\ r.error = "ConnectTimeout" => ~r.connected
<1>1. PICK e : Told(e, perform[t]) /\ perform'[t].response =
                 [error      |-> ErrorOf(e),
                  connected  |-> e.sent,
                  headers    |-> IF AbandonedAtHeaders(e) THEN {} ELSE e.headers,
                  bodyBytes  |-> e.written,
                  overflowed |-> e.overflowed]
  BY Zenon DEF Reports
<1>2. PICK r : r = perform'[t].response
  BY Zenon
<1>3. PICK p : p = perform[t]
  BY Zenon
<1>4. PICK h : h = IF AbandonedAtHeaders(e) THEN {} ELSE e.headers
  BY Zenon
<1>5. /\ r.error = ErrorOf(e) /\ r.connected = e.sent /\ r.headers = h
      /\ r.bodyBytes = e.written /\ r.overflowed = e.overflowed
  BY <1>1, <1>2, <1>4
<1>6. Told(e, p) /\ (h = {} \/ h = e.headers)
  BY <1>1, <1>3, <1>4, Zenon
<1>7. e.written <= Capacity
  BY <1>6, TransportAssumption DEF Told
<1>8. /\ r.error = "DestinationRefused" <=> p.refused > 0 /\ p.admitted = 0
      /\ r.error = "DestinationRefused" => r.connected = FALSE /\ r.headers = {} /\ r.bodyBytes = 0
      /\ r.headers \subseteq {"last"}
      /\ r.bodyBytes <= Capacity
      /\ r.overflowed => r.error = None /\ r.bodyBytes = Capacity
      /\ r.error = "TransferTimeout" => r.connected = TRUE /\ p.headersComplete = TRUE
      /\ r.error = "ResponseTimeout" => p.headersComplete = FALSE /\ r.bodyBytes = 0
      /\ r.error = "ConnectTimeout" => r.connected = FALSE
  BY <1>5, <1>6, <1>7, Zenon DEF Told, AllRefused
<1>9. /\ r.error = "DestinationRefused" => ~r.connected /\ r.headers = {} /\ r.bodyBytes = 0
      /\ r.error = "TransferTimeout" => r.connected /\ p.headersComplete
      /\ r.error = "ResponseTimeout" => ~p.headersComplete /\ r.bodyBytes = 0
      /\ r.error = "ConnectTimeout" => ~r.connected
  BY <1>8, Zenon
<1> QED BY <1>2, <1>3, <1>8, <1>9, Zenon

\* DestinationRefused (Perform's check of refused and admitted after the
\* transfer, CurlTransport.cpp): reported exactly when the policy refused every
\* address there was, and then nothing was sent and nothing is handed up.
THEOREM RefusalsAreExact == Spec => RefusalIsExact
<1>1. Init => IInv /\ Progressing
  BY InitIsOK, InitProgresses, Zenon
<1>2. IInv /\ Progressing /\ [Next]_transportVars => (IInv /\ Progressing)'
  BY StepKeeps, StepTells, Zenon
<1>3. IInv /\ Progressing /\ [Next]_transportVars =>
        [\A t \in Thread : Returning(t) =>
           LET p == perform[t]
               r == perform'[t].response
           IN  /\ r.error = "DestinationRefused" <=> p.refused > 0 /\ p.admitted = 0
               /\ r.error = "DestinationRefused" =>
                    ~r.connected /\ r.headers = {} /\ r.bodyBytes = 0]_transportVars
  BY StepTells, ToldIsRight, Zenon
<1> QED BY <1>1, <1>2, <1>3, PTL DEF Spec, RefusalIsExact

\* The response (OnHeader, OnBody and ClassifyCurlError): headers of the last
\* status line only, a body within the room the caller made, a cut-off body
\* that is no error, the transfer deadline named only with a header block
\* complete, the response deadline only without one, and the connect deadline
\* only when nothing was sent.
THEOREM ResponsesAreOne == Spec => ResponseIsOne
<1>1. Init => IInv /\ Progressing
  BY InitIsOK, InitProgresses
<1>2. IInv /\ Progressing /\ [Next]_transportVars => (IInv /\ Progressing)'
  BY StepKeeps, StepTells
<1>3. IInv /\ Progressing /\ [Next]_transportVars =>
        [\A t \in Thread : Returning(t) =>
           LET p == perform[t]
               r == perform'[t].response
           IN  /\ r.headers \subseteq {"last"}
               /\ r.bodyBytes <= Capacity
               /\ r.overflowed => r.error = None /\ r.bodyBytes = Capacity
               /\ r.error = "TransferTimeout" => r.connected /\ p.headersComplete
               /\ r.error = "ResponseTimeout" => ~p.headersComplete /\ r.bodyBytes = 0
               /\ r.error = "ConnectTimeout" => ~r.connected]_transportVars
  BY StepTells, ToldIsRight, Zenon
<1> QED BY <1>1, <1>2, <1>3, PTL DEF Spec, ResponseIsOne
==============================================================================
