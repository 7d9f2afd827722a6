--------------------------- MODULE SystemInfoProofs ---------------------------
(***************************************************************************)
(* Proofs about the components of QtSystemInfo, for any devices, readings  *)
(* and lists: each component has an inductive invariant, and the           *)
(* properties follow from the one of the component that is looked at.      *)
(***************************************************************************)
EXTENDS BatteryProofs
-----------------------------------------------------------------------------
(***************************************************************************)
(* The network information on Linux, with the wrapper of oFono: the        *)
(* wrapper's list is what oFono has and what is on its way makes of it,    *)
(* what a connected signal needs is watched or polled for, and the values  *)
(* kept are those told.                                                    *)
(***************************************************************************)
Message0 == [kind : {"ModemAdded", "ModemRemoved", "PropertyChanged"}, modem : Modem,
             value : Registration \cup {Net!Unread}]

\* Messages that lead from one list of modems to another.
Track(f, list, ms) ==
  /\ f \in [0 .. Len(ms) -> Seq(Modem)] /\ f[0] = list
  /\ \A n \in 1 .. Len(ms) : f[n] = Net!Apply(f[n - 1], ms[n])
Leads(list, ms, end) == \E f : Track(f, list, ms) /\ f[Len(ms)] = end

ListInv ==
  wrapper.watchAllModems /\ ~wrapper.missed => Leads(wrapper.allModemPaths, messages, netModems)

LEMMA RemoveFirstTyped ==
  ASSUME NEW S, NEW s \in Seq(S), NEW e
  PROVE  Net!RemoveFirst(s, e) \in Seq(S)
<1>1. CASE \E i \in 1 .. Len(s) : s[i] = e
  <2> DEFINE I == {i \in 1 .. Len(s) : s[i] = e}
  <2>1. I \subseteq Nat /\ I # {}
    BY <1>1
  <2>2. PICK j \in I : \A y \in I : j <= y
    BY <2>1, LeastNat
  <2>3. \A x \in I : (\A y \in I : x <= y) => x = j
    BY <2>1, <2>2
  <2>4. Net!Min(I) = j
    BY <2>2, <2>3 DEF Net!Min
  <2>5. Net!SelectInSeq(s, LAMBDA v : v = e) = j
    BY <2>1, <2>4 DEF Net!SelectInSeq
  <2>6. j \in 1 .. Len(s)
    OBVIOUS
  <2> HIDE DEF I
  <2>7. SubSeq(s, 1, j - 1) \in Seq(S)
    BY <2>6
  <2>8. SubSeq(s, j + 1, Len(s)) \in Seq(S)
    BY <2>6
  <2>9. Net!RemoveFirst(s, e) = SubSeq(s, 1, j - 1) \o SubSeq(s, j + 1, Len(s))
    BY <1>1, <2>5 DEF Net!RemoveFirst, Net!RemoveAt
  <2> QED BY <2>7, <2>8, <2>9
<1>2. CASE ~ \E i \in 1 .. Len(s) : s[i] = e
  BY <1>2 DEF Net!RemoveFirst
<1> QED BY <1>1, <1>2

LEMMA ApplyTyped ==
  ASSUME NEW list \in Seq(Modem), NEW message \in Message0
  PROVE  Net!Apply(list, message) \in Seq(Modem)
<1>1. message.modem \in Modem
  BY DEF Message0
<1>2. Append(list, message.modem) \in Seq(Modem)
  BY <1>1
<1>3. Net!RemoveFirst(list, message.modem) \in Seq(Modem)
  BY RemoveFirstTyped
<1>4. message.kind \in {"ModemAdded", "ModemRemoved", "PropertyChanged"}
  BY DEF Message0
<1> QED BY <1>2, <1>3, <1>4 DEF Net!Apply

LEMMA LeadsNowhere ==
  ASSUME NEW list \in Seq(Modem)
  PROVE  Leads(list, <<>>, list)
<1> DEFINE f == [n \in 0 .. 0 |-> list]
<1>1. Track(f, list, <<>>) /\ f[Len(<<>>)] = list
  BY DEF Track
<1> QED BY <1>1 DEF Leads

LEMMA LeadsTyped ==
  ASSUME NEW list, NEW ms \in Seq(Message0), NEW end, Leads(list, ms, end)
  PROVE  list \in Seq(Modem) /\ end \in Seq(Modem)
<1>1. PICK f : Track(f, list, ms) /\ f[Len(ms)] = end
  BY DEF Leads
<1>2. Len(ms) \in Nat
  OBVIOUS
<1> QED BY <1>1, <1>2 DEF Track

\* One more message leads one step further.
LEMMA LeadsAppend ==
  ASSUME NEW list, NEW ms \in Seq(Message0), NEW end, Leads(list, ms, end), NEW m \in Message0
  PROVE  Leads(list, Append(ms, m), Net!Apply(end, m))
<1>1. PICK f : Track(f, list, ms) /\ f[Len(ms)] = end
  BY DEF Leads
<1> DEFINE N == Len(ms)
           g == [n \in 0 .. N + 1 |-> IF n = N + 1 THEN Net!Apply(end, m) ELSE f[n]]
           mm == Append(ms, m)
<1>2. N \in Nat /\ Len(mm) = N + 1 /\ mm[N + 1] = m /\ \A n \in 1 .. N : mm[n] = ms[n]
  OBVIOUS
<1>3. end \in Seq(Modem)
  BY LeadsTyped
<1>4. Net!Apply(end, m) \in Seq(Modem)
  BY <1>3, ApplyTyped
<1>5. f \in [0 .. N -> Seq(Modem)] /\ f[0] = list /\ f[N] = end
      /\ \A n \in 1 .. N : f[n] = Net!Apply(f[n - 1], ms[n])
  BY <1>1 DEF Track
<1> HIDE DEF N, mm
<1>6. g \in [0 .. N + 1 -> Seq(Modem)] /\ g[N + 1] = Net!Apply(end, m)
      /\ \A n \in 0 .. N : g[n] = f[n]
  BY <1>2, <1>4, <1>5
<1> HIDE DEF g
<1>7. ASSUME NEW n \in 1 .. N + 1 PROVE g[n] = Net!Apply(g[n - 1], mm[n])
  <2>1. CASE n = N + 1
    <3>1. n - 1 = N /\ N \in 0 .. N
      BY <1>2, <2>1
    <3>2. g[n - 1] = end
      BY <1>5, <1>6, <3>1
    <3>3. g[n] = Net!Apply(end, m) /\ mm[n] = m
      BY <1>2, <1>6, <2>1
    <3> QED BY <3>2, <3>3
  <2>2. CASE n # N + 1
    <3> DEFINE k == n - 1
    <3>1. n \in 1 .. N /\ k \in 0 .. N /\ n \in 0 .. N
      BY <1>2, <2>2
    <3>2. f[n] = Net!Apply(f[k], ms[n])
      BY <1>5, <3>1
    <3> HIDE DEF k
    <3>3. g[n] = f[n] /\ g[k] = f[k] /\ mm[n] = ms[n]
      BY <1>2, <1>6, <3>1
    <3>4. g[n] = Net!Apply(g[k], mm[n])
      BY <3>2, <3>3
    <3> QED BY <3>4 DEF k
  <2> QED BY <2>1, <2>2
<1>8. Track(g, list, mm) /\ g[Len(mm)] = Net!Apply(end, m)
  BY <1>2, <1>5, <1>6, <1>7 DEF Track
<1> QED BY <1>8 DEF Leads, mm

\* The first message handled, the others lead on from there.
LEMMA LeadsTail ==
  ASSUME NEW list, NEW ms \in Seq(Message0), NEW end, Leads(list, ms, end), ms # <<>>
  PROVE  Leads(Net!Apply(list, Head(ms)), Tail(ms), end)
<1>1. PICK f : Track(f, list, ms) /\ f[Len(ms)] = end
  BY DEF Leads
<1> DEFINE N == Len(ms)
           g == [n \in 0 .. N - 1 |-> f[n + 1]]
           mm == Tail(ms)
<1>2. N \in Nat /\ N > 0 /\ Len(mm) = N - 1 /\ Head(ms) = ms[1]
      /\ \A n \in 1 .. N - 1 : mm[n] = ms[n + 1]
  OBVIOUS
<1>5. f \in [0 .. N -> Seq(Modem)] /\ f[0] = list /\ f[N] = end
      /\ \A n \in 1 .. N : f[n] = Net!Apply(f[n - 1], ms[n])
  BY <1>1 DEF Track
<1> HIDE DEF N, mm
<1>6. g \in [0 .. N - 1 -> Seq(Modem)] /\ \A n \in 0 .. N - 1 : g[n] = f[n + 1]
  BY <1>2, <1>5
<1> HIDE DEF g
<1>7. g[0] = Net!Apply(list, Head(ms))
  <2>1. 0 \in 0 .. N - 1 /\ 0 + 1 = 1 /\ 1 \in 1 .. N /\ 1 - 1 = 0
    BY <1>2
  <2> QED BY <1>2, <1>5, <1>6, <2>1
<1>8. g[N - 1] = end
  <2>1. N - 1 \in 0 .. N - 1 /\ (N - 1) + 1 = N
    BY <1>2
  <2> QED BY <1>5, <1>6, <2>1
<1>9. ASSUME NEW n \in 1 .. N - 1 PROVE g[n] = Net!Apply(g[n - 1], mm[n])
  <2> DEFINE k == n - 1
             j == n + 1
  <2>1. k \in 0 .. N - 1 /\ k + 1 = n /\ n \in 0 .. N - 1 /\ j \in 1 .. N /\ j - 1 = n
    BY <1>2
  <2>2. f[j] = Net!Apply(f[n], ms[j])
    BY <1>5, <2>1
  <2>3. g[k] = f[n] /\ g[n] = f[j] /\ mm[n] = ms[j]
    BY <1>2, <1>6, <2>1
  <2> HIDE DEF k, j
  <2>4. g[n] = Net!Apply(g[k], mm[n])
    BY <2>2, <2>3
  <2> QED BY <2>4 DEF k
<1>10. Track(g, Net!Apply(list, Head(ms)), mm) /\ g[Len(mm)] = end
  BY <1>2, <1>6, <1>7, <1>8, <1>9 DEF Track
<1> QED BY <1>10 DEF Leads, mm

\* What Ask leaves of the messages, one after the other.
Heard(h, ms) ==
  /\ h \in [0 .. Len(ms) -> Seq(Message0)] /\ h[0] = <<>>
  /\ \A n \in 1 .. Len(ms) : h[n] = IF Net!Hooked(ms[n]) THEN Append(h[n - 1], ms[n]) ELSE h[n - 1]

LEMMA AskHeard ==
  ASSUME messages \in Seq(Message0), Net!Ask
  PROVE  \E h : Heard(h, messages) /\ messages' = h[Len(messages)]
<1> DEFINE N == Len(messages)
           S == Seq(Message0)
           g == [p \in Nat \X S |-> IF p[1] \in 1 .. N /\ Net!Hooked(messages[p[1]])
                                      THEN Append(p[2], messages[p[1]]) ELSE p[2]]
           Is(f) == f = [n \in 0 .. N |->
                           IF n = 0 THEN <<>>
                           ELSE IF Net!Hooked(messages[n]) THEN Append(f[n - 1], messages[n])
                                ELSE f[n - 1]]
           copied == CHOOSE f : Is(f)
<1>0. N \in Nat /\ \A n \in 1 .. N : messages[n] \in Message0
  OBVIOUS
<1>1. g \in [Nat \X S -> S]
  <2> SUFFICES ASSUME NEW p \in Nat \X S
      PROVE  (IF p[1] \in 1 .. N /\ Net!Hooked(messages[p[1]])
                THEN Append(p[2], messages[p[1]]) ELSE p[2]) \in S
    OBVIOUS
  <2>1. p[2] \in S
    OBVIOUS
  <2>2. CASE p[1] \in 1 .. N /\ Net!Hooked(messages[p[1]])
    <3>1. messages[p[1]] \in Message0
      BY <1>0, <2>2
    <3>2. Append(p[2], messages[p[1]]) \in S
      BY <2>1, <3>1
    <3> QED BY <2>2, <3>2
  <2>3. CASE ~ (p[1] \in 1 .. N /\ Net!Hooked(messages[p[1]]))
    BY <2>1, <2>3
  <2> QED BY <2>2, <2>3
<1>2. \A n \in 1 .. N, s \in S : g[<<n, s>>] = IF Net!Hooked(messages[n]) THEN Append(s,
                                 messages[n]) ELSE s
  <2> SUFFICES ASSUME NEW n \in 1 .. N, NEW s \in S
      PROVE  g[<<n, s>>] = IF Net!Hooked(messages[n]) THEN Append(s, messages[n]) ELSE s
    OBVIOUS
  <2>1. n \in Nat /\ <<n, s>> \in Nat \X S
    OBVIOUS
  <2> HIDE DEF S, N
  <2> QED BY <2>1
<1> HIDE DEF g
<1>3. PICK f0 \in [0 .. N -> S] : f0[0] = <<>> /\ \A n \in 1 .. N : f0[n] = g[<<n, f0[n - 1]>>]
  <2>1. <<>> \in S
    OBVIOUS
  <2> HIDE DEF S
  <2>2. Recursive(S, <<>>, g, N)
    BY <1>0, <1>1, <2>1 DEF Recursive
  <2>3. \E f : Iterates(f, S, <<>>, g, N)
    BY <2>2, Recursion
  <2> QED BY <2>3 DEF Iterates
<1> HIDE DEF S
<1>4. ASSUME NEW n \in 0 .. N
      PROVE  f0[n] = IF n = 0 THEN <<>>
                     ELSE IF Net!Hooked(messages[n]) THEN Append(f0[n - 1], messages[n])
                     ELSE f0[n - 1]
  <2>1. CASE n = 0
    BY <1>3, <2>1
  <2>2. CASE n # 0
    <3> HIDE DEF N
    <3>1. n \in 1 .. N /\ n \in Nat /\ n - 1 \in 0 .. N
      BY <1>0, <2>2
    <3>2. f0[n - 1] \in S /\ f0[n] = g[<<n, f0[n - 1]>>]
      BY <1>3, <3>1
    <3> QED BY <1>2, <2>2, <3>1, <3>2
  <2> QED BY <2>1, <2>2
<1>5. Is(f0)
  BY <1>3, <1>4
<1>6. Is(copied)
  BY <1>5
<1>7. messages' = copied[N]
  BY DEF Net!Ask
<1> HIDE DEF copied
<1>8. \A n \in 0 .. N :
        copied[n] = IF n = 0 THEN <<>>
                   ELSE IF Net!Hooked(messages[n]) THEN Append(copied[n - 1], messages[n])
                   ELSE copied[n - 1]
  BY <1>6
<1> HIDE DEF N, Is
<1> DEFINE P == {n \in Nat : n <= N => copied[n] \in S}
<1>9. 0 \in P
  <2>1. copied[0] = <<>>
    BY <1>0, <1>8
  <2>2. <<>> \in S
    BY DEF S
  <2> QED BY <2>1, <2>2
<1>10. ASSUME NEW n \in P PROVE n + 1 \in P
  <2>1. SUFFICES ASSUME n + 1 <= N PROVE copied[n + 1] \in S
    OBVIOUS
  <2>2. copied[n] \in S
    BY <1>0, <2>1
  <2> DEFINE k == n + 1
  <2>3. k \in 0 .. N /\ k # 0 /\ k - 1 = n /\ k \in 1 .. N
    BY <1>0, <2>1
  <2> HIDE DEF k, P
  <2>4. messages[k] \in Message0
    BY <1>0, <2>3
  <2>5. copied[k] = IF Net!Hooked(messages[k]) THEN Append(copied[n], messages[k]) ELSE copied[n]
    BY <1>8, <2>3
  <2>6. Append(copied[n], messages[k]) \in S
    BY <2>2, <2>4 DEF S
  <2>7. copied[k] \in S
    BY <2>2, <2>5, <2>6
  <2> QED BY <2>7 DEF k
<1>11. P = Nat
  <2>1. P \subseteq Nat
    OBVIOUS
  <2> HIDE DEF P
  <2> QED BY <1>9, <1>10, <2>1, SetInduction
<1>12. \A n \in 0 .. N : copied[n] \in S
  BY <1>0, <1>11
<1>13. copied = [n \in 0 .. N |-> copied[n]]
  <2>1. copied = [n \in 0 .. N |->
                   IF n = 0 THEN <<>>
                   ELSE IF Net!Hooked(messages[n]) THEN Append(copied[n - 1], messages[n])
                        ELSE copied[n - 1]]
    BY <1>6 DEF Is
  <2> QED BY <2>1
<1>14. copied \in [0 .. N -> S]
  BY <1>12, <1>13
<1>15. ASSUME NEW n \in 1 .. N
       PROVE  copied[n] = IF Net!Hooked(messages[n]) THEN Append(copied[n - 1], messages[n])
                                                ELSE copied[n - 1]
  <2>1. n \in 0 .. N /\ n # 0
    BY <1>0
  <2> QED BY <1>8, <2>1
<1>16. copied[0] = <<>>
  BY <1>0, <1>8
<1>17. Heard(copied, messages)
  BY <1>14, <1>15, <1>16 DEF Heard, N, S
<1>18. messages' = copied[Len(messages)]
  BY <1>7 DEF N
<1> QED BY <1>17, <1>18

\* Dropping what leads nowhere: what is heard leads where the list of lists f says.
LEMMA AskLeads ==
  ASSUME NEW ms \in Seq(Message0), NEW h, Heard(h, ms),
         NEW f \in [0 .. Len(ms) -> Seq(Modem)],
         \A n \in 1 .. Len(ms) : f[n] = IF Net!Hooked(ms[n]) THEN Net!Apply(f[n - 1], ms[n])
                                 ELSE f[n - 1]
  PROVE  h[Len(ms)] \in Seq(Message0) /\ Leads(f[0], h[Len(ms)], f[Len(ms)])
<1> DEFINE N == Len(ms)
           P == {n \in Nat : n <= N => Leads(f[0], h[n], f[n])}
<1>0. N \in Nat /\ \A n \in 1 .. N : ms[n] \in Message0
  OBVIOUS
<1>1. h \in [0 .. N -> Seq(Message0)] /\ h[0] = <<>>
      /\ \A n \in 1 .. N : h[n] = IF Net!Hooked(ms[n]) THEN Append(h[n - 1], ms[n]) ELSE h[n - 1]
  BY DEF Heard
<1>2. f \in [0 .. N -> Seq(Modem)]
      /\ \A n \in 1 .. N : f[n] = IF Net!Hooked(ms[n]) THEN Net!Apply(f[n - 1], ms[n]) ELSE f[n - 1]
  OBVIOUS
<1> HIDE DEF N
<1>3. 0 \in P
  <2>1. f[0] \in Seq(Modem)
    BY <1>0, <1>2
  <2>2. Leads(f[0], <<>>, f[0])
    BY <2>1, LeadsNowhere
  <2> QED BY <1>1, <2>2
<1>4. ASSUME NEW n \in P PROVE n + 1 \in P
  <2>1. SUFFICES ASSUME n + 1 <= N PROVE Leads(f[0], h[n + 1], f[n + 1])
    OBVIOUS
  <2>2. Leads(f[0], h[n], f[n])
    BY <1>0, <2>1
  <2> DEFINE k == n + 1
  <2>3. n \in 0 .. N /\ k - 1 = n /\ k \in 1 .. N
    BY <1>0, <2>1
  <2> HIDE DEF k, P
  <2>4. ms[k] \in Message0 /\ h[n] \in Seq(Message0)
    BY <1>0, <1>1, <2>3
  <2>5. /\ h[k] = IF Net!Hooked(ms[k]) THEN Append(h[n], ms[k]) ELSE h[n]
        /\ f[k] = IF Net!Hooked(ms[k]) THEN Net!Apply(f[n], ms[k]) ELSE f[n]
    BY <1>1, <1>2, <2>3
  <2>6. Leads(f[0], Append(h[n], ms[k]), Net!Apply(f[n], ms[k]))
    BY <2>2, <2>4, LeadsAppend
  <2>7. Leads(f[0], h[k], f[k])
    BY <2>2, <2>5, <2>6
  <2> QED BY <2>7 DEF k
<1>5. P = Nat
  <2>1. P \subseteq Nat
    OBVIOUS
  <2> HIDE DEF P
  <2> QED BY <1>3, <1>4, <2>1, SetInduction
<1>6. N \in P /\ N \in 0 .. N
  BY <1>0, <1>5
<1>7. Leads(f[0], h[N], f[N]) /\ h[N] \in Seq(Message0)
  BY <1>0, <1>1, <1>6
<1> QED BY <1>7 DEF N

\* The recursion of ModemListFollows gives what the messages lead to.
LEMMA ListFollows ==
  ASSUME messages \in Seq(Message0), ListInv
  PROVE  Net!ModemListFollows
<1> SUFFICES ASSUME wrapper.watchAllModems, ~wrapper.missed PROVE Net!ModemListFollows
  BY DEF Net!ModemListFollows
<1>1. PICK f0 : Track(f0, wrapper.allModemPaths, messages) /\ f0[Len(messages)] = netModems
  BY DEF ListInv, Leads
<1> DEFINE N == Len(messages)
           Is(f) == f = [n \in 0 .. N |-> IF n = 0 THEN wrapper.allModemPaths
                                          ELSE Net!Apply(f[n - 1], messages[n])]
           list == CHOOSE f : Is(f)
<1>0. N \in Nat
  OBVIOUS
<1>2. f0 \in [0 .. N -> Seq(Modem)] /\ f0[0] = wrapper.allModemPaths
      /\ \A n \in 1 .. N : f0[n] = Net!Apply(f0[n - 1], messages[n])
  BY <1>1 DEF Track
<1>3. \A n \in 0 .. N : f0[n] = IF n = 0 THEN wrapper.allModemPaths
                                ELSE Net!Apply(f0[n - 1], messages[n])
  <2> HIDE DEF N
  <2> SUFFICES ASSUME NEW n \in 0 .. N
      PROVE  f0[n] = IF n = 0 THEN wrapper.allModemPaths ELSE Net!Apply(f0[n - 1], messages[n])
    OBVIOUS
  <2>1. CASE n = 0
    BY <1>2, <2>1
  <2>2. CASE n # 0
    <3>1. n \in 1 .. N
      BY <1>0, <2>2
    <3>2. f0[n] = Net!Apply(f0[n - 1], messages[n])
      BY <1>2, <3>1
    <3> QED BY <2>2, <3>2
  <2> QED BY <2>1, <2>2
<1>4. Is(f0)
  BY <1>2, <1>3
<1>5. Is(list)
  BY <1>4
<1>6. Net!ModemListFollows <=> list[N] = netModems
  BY DEF Net!ModemListFollows
<1> HIDE DEF list
<1>7. \A n \in 0 .. N : list[n] = IF n = 0 THEN wrapper.allModemPaths
                                  ELSE Net!Apply(list[n - 1], messages[n])
  BY <1>5
<1> HIDE DEF N, Is
<1> DEFINE P == {n \in Nat : n <= N => list[n] = f0[n]}
<1>8. 0 \in P
  BY <1>0, <1>2, <1>7
<1>9. ASSUME NEW n \in P PROVE n + 1 \in P
  <2>1. SUFFICES ASSUME n + 1 <= N PROVE list[n + 1] = f0[n + 1]
    OBVIOUS
  <2>2. list[n] = f0[n]
    BY <1>0, <2>1
  <2> DEFINE k == n + 1
  <2>3. k \in 0 .. N /\ k # 0 /\ k - 1 = n
    BY <1>0, <2>1
  <2> HIDE DEF k, P
  <2>4. list[k] = f0[k]
    BY <1>3, <1>7, <2>2, <2>3
  <2> QED BY <2>4 DEF k
<1>10. P = Nat
  <2>1. P \subseteq Nat
    OBVIOUS
  <2> HIDE DEF P
  <2> QED BY <1>8, <1>9, <2>1, SetInduction
<1>11. list[N] = f0[N]
  BY <1>0, <1>10
<1> QED BY <1>1, <1>6, <1>11 DEF N

-----------------------------------------------------------------------------
\* The wrapper's part of the invariant, and its steps.
OfonoInv == Net!OfonoTypeOK /\ ListInv

LEMMA AskTyped ==
  ASSUME messages \in Seq(Message0), Net!Ask
  PROVE  messages' \in Seq(Message0)
<1>1. PICK h : Heard(h, messages) /\ messages' = h[Len(messages)]
  BY AskHeard
<1>2. Len(messages) \in 0 .. Len(messages)
  OBVIOUS
<1> QED BY <1>1, <1>2 DEF Heard

LEMMA ApplyNothing ==
  ASSUME NEW list, NEW m \in Message0, m.kind # "ModemAdded", m.kind # "ModemRemoved"
  PROVE  Net!Apply(list, m) = list
  BY DEF Net!Apply

LEMMA KindIs ==
  ASSUME NEW m \in Message0
  PROVE  m.kind \in {"ModemAdded", "ModemRemoved", "PropertyChanged"} /\ m.modem \in Modem
  BY DEF Message0

LEMMA OfonoStarts == Net!OfonoInit => OfonoInv /\ ~wrapper.watchAllModems
<1> SUFFICES ASSUME Net!OfonoInit PROVE OfonoInv /\ ~wrapper.watchAllModems
  OBVIOUS
<1>1. netModems \in Seq(Modem)
  <2>1. netModems = <<>> \/ \E m \in Modem : netModems = <<m>>
    BY DEF Net!OfonoInit
  <2>2. ASSUME NEW m \in Modem, netModems = <<m>> PROVE netModems \in Seq(Modem)
    BY <2>2
  <2>3. CASE netModems = <<>>
    BY <2>3
  <2> QED BY <2>1, <2>2, <2>3
<1> DEFINE none == [m \in Modem |-> Net!Unread]
<1>2. none \in [Modem -> Registration \cup {Net!Unread}]
  OBVIOUS
<1>3. wrapper = [watchAllModems |-> FALSE, allModemPaths |-> <<>>,
                 watchProperties |-> FALSE, cached |-> none, matched |-> {},
                 asked |-> {}, askedOf |-> {}, missed |-> FALSE]
  BY DEF Net!OfonoInit, Net!NoWrapper
<1> HIDE DEF none
<1>4. wrapper \in Net!Wrapper /\ ~wrapper.watchAllModems
  BY <1>2, <1>3 DEF Net!Wrapper
<1> QED BY <1>1, <1>4 DEF Net!OfonoInit, OfonoInv, Net!OfonoTypeOK, ListInv

\* What of the wrapper changes.
Announced == {"ModemAdded", "ModemRemoved"}
WrapperIs(watch, paths, withChanges, kept, matches, asks, asksOf, misses) ==
  [watchAllModems |-> watch, allModemPaths |-> paths, watchProperties |-> withChanges,
   cached |-> kept, matched |-> matches, asked |-> asks, askedOf |-> asksOf, missed |-> misses]

LEMMA NetWrapperTyped ==
  ASSUME NEW watch \in BOOLEAN, NEW paths \in Seq(Modem), NEW withChanges \in BOOLEAN,
         NEW kept \in [Modem -> Registration \cup {Net!Unread}], NEW matches \in SUBSET Modem,
         NEW asks \in SUBSET Announced, NEW asksOf \in SUBSET Modem, NEW misses \in BOOLEAN
  PROVE  WrapperIs(watch, paths, withChanges, kept, matches, asks, asksOf, misses) \in Net!Wrapper
  BY DEF WrapperIs, Net!Wrapper, Announced

LEMMA WrapperParts ==
  ASSUME NEW w \in Net!Wrapper
  PROVE  /\ w.watchAllModems \in BOOLEAN /\ w.allModemPaths \in Seq(Modem)
         /\ w.watchProperties \in BOOLEAN /\ w.cached \in [Modem -> Registration \cup {Net!Unread}]
         /\ w.matched \in SUBSET Modem
         /\ w.asked \in SUBSET Announced /\ w.askedOf \in SUBSET Modem /\ w.missed \in BOOLEAN
         /\ w = WrapperIs(w.watchAllModems, w.allModemPaths, w.watchProperties, w.cached,
                          w.matched, w.asked, w.askedOf, w.missed)
  BY DEF WrapperIs, Net!Wrapper, Announced

LEMMA CountConnected ==
  ASSUME OfonoInv, Net!ConnectCount, ~wrapper.watchAllModems
  PROVE  OfonoInv'
<1>1. Net!OfonoTypeOK /\ messages \in Seq(Message0) /\ netModems \in Seq(Modem)
      /\ wrapper \in Net!Wrapper
  BY DEF OfonoInv, Net!OfonoTypeOK, Message0
<1>2. wrapper' = WrapperIs(TRUE, netModems, wrapper.watchProperties, wrapper.cached,
      wrapper.matched, Announced, wrapper.askedOf, FALSE)
  BY <1>1 DEF Net!ConnectCount, WrapperIs, Net!Wrapper, Announced
<1>3. wrapper' \in Net!Wrapper
  BY <1>1, <1>2, WrapperParts, NetWrapperTyped
<1>4. PICK h : Heard(h, messages) /\ messages' = h[Len(messages)]
  BY <1>1, AskHeard DEF Net!ConnectCount
<1> DEFINE f == [n \in 0 .. Len(messages) |-> netModems]
<1>5. \A n \in 1 .. Len(messages) : f[n] = IF Net!Hooked(messages[n]) THEN Net!Apply(f[n - 1],
                                    messages[n])
                                                                 ELSE f[n - 1]
  <2> SUFFICES ASSUME NEW n \in 1 .. Len(messages), Net!Hooked(messages[n])
      PROVE  f[n] = Net!Apply(f[n - 1], messages[n])
    OBVIOUS
  <2>1. messages[n] \in Message0
    BY <1>1
  <2>2. messages[n].kind = "PropertyChanged"
    BY <2>1, KindIs DEF Net!Hooked
  <2>3. Net!Apply(netModems, messages[n]) = netModems
    BY <2>1, <2>2, ApplyNothing
  <2> QED BY <2>3
<1>6. f \in [0 .. Len(messages) -> Seq(Modem)] /\ f[0] = netModems /\ f[Len(messages)] = netModems
  BY <1>1
<1> HIDE DEF f
<1>7. messages' \in Seq(Message0) /\ Leads(netModems, messages', netModems)
  BY <1>1, <1>4, <1>5, <1>6, AskLeads
<1>8. ListInv'
  BY <1>2, <1>7 DEF ListInv, Net!ConnectCount, Net!world, WrapperIs
<1> QED
  BY <1>1, <1>3, <1>7, <1>8 DEF OfonoInv, Net!OfonoTypeOK, Net!ConnectCount, Net!world, Message0

LEMMA ModemsKnown ==
  ASSUME OfonoInv
  PROVE  Net!AllModems \in Seq(Modem) /\ Net!ToSet(Net!AllModems) \subseteq Modem
<1>1. Net!AllModems \in Seq(Modem)
  BY WrapperParts DEF OfonoInv, Net!OfonoTypeOK, Net!AllModems
<1> QED BY <1>1 DEF Net!ToSet

LEMMA PropertyConnected ==
  ASSUME OfonoInv, Net!ConnectProperty
  PROVE  OfonoInv' /\ (wrapper'.watchAllModems <=> wrapper.watchAllModems)
<1>1. /\ messages \in Seq(Message0) /\ netModems \in Seq(Modem) /\ wrapper \in Net!Wrapper
      /\ registration \in [Modem -> Registration]
  BY DEF OfonoInv, Net!OfonoTypeOK, Message0
<1> DEFINE known == Net!ToSet(Net!AllModems)
           kept == [m \in Modem |-> IF m \in known /\ Net!Contains(netModems, m)
                                      THEN registration[m] ELSE Net!Unread]
           matches == wrapper.matched \cup known
           asksOf == known \ wrapper.matched
<1>2. wrapper' = WrapperIs(wrapper.watchAllModems, wrapper.allModemPaths, TRUE, kept, matches,
                           wrapper.asked, asksOf, wrapper.missed)
  BY <1>1 DEF Net!ConnectProperty, WrapperIs, Net!Wrapper
<1>3. kept \in [Modem -> Registration \cup {Net!Unread}]
  BY <1>1
<1>4. matches \in SUBSET Modem /\ asksOf \in SUBSET Modem
  BY <1>1, WrapperParts, ModemsKnown
<1> HIDE DEF kept, matches, asksOf
<1>5. wrapper' \in Net!Wrapper
  BY <1>1, <1>2, <1>3, <1>4, WrapperParts, NetWrapperTyped
<1>6. /\ wrapper'.watchAllModems = wrapper.watchAllModems
      /\ wrapper'.allModemPaths = wrapper.allModemPaths
      /\ wrapper'.missed = wrapper.missed
  BY <1>2 DEF WrapperIs
<1>7. messages' \in Seq(Message0)
  BY <1>1, AskTyped DEF Net!ConnectProperty
<1>8. ASSUME wrapper.watchAllModems, ~wrapper.missed
      PROVE  Leads(wrapper.allModemPaths, messages', netModems)
  <2>1. PICK h : Heard(h, messages) /\ messages' = h[Len(messages)]
    BY <1>1, AskHeard DEF Net!ConnectProperty
  <2>2. PICK f : Track(f, wrapper.allModemPaths, messages) /\ f[Len(messages)] = netModems
    BY <1>8 DEF OfonoInv, ListInv, Leads
  <2>3. f \in [0 .. Len(messages) -> Seq(Modem)] /\ f[0] = wrapper.allModemPaths
        /\ \A n \in 1 .. Len(messages) : f[n] = Net!Apply(f[n - 1], messages[n])
    BY <2>2 DEF Track
  <2>4. ASSUME NEW n \in 1 .. Len(messages)
        PROVE  f[n] = IF Net!Hooked(messages[n]) THEN Net!Apply(f[n - 1], messages[n]) ELSE f[n - 1]
    <3>1. CASE Net!Hooked(messages[n])
      BY <2>3, <3>1
    <3>2. CASE ~Net!Hooked(messages[n])
      <4>1. messages[n] \in Message0
        BY <1>1
      <4>2. messages[n].kind = "PropertyChanged"
        BY <1>8, <3>2, <4>1, KindIs DEF Net!Hooked
      <4>3. Net!Apply(f[n - 1], messages[n]) = f[n - 1]
        BY <4>1, <4>2, ApplyNothing
      <4> QED BY <2>3, <3>2, <4>3
    <3> QED BY <3>1, <3>2
  <2>5. Leads(f[0], h[Len(messages)], f[Len(messages)])
    BY <1>1, <2>1, <2>3, <2>4, AskLeads
  <2> QED BY <2>1, <2>2, <2>3, <2>5
<1>9. ListInv'
  BY <1>6, <1>8 DEF ListInv, Net!ConnectProperty, Net!world
<1> QED
  BY <1>1, <1>5, <1>6, <1>7, <1>9 DEF OfonoInv, Net!OfonoTypeOK, Net!ConnectProperty, Net!world,
    Message0

LEMMA CountDisconnected ==
  ASSUME OfonoInv, Net!DisconnectCount
  PROVE  OfonoInv' /\ ~wrapper'.watchAllModems
<1>1. wrapper \in Net!Wrapper
  BY DEF OfonoInv, Net!OfonoTypeOK
<1>2. wrapper' = WrapperIs(FALSE, wrapper.allModemPaths, wrapper.watchProperties, wrapper.cached,
                           wrapper.matched, {}, wrapper.askedOf, wrapper.missed)
  BY <1>1 DEF Net!DisconnectCount, WrapperIs, Net!Wrapper
<1>3. wrapper' \in Net!Wrapper
  BY <1>1, <1>2, WrapperParts, NetWrapperTyped
<1>4. ~wrapper'.watchAllModems
  BY <1>2 DEF WrapperIs
<1> QED BY <1>3, <1>4 DEF OfonoInv, Net!OfonoTypeOK, ListInv, Net!DisconnectCount, Net!world

LEMMA PropertyDisconnected ==
  ASSUME OfonoInv, Net!DisconnectProperty
  PROVE  OfonoInv' /\ (wrapper'.watchAllModems <=> wrapper.watchAllModems)
<1>1. wrapper \in Net!Wrapper
  BY DEF OfonoInv, Net!OfonoTypeOK
<1> DEFINE matches == wrapper.matched \ Net!ToSet(Net!AllModems)
           asksOf == wrapper.askedOf \ Net!ToSet(Net!AllModems)
<1>2. wrapper' = WrapperIs(wrapper.watchAllModems, wrapper.allModemPaths, wrapper.watchProperties,
                           wrapper.cached, matches, wrapper.asked, asksOf, wrapper.missed)
  BY <1>1 DEF Net!DisconnectProperty, WrapperIs, Net!Wrapper
<1>3. matches \in SUBSET Modem /\ asksOf \in SUBSET Modem
  BY <1>1, WrapperParts
<1> HIDE DEF matches, asksOf
<1>4. wrapper' \in Net!Wrapper
  BY <1>1, <1>2, <1>3, WrapperParts, NetWrapperTyped
<1>5. /\ wrapper'.watchAllModems = wrapper.watchAllModems
      /\ wrapper'.allModemPaths = wrapper.allModemPaths
      /\ wrapper'.missed = wrapper.missed
  BY <1>2 DEF WrapperIs
<1> QED BY <1>4, <1>5 DEF OfonoInv, Net!OfonoTypeOK, ListInv, Net!DisconnectProperty, Net!world

LEMMA MatchesAdded ==
  ASSUME OfonoInv, Net!AddMatch
  PROVE  OfonoInv' /\ (wrapper'.watchAllModems <=> wrapper.watchAllModems)
<1>1. wrapper \in Net!Wrapper
  BY DEF OfonoInv, Net!OfonoTypeOK
<1>2. \E asks \in SUBSET Announced, asksOf \in SUBSET Modem :
        wrapper' = WrapperIs(wrapper.watchAllModems, wrapper.allModemPaths, wrapper.watchProperties,
                             wrapper.cached, wrapper.matched, asks, asksOf, wrapper.missed)
  <2>1. ASSUME NEW kind \in wrapper.asked,
               wrapper' = [wrapper EXCEPT !.asked = @ \ {kind}]
        PROVE  wrapper' = WrapperIs(wrapper.watchAllModems, wrapper.allModemPaths,
                 wrapper.watchProperties, wrapper.cached, wrapper.matched,
                 wrapper.asked \ {kind}, wrapper.askedOf, wrapper.missed)
    BY <1>1, <2>1 DEF WrapperIs, Net!Wrapper
  <2>2. ASSUME NEW m \in wrapper.askedOf,
               wrapper' = [wrapper EXCEPT !.askedOf = @ \ {m}]
        PROVE  wrapper' = WrapperIs(wrapper.watchAllModems, wrapper.allModemPaths,
                 wrapper.watchProperties, wrapper.cached, wrapper.matched,
                 wrapper.asked, wrapper.askedOf \ {m}, wrapper.missed)
    BY <1>1, <2>2 DEF WrapperIs, Net!Wrapper
  <2>3. wrapper.asked \in SUBSET Announced /\ wrapper.askedOf \in SUBSET Modem
    BY <1>1, WrapperParts
  <2>4. (\A kind : wrapper.asked \ {kind} \in SUBSET Announced)
        /\ \A m : wrapper.askedOf \ {m} \in SUBSET Modem
    BY <2>3
  <2> QED BY <2>1, <2>2, <2>3, <2>4 DEF Net!AddMatch
<1>3. PICK asks \in SUBSET Announced, asksOf \in SUBSET Modem :
        wrapper' = WrapperIs(wrapper.watchAllModems, wrapper.allModemPaths, wrapper.watchProperties,
                             wrapper.cached, wrapper.matched, asks, asksOf, wrapper.missed)
  BY <1>2
<1>4. wrapper' \in Net!Wrapper
  BY <1>1, <1>3, WrapperParts, NetWrapperTyped
<1>5. /\ wrapper'.watchAllModems = wrapper.watchAllModems
      /\ wrapper'.allModemPaths = wrapper.allModemPaths
      /\ wrapper'.missed = wrapper.missed
  BY <1>3 DEF WrapperIs
<1> QED BY <1>4, <1>5 DEF OfonoInv, Net!OfonoTypeOK, ListInv, Net!AddMatch, Net!world

LEMMA ModemsChange ==
  ASSUME OfonoInv, NEW m \in Modem,
         Net!AddModem(m) \/ Net!RemoveModem(m) \/ \E r \in Registration : Net!Register(m, r)
  PROVE  OfonoInv' /\ (wrapper'.watchAllModems <=> wrapper.watchAllModems)
<1>1. /\ messages \in Seq(Message0) /\ netModems \in Seq(Modem) /\ wrapper \in Net!Wrapper
      /\ registration \in [Modem -> Registration]
  BY DEF OfonoInv, Net!OfonoTypeOK, Message0
<1>2. ASSUME NEW kind \in Announced, Net!Announce(kind, m),
             netModems' = Net!Apply(netModems, Net!Message(kind, m, Net!Unread)),
             registration' = registration
      PROVE  OfonoInv' /\ (wrapper'.watchAllModems <=> wrapper.watchAllModems)
  <2> DEFINE message == Net!Message(kind, m, Net!Unread)
             lost == wrapper.missed \/ kind \in wrapper.asked
  <2>0. message \in Message0
    BY DEF Net!Message, Message0, Announced
  <2>1. wrapper' = WrapperIs(wrapper.watchAllModems, wrapper.allModemPaths, wrapper.watchProperties,
                             wrapper.cached, wrapper.matched, wrapper.asked, wrapper.askedOf, lost)
    BY <1>1, <1>2 DEF Net!Announce, WrapperIs, Net!Wrapper
  <2>2. lost \in BOOLEAN
    OBVIOUS
  <2>3. messages' = IF wrapper.watchAllModems /\ kind \notin wrapper.asked
                    THEN Append(messages, message) ELSE messages
    BY <1>2 DEF Net!Announce
  <2>4. netModems' = Net!Apply(netModems, message)
    BY <1>2
  <2> HIDE DEF message
  <2>5. netModems' \in Seq(Modem) /\ messages' \in Seq(Message0)
    BY <1>1, <2>0, <2>3, <2>4, ApplyTyped
  <2>6. wrapper' \in Net!Wrapper
    <3> HIDE DEF lost
    <3> QED BY <1>1, <2>1, <2>2, WrapperParts, NetWrapperTyped
  <2>7. /\ wrapper'.watchAllModems = wrapper.watchAllModems
        /\ wrapper'.allModemPaths = wrapper.allModemPaths
        /\ wrapper'.missed = lost
    <3> HIDE DEF lost
    <3> QED BY <2>1 DEF WrapperIs
  <2>8. ASSUME wrapper.watchAllModems, ~lost
        PROVE  Leads(wrapper.allModemPaths, messages', netModems')
    <3>1. messages' = Append(messages, message)
      BY <2>3, <2>8
    <3>2. Leads(wrapper.allModemPaths, messages, netModems)
      BY <2>8 DEF OfonoInv, ListInv
    <3> QED BY <1>1, <2>0, <2>4, <3>1, <3>2, LeadsAppend
  <2> HIDE DEF lost
  <2>9. ListInv'
    BY <2>7, <2>8 DEF ListInv
  <2> QED BY <1>1, <1>2, <2>5, <2>6, <2>7, <2>9 DEF OfonoInv, Net!OfonoTypeOK, Message0
<1>3. CASE Net!AddModem(m)
  <2> DEFINE message == Net!Message("ModemAdded", m, Net!Unread)
  <2>1. message.kind = "ModemAdded" /\ message.modem = m
    BY DEF Net!Message
  <2>2. Net!Apply(netModems, message) = Append(netModems, m)
    BY <2>1 DEF Net!Apply
  <2> QED BY <1>2, <1>3, <2>2 DEF Net!AddModem, Announced
<1>4. CASE Net!RemoveModem(m)
  <2> DEFINE message == Net!Message("ModemRemoved", m, Net!Unread)
  <2>1. message.kind = "ModemRemoved" /\ message.modem = m
    BY DEF Net!Message
  <2>2. Net!Apply(netModems, message) = Net!RemoveFirst(netModems, m)
    BY <2>1 DEF Net!Apply
  <2> QED BY <1>2, <1>4, <2>2 DEF Net!RemoveModem, Announced
<1>5. ASSUME NEW r \in Registration, Net!Register(m, r)
      PROVE  OfonoInv' /\ (wrapper'.watchAllModems <=> wrapper.watchAllModems)
  <2> DEFINE message == Net!Message("PropertyChanged", m, r)
  <2>1. message \in Message0 /\ message.kind = "PropertyChanged"
    BY DEF Net!Message, Message0
  <2>2. Net!Apply(netModems, message) = netModems
    BY <2>1, ApplyNothing
  <2>3. registration' \in [Modem -> Registration] /\ netModems' = netModems /\ wrapper' = wrapper
        /\ (messages' = messages \/ messages' = Append(messages, message))
    BY <1>1, <1>5 DEF Net!Register
  <2>4. messages' \in Seq(Message0)
    BY <1>1, <2>1, <2>3
  <2>5. wrapper.watchAllModems /\ ~wrapper.missed
          => Leads(wrapper.allModemPaths, Append(messages, message), netModems)
    BY <1>1, <2>1, <2>2, LeadsAppend DEF OfonoInv, ListInv
  <2>6. ListInv'
    BY <2>3, <2>5 DEF OfonoInv, ListInv
  <2> QED BY <1>1, <2>3, <2>4, <2>6 DEF OfonoInv, Net!OfonoTypeOK, Message0
<1> QED BY <1>3, <1>4, <1>5

LEMMA MessageHandled ==
  ASSUME OfonoInv, Net!HandleMessage
  PROVE  OfonoInv' /\ (wrapper'.watchAllModems <=> wrapper.watchAllModems)
<1>1. /\ messages \in Seq(Message0) /\ netModems \in Seq(Modem) /\ wrapper \in Net!Wrapper
      /\ messages # <<>>
  BY DEF OfonoInv, Net!OfonoTypeOK, Message0, Net!HandleMessage
<1> DEFINE message == Head(messages)
           list == wrapper.allModemPaths
           new == IF Net!Hooked(message) THEN Net!Apply(list, message) ELSE list
<1>2. message \in Message0 /\ list \in Seq(Modem) /\ Net!Apply(list, message) \in Seq(Modem)
  <2>1. message \in Message0 /\ list \in Seq(Modem)
    BY <1>1, WrapperParts
  <2> QED BY <2>1, ApplyTyped
<1>3. wrapper' = WrapperIs(wrapper.watchAllModems, new, wrapper.watchProperties, wrapper.cached,
                           wrapper.matched, wrapper.asked, wrapper.askedOf, wrapper.missed)
  <2> DEFINE w == wrapper
  <2>1. w = WrapperIs(w.watchAllModems, list, w.watchProperties, w.cached, w.matched,
                      w.asked, w.askedOf, w.missed)
    BY <1>1, WrapperParts
  <2>2. CASE ~Net!Hooked(message)
    <3>1. wrapper' = wrapper
      BY <2>2 DEF Net!HandleMessage
    <3> QED BY <2>1, <2>2, <3>1
  <2>3. CASE Net!Hooked(message) /\ message.kind = "ModemAdded"
    <3>1. wrapper' = [wrapper EXCEPT !.allModemPaths = Append(list, message.modem)]
      BY <2>3 DEF Net!HandleMessage
    <3>2. new = Append(list, message.modem)
      BY <2>3 DEF Net!Apply
    <3> QED BY <2>1, <3>1, <3>2 DEF WrapperIs
  <2>4. CASE Net!Hooked(message) /\ message.kind = "ModemRemoved"
    <3>1. wrapper' = [wrapper EXCEPT !.allModemPaths = Net!RemoveFirst(list, message.modem)]
      BY <2>4 DEF Net!HandleMessage
    <3>2. new = Net!RemoveFirst(list, message.modem)
      BY <2>4 DEF Net!Apply
    <3> QED BY <2>1, <3>1, <3>2 DEF WrapperIs
  <2>5. CASE Net!Hooked(message) /\ message.kind = "PropertyChanged"
    <3>1. wrapper' = wrapper
      BY <2>5 DEF Net!HandleMessage
    <3>2. new = list
      BY <2>5 DEF Net!Apply
    <3> QED BY <2>1, <3>1, <3>2
  <2> QED BY <1>2, <2>2, <2>3, <2>4, <2>5, KindIs
<1>4. new \in Seq(Modem)
  BY <1>2
<1>5. messages' = Tail(messages) /\ messages' \in Seq(Message0)
  BY <1>1 DEF Net!HandleMessage
<1>6. ASSUME wrapper.watchAllModems, ~wrapper.missed PROVE Leads(new, messages', netModems)
  <2>1. Leads(Net!Apply(list, message), messages', netModems)
    BY <1>1, <1>5, <1>6, LeadsTail DEF OfonoInv, ListInv
  <2>2. new = Net!Apply(list, message)
    <3>1. CASE Net!Hooked(message)
      BY <3>1
    <3>2. CASE ~Net!Hooked(message)
      <4>1. message.kind = "PropertyChanged"
        BY <1>2, <1>6, <3>2, KindIs DEF Net!Hooked
      <4> QED BY <1>2, <3>2, <4>1, ApplyNothing
    <3> QED BY <3>1, <3>2
  <2> QED BY <2>1, <2>2
<1> HIDE DEF new
<1>7. wrapper' \in Net!Wrapper
  BY <1>1, <1>3, <1>4, WrapperParts, NetWrapperTyped
<1>8. wrapper'.watchAllModems = wrapper.watchAllModems /\ wrapper'.allModemPaths = new
      /\ wrapper'.missed = wrapper.missed
  BY <1>3 DEF WrapperIs
<1>9. ListInv'
  BY <1>6, <1>8 DEF ListInv, Net!HandleMessage, Net!world
<1> QED
  BY <1>5, <1>7, <1>8, <1>9 DEF OfonoInv, Net!OfonoTypeOK, Net!HandleMessage, Net!world, Message0


\* oFono is asked while it is there, and its modems are listed for who counts them.
Watching == wrapper.watchAllModems => Net!CountChanged \in connected /\ build.ofono = "present"
NetInv == Net!TypeOK /\ ListInv /\ Watching /\ Net!WatchesServed /\ Net!ReadsMatchReports

LEMMA ThereFinite ==
  ASSUME Net!TypeOK, NEW mode
  PROVE  Net!There(mode) \subseteq NetDevice /\ IsFiniteSet(Net!There(mode))
         /\ Net!Cardinality(Net!There(mode)) \in Nat
<1>1. Net!There(mode) \subseteq NetDevice
  BY DEF Net!There, Net!TypeOK
<1>2. IsFiniteSet(Net!There(mode))
  BY <1>1, NetworkAssumption, FS_Subset, SameCardinality
<1> QED BY <1>1, <1>2, FS_CardinalityType, SameCardinality

\* The i-th of a finite set of numbers.
Ranked(S, i) == \E x \in S : Net!Cardinality({y \in S : y <= x}) = i

LEMMA RankExists ==
  \A n \in Nat : \A S \in SUBSET Nat :
    IsFiniteSet(S) /\ Net!Cardinality(S) = n => \A i \in 1 .. n : Ranked(S, i)
<1> DEFINE All(n) == \A S \in SUBSET Nat :
                       IsFiniteSet(S) /\ Net!Cardinality(S) = n => \A i \in 1 .. n : Ranked(S, i)
           P == {n \in Nat : All(n)}
<1>1. 0 \in P
  OBVIOUS
<1>2. ASSUME NEW n \in P PROVE n + 1 \in P
  <2>1. n \in Nat /\ All(n)
    OBVIOUS
  <2> HIDE DEF All
  <2>2. SUFFICES ASSUME NEW S \in SUBSET Nat, IsFiniteSet(S), Net!Cardinality(S) = n + 1,
                        NEW i \in 1 .. n + 1
                 PROVE  Ranked(S, i)
    BY <2>1 DEF All
  <2>3. S # {}
    BY <2>1, <2>2, FS_EmptySet, SameCardinality
  <2>4. PICK m \in S : \A y \in S : m <= y
    BY <2>3, LeastNat
  <2> DEFINE R == S \ {m}
  <2>5. IsFiniteSet(R) /\ Net!Cardinality(R) = n /\ R \in SUBSET Nat
    BY <2>1, <2>2, FS_RemoveElement, SameCardinality
  <2>6. CASE i = 1
    <3>0. \A y \in S : y <= m => y = m
      <4>1. m \in Nat /\ \A y \in S : y \in Nat
        OBVIOUS
      <4> QED BY <2>4, <4>1
    <3>1. {y \in S : y <= m} = {m}
      BY <2>4, <3>0
    <3>2. Net!Cardinality({m}) = 1
      BY FS_Singleton, SameCardinality
    <3> QED BY <2>6, <3>1, <3>2 DEF Ranked
  <2>7. CASE i # 1
    <3>1. i - 1 \in 1 .. n
      BY <2>1, <2>7
    <3>2. Ranked(R, i - 1)
      BY <2>1, <2>5, <3>1 DEF All
    <3>3. PICK x \in R : Net!Cardinality({y \in R : y <= x}) = i - 1
      BY <3>2 DEF Ranked
    <3> DEFINE L == {y \in R : y <= x}
    <3>4. IsFiniteSet(L) /\ m \notin L
      BY <2>5, FS_Subset, SameCardinality
    <3>5. Net!Cardinality(L \cup {m}) = i
      <4>1. Net!Cardinality(L) = i - 1
        BY <3>3
      <4> HIDE DEF L
      <4> QED BY <2>1, <3>4, <4>1, FS_AddElement, SameCardinality
    <3>6. {y \in S : y <= x} = L \cup {m}
      BY <2>4, <3>3
    <3>7. x \in S
      OBVIOUS
    <3> QED BY <3>5, <3>6, <3>7 DEF Ranked
  <2> QED BY <2>6, <2>7
<1>3. P \subseteq Nat
  OBVIOUS
<1>4. P = Nat
  <2> HIDE DEF P
  <2> QED BY <1>1, <1>2, <1>3, SetInduction
<1> QED BY <1>4

LEMMA ConditionTyped ==
  ASSUME Net!TypeOK, NEW mode, NEW i \in Nat, i > 0, Net!Exists(mode, i)
  PROVE  Net!ConditionOf(mode, i) \in NetCondition
<1> DEFINE S == Net!There(mode)
<1>1. S \subseteq NetDevice /\ S \in SUBSET Nat /\ IsFiniteSet(S) /\ Net!Cardinality(S) \in Nat
  BY ThereFinite, NetworkAssumption
<1>2. i \in 1 .. Net!Cardinality(S)
  BY <1>1 DEF Net!Exists
<1>3. Ranked(S, i)
  BY <1>1, <1>2, RankExists
<1>4. Net!InterfaceName(mode, i) \in S
  BY <1>3 DEF Ranked, Net!InterfaceName
<1>5. Net!InterfaceName(mode, i) \in NetDevice
  BY <1>1, <1>4
<1> QED BY <1>5 DEF Net!TypeOK, Net!ConditionOf

LEMMA NetGetTyped ==
  ASSUME Net!TypeOK, NEW d \in Net!Info, NEW key \in Net!Key
  PROVE  Net!Get(d, key) \in Net!Reading
<1> DEFINE mode == key[2]
           i == key[3]
<1>0. Net!Cardinality(NetDevice) \in Nat
  BY NetworkAssumption, FS_CardinalityType, SameCardinality
<1>1. i \in Nat /\ i > 0 /\ key[1] \in Net!Polled
  BY <1>0 DEF Net!Key
<1> HIDE DEF mode, i
<1>2. Net!Exists(mode, i) => Net!ConditionOf(mode, i) \in Net!Reading
  BY <1>1, ConditionTyped DEF Net!Reading
<1>3. Net!GetNetworkStatus(mode, i) \in Net!Reading
  BY DEF Net!GetNetworkStatus, Net!Reading
<1>4. Net!GetSignalStrength(d, mode, i) \in Net!Reading
  BY <1>2 DEF Net!GetSignalStrength, Net!Reading
<1>5. Net!GetNetworkName(mode, i) \in Net!Reading
  BY <1>2 DEF Net!GetNetworkName, Net!Reading
<1>6. Net!StrengthChanged # Net!StatusChanged /\ Net!StatusChanged # Net!NameChanged
      /\ Net!StrengthChanged # Net!NameChanged
  BY DEF Net!StrengthChanged, Net!StatusChanged, Net!NameChanged
<1> QED BY <1>1, <1>3, <1>4, <1>5, <1>6 DEF Net!Get, Net!Polled, mode, i

LEMMA ModeTyped ==
  ASSUME NEW d, NEW modem
  PROVE  Net!CurrentNetworkMode(d, modem) \in Net!Modes
<1> DEFINE Status(mode) ==
             IF mode \in Net!Local THEN Net!NetworkStatus(d, mode, 1)
             ELSE IF mode = "WimaxMode" \/ build.ofono # "present" THEN Net!Unread
             ELSE Net!ModemStatus(modem)
           Home == {n \in 1 .. 9 : Status(Net!Preference[n]) = "HomeNetwork"}
           Roaming == {n \in 4 .. 9 : Status(Net!Preference[n]) = "Roaming"}
<1>0. Net!CurrentNetworkMode(d, modem) =
        CASE Home # {} -> Net!Preference[Net!Min(Home)]
          [] Home = {} /\ Roaming # {} -> Net!Preference[Net!Min(Roaming)]
          [] OTHER -> "UnknownMode"
  BY DEF Net!CurrentNetworkMode
<1>1. Home \subseteq 1 .. 9 /\ Roaming \subseteq 1 .. 9
  <2> HIDE DEF Status
  <2> QED OBVIOUS
<1> HIDE DEF Home, Roaming
<1>2. ASSUME NEW T, T \subseteq 1 .. 9, T # {} PROVE Net!Min(T) \in 1 .. 9
  <2>0. T \subseteq Nat
    BY <1>2
  <2>1. \E x \in T : \A y \in T : x <= y
    BY <1>2, <2>0, LeastNat
  <2>2. Net!Min(T) \in T
    BY <2>1 DEF Net!Min
  <2> QED BY <1>2, <2>2
<1>3. CASE Home # {}
  BY <1>0, <1>1, <1>2, <1>3 DEF Net!Modes
<1>4. CASE Home = {} /\ Roaming # {}
  BY <1>0, <1>1, <1>2, <1>4 DEF Net!Modes
<1>5. CASE Home = {} /\ Roaming = {}
  BY <1>0, <1>5 DEF Net!Modes
<1> QED BY <1>3, <1>4, <1>5

LEMMA Names ==
  /\ Net!CurrentModeKey \notin Net!Key /\ Net!CurrentModeKey[1] = Net!ModeChanged
  /\ \A key \in Net!Key : key[1] \in Net!Polled
  /\ Net!Polled = {Net!StrengthChanged, Net!StatusChanged, Net!NameChanged}
  /\ Net!ModeChanged \notin Net!Polled /\ Net!CountChanged \notin Net!Polled
  /\ Net!ModeChanged # Net!CountChanged
  /\ Net!StatusChanged \in Net!Polled /\ Net!StatusChanged # Net!CountChanged
<1>1. Net!Polled = {Net!StrengthChanged, Net!StatusChanged, Net!NameChanged}
  BY DEF Net!Polled
<1>2. Net!ModeChanged \notin Net!Polled /\ Net!CountChanged \notin Net!Polled
      /\ Net!ModeChanged # Net!CountChanged
      /\ Net!StatusChanged \in Net!Polled /\ Net!StatusChanged # Net!CountChanged
  BY DEF Net!Polled, Net!StrengthChanged, Net!StatusChanged, Net!NameChanged, Net!ModeChanged,
    Net!CountChanged
<1>3. \A key \in Net!Key : key[1] \in Net!Polled
  BY DEF Net!Key
<1>4. Net!CurrentModeKey[1] = Net!ModeChanged
  BY DEF Net!CurrentModeKey
<1> QED BY <1>1, <1>2, <1>3, <1>4

\* The parts of a QNetworkInfoPrivate.
Flags == {Net!StrengthChanged, Net!StatusChanged, Net!NameChanged, Net!ModeChanged,
  Net!CountChanged}
InfoIs(watch, counts, cache, mode, timer, watching) ==
  [watch |-> watch, counts |-> counts, cache |-> cache, currentMode |-> mode,
   timer |-> timer, monitor |-> watching]

LEMMA InfoTyped ==
  ASSUME NEW watch \in SUBSET Flags, NEW counts \in [Net!Local -> Int],
         NEW cache \in [Net!Key -> Net!Reading],
         NEW mode \in Net!Modes,
         NEW timer \in {"none", "stopped", "active"}, NEW watching \in {"none", "off", "on"}
  PROVE  InfoIs(watch, counts, cache, mode, timer, watching) \in Net!Info
  BY DEF Net!Info, Flags, InfoIs

LEMMA InfoParts ==
  ASSUME NEW d \in Net!Info
  PROVE  /\ d.watch \in SUBSET Flags /\ d.counts \in [Net!Local -> Int]
         /\ d.cache \in [Net!Key -> Net!Reading]
         /\ d.currentMode \in Net!Modes
         /\ d.timer \in {"none", "stopped", "active"} /\ d.monitor \in {"none", "off", "on"}
         /\ d = InfoIs(d.watch, d.counts, d.cache, d.currentMode, d.timer, d.monitor)
<1>1. d.watch \in SUBSET Flags /\ d.counts \in [Net!Local -> Int]
      /\ d.cache \in [Net!Key -> Net!Reading]
      /\ d.currentMode \in Net!Modes
      /\ d.timer \in {"none", "stopped", "active"} /\ d.monitor \in {"none", "off", "on"}
  BY DEF Net!Info, Flags
<1>2. d = InfoIs(d.watch, d.counts, d.cache, d.currentMode, d.timer, d.monitor)
  BY DEF Net!Info, InfoIs
<1> QED BY <1>1, <1>2

LEMMA InfoWithCounts ==
  ASSUME NEW d \in Net!Info, NEW counts, NEW watching, NEW watch
  PROVE  [d EXCEPT !.counts = counts, !.monitor = watching, !.watch = watch]
           = InfoIs(watch, counts, d.cache, d.currentMode, d.timer, watching)
<1> DEFINE e == [d EXCEPT !.counts = counts]
           f == [e EXCEPT !.monitor = watching]
<1>1. d = InfoIs(d.watch, d.counts, d.cache, d.currentMode, d.timer, d.monitor)
  BY InfoParts
<1>2. e = InfoIs(d.watch, counts, d.cache, d.currentMode, d.timer, d.monitor)
  BY DEF Net!Info, InfoIs
<1>3. f = InfoIs(d.watch, counts, d.cache, d.currentMode, d.timer, watching)
  <2> HIDE DEF e
  <2> QED BY <1>2 DEF InfoIs
<1>4. [f EXCEPT !.watch = watch] = InfoIs(watch, counts, d.cache, d.currentMode, d.timer, watching)
  <2> HIDE DEF e, f
  <2> QED BY <1>3 DEF InfoIs
<1>5. [d EXCEPT !.counts = counts, !.monitor = watching, !.watch = watch] = [f EXCEPT !.watch = watch]
  OBVIOUS
<1> QED BY <1>4, <1>5

Counts == [mode \in Net!Local |-> Net!Cardinality(Net!There(mode))]

LEMMA CountsTyped == ASSUME Net!TypeOK PROVE Counts \in [Net!Local -> Int]
  BY ThereFinite DEF Counts

LEMMA WithCountsIs ==
  ASSUME Net!TypeOK, NEW d \in Net!Info
  PROVE  /\ Net!WithCounts(d) \in Net!Info /\ Net!WithCounts(d).watch = d.watch \cup {Net!CountChanged}
         /\ Net!WithCounts(d).cache = d.cache /\ Net!WithCounts(d).currentMode = d.currentMode
         /\ Net!WithCounts(d).timer = d.timer
         /\ build.udev /\ (Net!CountChanged \in d.watch => d.monitor = "on")
              => Net!WithCounts(d).monitor = "on"
<1>1. CASE Net!CountChanged \in d.watch
  <2>1. Net!WithCounts(d) = d
    BY <1>1 DEF Net!WithCounts
  <2> QED BY <1>1, <2>1
<1>2. CASE Net!CountChanged \notin d.watch
  <2> DEFINE on == IF build.udev THEN "on" ELSE d.monitor
  <2>1. on \in {"none", "off", "on"} /\ (build.udev => on = "on")
    BY InfoParts
  <2> DEFINE w == d.watch \cup {Net!CountChanged}
  <2>2. Net!WithCounts(d) = [d EXCEPT !.counts = Counts, !.monitor = on, !.watch = w]
    BY <1>2 DEF Net!WithCounts, Counts
  <2> HIDE DEF on
  <2>3. [d EXCEPT !.counts = Counts, !.monitor = on, !.watch = w]
          = InfoIs(w, Counts, d.cache, d.currentMode, d.timer, on)
    <3> HIDE DEF w
    <3>1. \A a, b, c : [d EXCEPT !.counts = a, !.monitor = b, !.watch = c]
                         = InfoIs(c, a, d.cache, d.currentMode, d.timer, b)
      BY InfoWithCounts
    <3> QED BY <3>1
  <2>4. w \in SUBSET Flags
    BY InfoParts DEF Flags
  <2>5. Net!WithCounts(d) = InfoIs(w, Counts, d.cache, d.currentMode, d.timer, on)
    BY <2>2, <2>3
  <2> HIDE DEF w
  <2>6. InfoIs(w, Counts, d.cache, d.currentMode, d.timer, on) \in Net!Info
    BY <2>1, <2>4, CountsTyped, InfoParts, InfoTyped
  <2>7. /\ Net!WithCounts(d).watch = w /\ Net!WithCounts(d).cache = d.cache
        /\ Net!WithCounts(d).currentMode = d.currentMode /\ Net!WithCounts(d).timer = d.timer
        /\ Net!WithCounts(d).monitor = on
    BY <2>5 DEF InfoIs
  <2> QED BY <2>1, <2>5, <2>6, <2>7 DEF w
<1> QED BY <1>1, <1>2

LEMMA NetSnapshotIs ==
  ASSUME Net!TypeOK, NEW d \in Net!Info, NEW kind \in Net!Polled
  PROVE  /\ Net!Snapshot(d, kind) \in Net!Info /\ Net!Snapshot(d, kind).watch = d.watch \cup {kind}
         /\ \A key \in Net!Key : key[1] # kind => Net!Snapshot(d, kind).cache[key] = d.cache[key]
         /\ Net!Snapshot(d, kind).currentMode = d.currentMode
         /\ Net!Snapshot(d, kind).timer = d.timer /\ Net!Snapshot(d, kind).monitor = d.monitor
<1> DEFINE w == d.watch \cup {kind}
           c == [key \in Net!Key |-> IF key[1] # kind THEN d.cache[key]
                                 ELSE IF Net!Counted(d, key) THEN Net!Get(d, key) ELSE Net!Unread]
<1>1. Net!Snapshot(d, kind) = [d EXCEPT !.cache = c, !.watch = w]
  BY DEF Net!Snapshot
<1>2. w \in SUBSET Flags
  BY InfoParts DEF Flags, Net!Polled
<1>3. c \in [Net!Key -> Net!Reading]
  <2> SUFFICES ASSUME NEW key \in Net!Key
      PROVE  (IF key[1] # kind THEN d.cache[key]
              ELSE IF Net!Counted(d, key) THEN Net!Get(d, key) ELSE Net!Unread) \in Net!Reading
    OBVIOUS
  <2>1. d.cache[key] \in Net!Reading /\ Net!Get(d, key) \in Net!Reading
        /\ Net!Unread \in Net!Reading
    BY InfoParts, NetGetTyped DEF Net!Reading
  <2> QED BY <2>1
<1>4. \A key \in Net!Key : key[1] # kind => c[key] = d.cache[key]
  OBVIOUS
<1> HIDE DEF w, c
<1>5. Net!Snapshot(d, kind) = InfoIs(w, d.counts, c, d.currentMode, d.timer, d.monitor)
  BY <1>1 DEF Net!Info, InfoIs
<1>6. InfoIs(w, d.counts, c, d.currentMode, d.timer, d.monitor) \in Net!Info
  BY <1>2, <1>3, InfoParts, InfoTyped
<1>7. /\ Net!Snapshot(d, kind).watch = w /\ Net!Snapshot(d, kind).cache = c
      /\ Net!Snapshot(d, kind).currentMode = d.currentMode
      /\ Net!Snapshot(d, kind).timer = d.timer /\ Net!Snapshot(d, kind).monitor = d.monitor
  BY <1>5 DEF InfoIs
<1> QED BY <1>4, <1>5, <1>6, <1>7 DEF w

-----------------------------------------------------------------------------
\* The invariant, of given signals, a given QNetworkInfoPrivate and what was told.
ServedBy(ss, d) ==
  /\ ss \cap (Net!Polled \cup {Net!ModeChanged, Net!CountChanged}) \subseteq d.watch
  /\ d.watch \cap (Net!Polled \cup {Net!ModeChanged}) # {} => d.timer = "active"
     /\ Net!CountChanged \in d.watch
  /\ Net!ModeChanged \in d.watch => Net!StatusChanged \in d.watch
  /\ Net!CountChanged \in d.watch /\ build.udev => d.monitor = "on"
MatchedBy(ss, d, t) ==
  \A key \in Net!Key \cup {Net!CurrentModeKey} :
    key[1] \in ss /\ t[key] # Net!Unread => t[key] = IF key \in Net!Key THEN d.cache[key]
      ELSE d.currentMode
ToldKeys(t) == t = [key \in Net!Key \cup {Net!CurrentModeKey} |-> t[key]]
Outside ==
  /\ build \in [ofono : Ofono, udev : Udev]
  /\ netPresent \subseteq NetDevice /\ netCondition \in [NetDevice -> NetCondition]
  /\ netUevents \in Seq([action : {"add", "remove"}, device : NetDevice])
  /\ fault \in BOOLEAN /\ netChanges \in 0 .. MaxNetChanges

LEMMA NetInvIs ==
  NetInv <=> /\ OfonoInv /\ Outside /\ Watching
             /\ connected \subseteq NetSignal /\ netInfo \in Net!Info /\ ToldKeys(netTold)
             /\ ServedBy(connected, netInfo) /\ MatchedBy(connected, netInfo, netTold)
<1>1. Net!TypeOK <=> Net!OfonoTypeOK /\ Outside /\ connected \subseteq NetSignal
      /\ netInfo \in Net!Info /\ ToldKeys(netTold)
  BY DEF Net!TypeOK, Outside, ToldKeys
<1>2. Net!WatchesServed <=> ServedBy(connected, netInfo)
  BY DEF Net!WatchesServed, ServedBy
<1>3. ToldKeys(netTold) => (Net!ReadsMatchReports <=> MatchedBy(connected, netInfo, netTold))
  <2> SUFFICES ASSUME ToldKeys(netTold) PROVE Net!ReadsMatchReports <=> MatchedBy(connected,
                      netInfo, netTold)
    OBVIOUS
  <2>1. DOMAIN netTold = Net!Key \cup {Net!CurrentModeKey}
    BY DEF ToldKeys
  <2> QED BY <2>1 DEF Net!ReadsMatchReports, MatchedBy
<1> QED BY <1>1, <1>2, <1>3 DEF NetInv, OfonoInv

LEMMA InvPrimed ==
  ASSUME OfonoInv', Outside', Watching', connected' \subseteq NetSignal, netInfo' \in Net!Info,
         ToldKeys(netTold'),
         ServedBy(connected', netInfo'), MatchedBy(connected', netInfo', netTold'), UNCHANGED build
  PROVE  NetInv'
<1>1. (NetInv <=> /\ OfonoInv /\ Outside /\ Watching
                  /\ connected \subseteq NetSignal /\ netInfo \in Net!Info /\ ToldKeys(netTold)
                  /\ ServedBy(connected, netInfo) /\ MatchedBy(connected, netInfo, netTold))'
  BY NetInvIs, PTL
<1>2. ServedBy(connected, netInfo)' <=> ServedBy(connected', netInfo')
  BY DEF ServedBy
<1>3. MatchedBy(connected, netInfo, netTold)' <=> MatchedBy(connected', netInfo', netTold')
  BY DEF MatchedBy
<1>4. ToldKeys(netTold)' <=> ToldKeys(netTold')
  BY DEF ToldKeys
<1> QED BY <1>1, <1>2, <1>3, <1>4

LEMMA NetInitInv == Net!Init => NetInv
<1> SUFFICES ASSUME Net!Init PROVE NetInv
  OBVIOUS
<1>1. OfonoInv /\ Watching
  BY OfonoStarts DEF Net!Init, Watching
<1>2. Outside
  <2>1. netChanges \in 0 .. MaxNetChanges
    BY NetworkAssumption DEF Net!Init
  <2>2. netUevents \in Seq([action : {"add", "remove"}, device : NetDevice])
    BY DEF Net!Init
  <2> QED BY <2>1, <2>2 DEF Net!Init, Outside
<1> DEFINE counts == [mode \in Net!Local |-> 0]
           cache == [key \in Net!Key |-> Net!Unread]
<1>3. counts \in [Net!Local -> Int] /\ cache \in [Net!Key -> Net!Reading]
  BY DEF Net!Reading
<1>4. netInfo = InfoIs({}, counts, cache, "UnknownMode", "none", "none")
  BY DEF Net!Init, InfoIs
<1> HIDE DEF counts, cache
<1>5. "UnknownMode" \in Net!Modes
  BY DEF Net!Modes
<1>6. netInfo \in Net!Info
  BY <1>3, <1>4, <1>5, InfoTyped
<1>7. netInfo.watch = {}
  BY <1>4 DEF InfoIs
<1>8. connected = {} /\ ToldKeys(netTold)
  BY DEF Net!Init, ToldKeys
<1>9. ServedBy(connected, netInfo) /\ MatchedBy(connected, netInfo, netTold)
  BY <1>7, <1>8 DEF ServedBy, MatchedBy
<1> QED BY <1>1, <1>2, <1>6, <1>8, <1>9, NetInvIs

LEMMA OfonoConnected ==
  ASSUME OfonoInv, Watching, NEW signal, signal \notin connected,
         connected' = connected \cup {signal},
         Net!OfonoConnect(signal), UNCHANGED build
  PROVE  OfonoInv' /\ Watching'
<1>1. CASE build.ofono # "present"
  <2>1. UNCHANGED <<netModems, registration, messages, wrapper>>
    BY <1>1 DEF Net!OfonoConnect, Net!ofonoVars, Net!world
  <2> QED BY <2>1 DEF OfonoInv, Net!OfonoTypeOK, ListInv, Watching
<1>2. CASE build.ofono = "present" /\ signal = Net!CountChanged
  <2>1. Net!ConnectCount
    BY <1>2 DEF Net!OfonoConnect
  <2>2. ~wrapper.watchAllModems
    BY <1>2 DEF Watching
  <2>3. OfonoInv'
    BY <2>1, <2>2, CountConnected
  <2> QED BY <1>2, <2>3 DEF Watching
<1>3. CASE build.ofono = "present" /\ signal # Net!CountChanged
  <2>1. Net!ConnectProperty
    BY <1>3 DEF Net!OfonoConnect
  <2>2. OfonoInv' /\ (wrapper'.watchAllModems <=> wrapper.watchAllModems)
    BY <2>1, PropertyConnected
  <2> QED BY <2>2 DEF Watching
<1> QED BY <1>1, <1>2, <1>3

LEMMA OfonoDisconnected ==
  ASSUME OfonoInv, Watching, NEW signal, connected' = connected \ {signal},
         Net!OfonoDisconnect(signal), UNCHANGED build
  PROVE  OfonoInv' /\ Watching'
<1>1. CASE build.ofono # "present"
  <2>1. UNCHANGED <<netModems, registration, messages, wrapper>>
    BY <1>1 DEF Net!OfonoDisconnect, Net!ofonoVars, Net!world
  <2>2. ~wrapper.watchAllModems
    BY <1>1 DEF Watching
  <2> QED BY <2>1, <2>2 DEF OfonoInv, Net!OfonoTypeOK, ListInv, Watching
<1>2. CASE build.ofono = "present" /\ signal = Net!CountChanged
  <2>1. Net!DisconnectCount
    BY <1>2 DEF Net!OfonoDisconnect
  <2>2. OfonoInv' /\ ~wrapper'.watchAllModems
    BY <2>1, CountDisconnected
  <2> QED BY <2>2 DEF Watching
<1>3. CASE build.ofono = "present" /\ signal # Net!CountChanged
  <2>1. Net!DisconnectProperty
    BY <1>3 DEF Net!OfonoDisconnect
  <2>2. OfonoInv' /\ (wrapper'.watchAllModems <=> wrapper.watchAllModems)
    BY <2>1, PropertyDisconnected
  <2> QED BY <1>3, <2>2 DEF Watching
<1> QED BY <1>1, <1>2, <1>3

LEMMA Forgotten ==
  ASSUME ToldKeys(netTold), NEW signal, Net!Forget(signal)
  PROVE  /\ ToldKeys(netTold')
         /\ \A key \in Net!Key \cup {Net!CurrentModeKey} :
              netTold'[key] = IF key[1] = signal THEN Net!Unread ELSE netTold[key]
<1>1. DOMAIN netTold = Net!Key \cup {Net!CurrentModeKey}
  BY DEF ToldKeys
<1>2. netTold' = [key \in Net!Key \cup {Net!CurrentModeKey} |-> IF key[1] = signal THEN Net!Unread
      ELSE netTold[key]]
  BY <1>1 DEF Net!Forget
<1> QED BY <1>2 DEF ToldKeys

\* A timer that is started or stopped.
LEMMA TimerSet ==
  ASSUME NEW d \in Net!Info, NEW timer \in {"none", "stopped", "active"}
  PROVE  LET e == [d EXCEPT !.timer = timer]
         IN  /\ e \in Net!Info /\ e.watch = d.watch /\ e.cache = d.cache
             /\ e.currentMode = d.currentMode
             /\ e.timer = timer /\ e.monitor = d.monitor
<1> DEFINE e == [d EXCEPT !.timer = timer]
<1>1. e = InfoIs(d.watch, d.counts, d.cache, d.currentMode, timer, d.monitor)
  BY DEF Net!Info, InfoIs
<1> HIDE DEF e
<1>2. InfoIs(d.watch, d.counts, d.cache, d.currentMode, timer, d.monitor) \in Net!Info
  BY InfoParts, InfoTyped
<1>3. e \in Net!Info /\ e.watch = d.watch /\ e.cache = d.cache /\ e.currentMode = d.currentMode
      /\ e.timer = timer /\ e.monitor = d.monitor
  BY <1>1, <1>2 DEF InfoIs
<1> QED BY <1>3 DEF e

LEMMA ConnectStep ==
  ASSUME NetInv, NEW signal \in NetSignal, Net!Connect(signal)
  PROVE  NetInv'
<1> DEFINE counted == Net!WithCounts(netInfo)
           kind == IF signal = Net!ModeChanged THEN Net!StatusChanged ELSE signal
           skip == kind \notin Net!Polled \/ (signal = Net!ModeChanged
             /\ Net!StatusChanged \in counted.watch)
           taken == IF skip THEN counted ELSE Net!Snapshot(counted, kind)
           timed == IF signal \in Net!Polled \cup {Net!ModeChanged}
             THEN [taken EXCEPT !.timer = "active"]
                    ELSE taken
           mode == Net!CurrentNetworkMode(timed, Net!ModemProperty(1)')
           last == IF signal # Net!ModeChanged THEN timed
                   ELSE [timed EXCEPT !.watch = @ \cup {Net!ModeChanged}, !.currentMode = mode]
<1>0. /\ Net!TypeOK /\ OfonoInv /\ Outside /\ Watching
      /\ connected \subseteq NetSignal /\ netInfo \in Net!Info /\ ToldKeys(netTold)
      /\ ServedBy(connected, netInfo) /\ MatchedBy(connected, netInfo, netTold)
  BY NetInvIs DEF NetInv
<1>1. /\ signal \notin connected /\ connected' = connected \cup {signal}
      /\ Net!OfonoConnect(signal) /\ Net!Forget(signal)
      /\ UNCHANGED <<build, Net!outside, netUevents, netChanges>>
      /\ fault' \in BOOLEAN
  BY DEF Net!Connect
<1>2. netInfo' = last
  BY DEF Net!Connect
<1>3. OfonoInv' /\ Watching'
  BY <1>0, <1>1, OfonoConnected
<1>4. Outside'
  BY <1>0, <1>1 DEF Outside, Net!outside
<1>5. /\ counted \in Net!Info /\ counted.watch = netInfo.watch \cup {Net!CountChanged}
      /\ counted.cache = netInfo.cache /\ counted.currentMode = netInfo.currentMode
      /\ counted.timer = netInfo.timer
      /\ build.udev => counted.monitor = "on"
  BY <1>0, WithCountsIs DEF ServedBy
<1> HIDE DEF counted
<1>6. /\ taken \in Net!Info /\ taken.watch = IF skip THEN counted.watch
         ELSE counted.watch \cup {kind}
      /\ \A key \in Net!Key : skip \/ key[1] # kind => taken.cache[key] = netInfo.cache[key]
      /\ taken.currentMode = netInfo.currentMode /\ taken.timer = netInfo.timer
      /\ taken.monitor = counted.monitor
  <2>1. CASE skip
    BY <1>5, <2>1
  <2>2. CASE ~skip
    <3>1. kind \in Net!Polled
      BY <2>2
    <3> HIDE DEF kind
    <3>2. taken = Net!Snapshot(counted, kind)
      BY <2>2
    <3> HIDE DEF skip, taken
    <3> QED BY <1>0, <1>5, <2>2, <3>1, <3>2, NetSnapshotIs
  <2> QED BY <2>1, <2>2
<1> HIDE DEF taken
<1>7. /\ timed \in Net!Info /\ timed.watch = taken.watch /\ timed.cache = taken.cache
      /\ timed.currentMode = netInfo.currentMode /\ timed.monitor = counted.monitor
      /\ timed.timer = IF signal \in Net!Polled \cup {Net!ModeChanged} THEN "active"
         ELSE netInfo.timer
  <2>1. CASE signal \in Net!Polled \cup {Net!ModeChanged}
    BY <1>6, <2>1, TimerSet
  <2>2. CASE signal \notin Net!Polled \cup {Net!ModeChanged}
    BY <1>6, <2>2
  <2> QED BY <2>1, <2>2
<1> HIDE DEF timed
<1>8. /\ last \in Net!Info
      /\ last.watch = IF signal = Net!ModeChanged THEN timed.watch \cup {Net!ModeChanged}
         ELSE timed.watch
      /\ last.cache = timed.cache /\ last.timer = timed.timer /\ last.monitor = timed.monitor
      /\ signal # Net!ModeChanged => last.currentMode = netInfo.currentMode
  <2>1. CASE signal # Net!ModeChanged
    BY <1>7, <2>1
  <2>2. CASE signal = Net!ModeChanged
    <3> DEFINE w == timed.watch \cup {Net!ModeChanged}
    <3>1. w \in SUBSET Flags
      BY <1>7, InfoParts DEF Flags
    <3>2. mode \in Net!Modes
      BY ModeTyped
    <3> HIDE DEF mode
    <3>5. timed \in Net!Info
      BY <1>7
    <3> DEFINE f == [timed EXCEPT !.watch = w]
    <3>3. last = [f EXCEPT !.currentMode = mode]
      BY <2>2
    <3>6. f = [timed EXCEPT !.watch = w]
      OBVIOUS
    <3> HIDE DEF w, last, f
    <3>4. last \in Net!Info /\ last.watch = w /\ last.cache = timed.cache
          /\ last.timer = timed.timer /\ last.monitor = timed.monitor
      <4> DEFINE t == timed
      <4>1. f = InfoIs(w, t.counts, t.cache, t.currentMode, t.timer, t.monitor)
        BY <3>5, <3>6 DEF Net!Info, InfoIs
      <4>2. last = InfoIs(w, t.counts, t.cache, mode, t.timer, t.monitor)
        BY <3>3, <4>1 DEF InfoIs
      <4>3. InfoIs(w, t.counts, t.cache, mode, t.timer, t.monitor) \in Net!Info
        BY <3>1, <3>2, <3>5, InfoParts, InfoTyped
      <4> QED BY <4>2, <4>3 DEF InfoIs
    <3> QED BY <2>2, <3>4 DEF w
  <2> QED BY <2>1, <2>2
<1> HIDE DEF last
<1>9. last.watch = netInfo.watch \cup {Net!CountChanged} \cup (IF skip THEN {} ELSE {kind})
                     \cup (IF signal = Net!ModeChanged THEN {Net!ModeChanged} ELSE {})
  BY <1>5, <1>6, <1>7, <1>8
<1>10. ServedBy(connected', last)
  <2>1. CASE signal = Net!ModeChanged
    <3>1. Net!StatusChanged \in last.watch
      BY <1>5, <1>9, <2>1, Names
    <3>2. last.timer = "active"
      BY <1>7, <1>8, <2>1
    <3> QED BY <1>0, <1>1, <1>5, <1>7, <1>8, <1>9, <2>1, <3>1, <3>2 DEF ServedBy
  <2>2. CASE signal \in Net!Polled
    <3>1. signal # Net!ModeChanged /\ kind = signal /\ ~skip
      BY <2>2, Names
    <3>2. last.timer = "active"
      BY <1>7, <1>8, <2>2
    <3> HIDE DEF kind, skip
    <3>3. last.watch = netInfo.watch \cup {Net!CountChanged, signal}
      BY <1>9, <3>1
    <3> QED BY <1>0, <1>1, <1>5, <1>7, <1>8, <3>1, <3>2, <3>3, Names DEF ServedBy
  <2>3. CASE signal \notin Net!Polled /\ signal # Net!ModeChanged
    <3>1. skip
      BY <2>3
    <3>2. last.timer = netInfo.timer
      BY <1>7, <1>8, <2>3
    <3> HIDE DEF kind, skip
    <3>3. last.watch = netInfo.watch \cup {Net!CountChanged}
      BY <1>9, <2>3, <3>1
    <3> QED BY <1>0, <1>1, <1>5, <1>7, <1>8, <2>3, <3>2, <3>3, Names DEF ServedBy
  <2> QED BY <2>1, <2>2, <2>3
<1>11. ToldKeys(netTold') /\ \A key \in Net!Key \cup {Net!CurrentModeKey} :
         netTold'[key] = IF key[1] = signal THEN Net!Unread ELSE netTold[key]
  BY <1>0, <1>1, Forgotten
<1>12. MatchedBy(connected', last, netTold')
  <2> SUFFICES ASSUME NEW key \in Net!Key \cup {Net!CurrentModeKey}, key[1] \in connected',
                      netTold'[key] # Net!Unread
      PROVE  netTold'[key] = IF key \in Net!Key THEN last.cache[key] ELSE last.currentMode
    BY DEF MatchedBy
  <2>1. key[1] # signal /\ key[1] \in connected /\ netTold'[key] = netTold[key]
    BY <1>1, <1>11
  <2>2. netTold[key] = IF key \in Net!Key THEN netInfo.cache[key] ELSE netInfo.currentMode
    BY <1>0, <2>1 DEF MatchedBy
  <2>3. CASE key \in Net!Key
    <3>1. skip \/ key[1] # kind
      <4> SUFFICES ASSUME key[1] = kind PROVE skip
        OBVIOUS
      <4>1. signal = Net!ModeChanged /\ key[1] = Net!StatusChanged
        BY <2>1
      <4>2. Net!StatusChanged \in netInfo.watch
        BY <1>0, <2>1, <4>1, Names DEF ServedBy
      <4> QED BY <1>5, <4>1, <4>2
    <3>2. last.cache[key] = netInfo.cache[key]
      BY <1>6, <1>7, <1>8, <2>3, <3>1
    <3> QED BY <2>1, <2>2, <2>3, <3>2
  <2>4. CASE key \notin Net!Key
    <3>1. signal # Net!ModeChanged
      BY <2>1, <2>4, Names
    <3> QED BY <1>8, <2>1, <2>2, <2>4, <3>1
  <2> QED BY <2>3, <2>4
<1>13. connected' \subseteq NetSignal /\ UNCHANGED build
  BY <1>0, <1>1
<1> QED BY <1>2, <1>3, <1>4, <1>8, <1>10, <1>11, <1>12, <1>13, InvPrimed

LEMMA NetUnwatchedIs ==
  ASSUME NEW signal, netInfo \in Net!Info, ServedBy(connected, netInfo)
  PROVE  LET u == Net!Unwatched(signal)
         IN  /\ u \in Net!Info /\ u.cache = netInfo.cache /\ u.currentMode = netInfo.currentMode
             /\ u.timer = netInfo.timer /\ ServedBy(connected \ {signal}, u)
<1> DEFINE w == netInfo.watch \ {signal}
           e == [netInfo EXCEPT !.watch = w]
           o == [netInfo EXCEPT !.watch = w, !.monitor = "off"]
           u == Net!Unwatched(signal)
<1>1. e = InfoIs(w, netInfo.counts, netInfo.cache, netInfo.currentMode, netInfo.timer,
      netInfo.monitor)
  BY DEF Net!Info, InfoIs
<1>2. o = [e EXCEPT !.monitor = "off"]
  OBVIOUS
<1>3. w \in SUBSET Flags
  BY InfoParts
<1>4. w = netInfo.watch \ {signal}
  OBVIOUS
<1> DEFINE counting == signal = Net!CountChanged /\ netInfo.watch \cap Net!Polled = {}
           status == signal = Net!StatusChanged /\ Net!ModeChanged \notin netInfo.watch
           other == signal \in {Net!StrengthChanged, Net!NameChanged, Net!ModeChanged}
<1>20. u = IF build.ofono = "absent" THEN netInfo
           ELSE CASE counting -> IF netInfo.monitor = "none" THEN e ELSE o
                  [] status -> e [] other -> e [] OTHER -> netInfo
  BY DEF Net!Unwatched
<1>21. ~ (counting /\ status) /\ ~ (counting /\ other) /\ ~ (status /\ other)
  BY DEF Net!CountChanged, Net!StatusChanged, Net!StrengthChanged, Net!NameChanged, Net!ModeChanged
<1> HIDE DEF e, o, u
<1>22. \/ u = netInfo
       \/ counting /\ u \in {e, o}
       \/ status /\ u = e
       \/ other /\ u = e
  <2>1. CASE build.ofono = "absent"
    BY <1>20, <2>1
  <2>2. CASE build.ofono # "absent" /\ counting
    BY <1>20, <1>21, <2>2
  <2>3. CASE build.ofono # "absent" /\ status
    BY <1>20, <1>21, <2>3
  <2>4. CASE build.ofono # "absent" /\ other
    BY <1>20, <1>21, <2>4
  <2>5. CASE build.ofono # "absent" /\ ~counting /\ ~status /\ ~other
    BY <1>20, <2>5
  <2> QED BY <2>1, <2>2, <2>3, <2>4, <2>5
<1> HIDE DEF counting, status, other
<1>5. u \in {netInfo, e, o}
  BY <1>22
<1>6. u = e /\ u # netInfo => counting \/ status \/ other
  BY <1>22
<1>7. u = o /\ u # netInfo /\ u # e => counting
  BY <1>22
<1> HIDE DEF e, o, w
<1>8. o = InfoIs(w, netInfo.counts, netInfo.cache, netInfo.currentMode, netInfo.timer, "off")
  BY <1>1, <1>2 DEF InfoIs
<1>9. InfoIs(w, netInfo.counts, netInfo.cache, netInfo.currentMode, netInfo.timer,
      "off") \in Net!Info
      /\ InfoIs(w, netInfo.counts, netInfo.cache, netInfo.currentMode, netInfo.timer,
         netInfo.monitor) \in Net!Info
  BY <1>3, InfoParts, InfoTyped
<1>10. /\ e \in Net!Info /\ e.watch = w /\ e.cache = netInfo.cache
       /\ e.currentMode = netInfo.currentMode
       /\ e.timer = netInfo.timer /\ e.monitor = netInfo.monitor
  BY <1>1, <1>9 DEF InfoIs
<1>11. /\ o \in Net!Info /\ o.watch = w /\ o.cache = netInfo.cache
       /\ o.currentMode = netInfo.currentMode
       /\ o.timer = netInfo.timer /\ o.monitor = "off"
  BY <1>8, <1>9 DEF InfoIs
<1> HIDE DEF u
<1>12. /\ u \in Net!Info /\ u.cache = netInfo.cache /\ u.currentMode = netInfo.currentMode
       /\ u.timer = netInfo.timer
  BY <1>5, <1>10, <1>11
<1>13. CASE u = netInfo
  BY <1>12, <1>13 DEF ServedBy, u
<1>30. counting => Net!CountChanged \notin w /\ w \cap (Net!Polled \cup {Net!ModeChanged}) = {}
  BY <1>4, Names DEF ServedBy, counting
<1>14. CASE u = e /\ u # netInfo
  <2>1. CASE counting
    <3>1. ServedBy(connected \ {signal}, u)
      BY <1>4, <1>10, <1>14, <1>30, <2>1, Names DEF ServedBy
    <3> QED BY <1>12, <3>1 DEF u
  <2>2. CASE status \/ other
    <3>1. signal # Net!CountChanged /\ (signal = Net!StatusChanged => Net!ModeChanged \notin w)
      BY <1>4, <2>2 DEF status, other, Net!CountChanged, Net!StatusChanged, Net!StrengthChanged,
                      Net!NameChanged, Net!ModeChanged
    <3>2. ServedBy(connected \ {signal}, u)
      BY <1>4, <1>10, <1>14, <3>1 DEF ServedBy
    <3> QED BY <1>12, <3>2 DEF u
  <2> QED BY <1>6, <1>14, <2>1, <2>2
<1>15. CASE u = o /\ u # netInfo /\ u # e
  <2>1. ServedBy(connected \ {signal}, u)
    BY <1>4, <1>7, <1>11, <1>15, <1>30, Names DEF ServedBy
  <2> QED BY <1>12, <2>1 DEF u
<1> QED BY <1>5, <1>13, <1>14, <1>15

LEMMA DisconnectStep ==
  ASSUME NetInv, NEW signal, Net!Disconnect(signal)
  PROVE  NetInv'
<1> DEFINE u == Net!Unwatched(signal)
           idle == ~build.udev /\ u.watch = {} /\ netInfo.watch # {}
           t == IF idle /\ u.timer = "active" THEN "stopped" ELSE u.timer
           last == [u EXCEPT !.timer = t]
<1>0. /\ OfonoInv /\ Outside /\ Watching
      /\ connected \subseteq NetSignal /\ netInfo \in Net!Info /\ ToldKeys(netTold)
      /\ ServedBy(connected, netInfo) /\ MatchedBy(connected, netInfo, netTold)
  BY NetInvIs
<1>1. /\ connected' = connected \ {signal}
      /\ Net!OfonoDisconnect(signal) /\ Net!Forget(signal)
      /\ UNCHANGED <<build, Net!outside, netUevents, netChanges>>
      /\ fault' \in BOOLEAN
  BY DEF Net!Disconnect
<1>2. netInfo' = last
  BY DEF Net!Disconnect
<1>3. OfonoInv' /\ Watching'
  BY <1>0, <1>1, OfonoDisconnected
<1>4. Outside'
  BY <1>0, <1>1 DEF Outside, Net!outside
<1>5. /\ u \in Net!Info /\ u.cache = netInfo.cache /\ u.currentMode = netInfo.currentMode
      /\ u.timer = netInfo.timer /\ ServedBy(connected', u)
  BY <1>0, <1>1, NetUnwatchedIs
<1> HIDE DEF u
<1>6. t \in {"none", "stopped", "active"} /\ (t # u.timer => u.watch = {})
  BY <1>5, InfoParts
<1> HIDE DEF t
<1>7. /\ last \in Net!Info /\ last.watch = u.watch /\ last.cache = netInfo.cache
      /\ last.currentMode = netInfo.currentMode /\ last.timer = t /\ last.monitor = u.monitor
  BY <1>5, <1>6, TimerSet
<1> HIDE DEF last
<1>8. ServedBy(connected', last)
  BY <1>5, <1>6, <1>7 DEF ServedBy
<1>9. ToldKeys(netTold') /\ \A key \in Net!Key \cup {Net!CurrentModeKey} :
         netTold'[key] = IF key[1] = signal THEN Net!Unread ELSE netTold[key]
  BY <1>0, <1>1, Forgotten
<1>10. MatchedBy(connected', last, netTold')
  BY <1>0, <1>1, <1>7, <1>9 DEF MatchedBy
<1> QED BY <1>0, <1>1, <1>2, <1>3, <1>4, <1>7, <1>8, <1>9, <1>10, InvPrimed


\* What a step leaves of the invariant when it changes only what is outside.
LEMMA OutsideStep ==
  ASSUME NetInv, Outside', OfonoInv', UNCHANGED <<build, connected, netInfo, netTold>>,
         wrapper'.watchAllModems <=> wrapper.watchAllModems
  PROVE  NetInv'
<1>0. /\ OfonoInv /\ Outside /\ Watching
      /\ connected \subseteq NetSignal /\ netInfo \in Net!Info /\ ToldKeys(netTold)
      /\ ServedBy(connected, netInfo) /\ MatchedBy(connected, netInfo, netTold)
  BY NetInvIs
<1>1. Watching'
  BY <1>0 DEF Watching
<1>2. ServedBy(connected', netInfo') /\ MatchedBy(connected', netInfo', netTold')
      /\ ToldKeys(netTold')
  BY <1>0 DEF ServedBy, MatchedBy, ToldKeys
<1> QED BY <1>0, <1>1, <1>2, InvPrimed

LEMMA EventsTail ==
  ASSUME Outside, netUevents # <<>>
  PROVE  /\ Tail(netUevents) \in Seq([action : {"add", "remove"}, device : NetDevice])
         /\ Head(netUevents).device \in NetDevice
<1> DEFINE S == [action : {"add", "remove"}, device : NetDevice]
<1>1. netUevents \in Seq(S) /\ netUevents # <<>>
  BY DEF Outside
<1>2. Head(netUevents) \in S => Head(netUevents).device \in NetDevice
  OBVIOUS
<1> HIDE DEF S
<1>3. Head(netUevents) \in S /\ Tail(netUevents) \in Seq(S)
  BY <1>1
<1> QED BY <1>2, <1>3 DEF S

LEMMA OfonoSame ==
  ASSUME OfonoInv, UNCHANGED Net!ofonoVars
  PROVE  OfonoInv' /\ UNCHANGED wrapper
  BY DEF OfonoInv, Net!OfonoTypeOK, ListInv, Net!ofonoVars, Net!world

LEMMA UdevStep ==
  ASSUME NetInv, Net!OnUdevChanged
  PROVE  NetInv'
<1>0. /\ OfonoInv /\ Outside /\ Watching
      /\ connected \subseteq NetSignal /\ netInfo \in Net!Info /\ ToldKeys(netTold)
      /\ ServedBy(connected, netInfo) /\ MatchedBy(connected, netInfo, netTold)
  BY NetInvIs
<1> DEFINE event == Head(netUevents)
           step == IF event.action = "add" THEN 1 ELSE -1
           where == ModeOf[event.device]
           c == [netInfo.counts EXCEPT ![where] = @ + step]
           e == [netInfo EXCEPT !.counts = c]
<1>1. /\ netUevents # <<>> /\ netUevents' = Tail(netUevents)
      /\ UNCHANGED <<Net!ofonoVars, build, Net!outside, connected, netTold, fault, netChanges>>
  BY DEF Net!OnUdevChanged
<1>2. netInfo' = netInfo \/ netInfo' = e
  BY DEF Net!OnUdevChanged
<1>3. Outside'
  BY <1>0, <1>1, EventsTail DEF Outside, Net!outside
<1>4. OfonoInv' /\ Watching'
  BY <1>0, <1>1, OfonoSame DEF Watching
<1>5. c \in [Net!Local -> Int]
  <2>1. where \in Net!Local /\ netInfo.counts \in [Net!Local -> Int]
    BY <1>0, <1>1, EventsTail, NetworkAssumption, InfoParts
  <2>2. step \in Int
    OBVIOUS
  <2> HIDE DEF where, step
  <2> QED BY <2>1, <2>2
<1> HIDE DEF c
<1>6. e = InfoIs(netInfo.watch, c, netInfo.cache, netInfo.currentMode, netInfo.timer,
      netInfo.monitor)
  BY <1>0 DEF Net!Info, InfoIs
<1>7. InfoIs(netInfo.watch, c, netInfo.cache, netInfo.currentMode, netInfo.timer,
      netInfo.monitor) \in Net!Info
  BY <1>0, <1>5, InfoParts, InfoTyped
<1> HIDE DEF e
<1>8. /\ e \in Net!Info /\ e.watch = netInfo.watch /\ e.cache = netInfo.cache
      /\ e.currentMode = netInfo.currentMode /\ e.timer = netInfo.timer
      /\ e.monitor = netInfo.monitor
  BY <1>6, <1>7 DEF InfoIs
<1>9. /\ netInfo' \in Net!Info /\ netInfo'.watch = netInfo.watch /\ netInfo'.cache = netInfo.cache
      /\ netInfo'.currentMode = netInfo.currentMode /\ netInfo'.timer = netInfo.timer
      /\ netInfo'.monitor = netInfo.monitor
  BY <1>0, <1>2, <1>8
<1>10. ServedBy(connected', netInfo')
  BY <1>0, <1>1, <1>9 DEF ServedBy
<1>11. MatchedBy(connected', netInfo', netTold') /\ ToldKeys(netTold')
  BY <1>0, <1>1, <1>9 DEF MatchedBy, ToldKeys
<1> QED BY <1>0, <1>1, <1>3, <1>4, <1>9, <1>10, <1>11, InvPrimed

LEMMA LoseStep ==
  ASSUME NetInv, Net!LoseUdevEvent
  PROVE  NetInv'
<1>0. OfonoInv /\ Outside
  BY NetInvIs
<1>1. Outside'
  BY <1>0, EventsTail DEF Net!LoseUdevEvent, Outside, Net!outside
<1>2. OfonoInv' /\ UNCHANGED wrapper
  BY <1>0, OfonoSame DEF Net!LoseUdevEvent
<1> QED BY <1>1, <1>2, OutsideStep DEF Net!LoseUdevEvent

LEMMA SignalStep ==
  ASSUME NetInv, Net!OnOfonoSignal
  PROVE  NetInv'
<1>0. OfonoInv /\ Outside
  BY NetInvIs
<1>1. Outside'
  BY <1>0 DEF Net!OnOfonoSignal, Outside, Net!outside
<1>2. OfonoInv' /\ (wrapper'.watchAllModems <=> wrapper.watchAllModems)
  BY <1>0, MessageHandled DEF Net!OnOfonoSignal
<1> QED BY <1>1, <1>2, OutsideStep DEF Net!OnOfonoSignal

LEMMA MatchStep ==
  ASSUME NetInv, Net!MatchAdded
  PROVE  NetInv'
<1>0. OfonoInv /\ Outside
  BY NetInvIs
<1>1. Outside'
  BY <1>0 DEF Net!MatchAdded, Outside, Net!outside
<1>2. OfonoInv' /\ (wrapper'.watchAllModems <=> wrapper.watchAllModems)
  BY <1>0, MatchesAdded DEF Net!MatchAdded
<1> QED BY <1>1, <1>2, OutsideStep DEF Net!MatchAdded

LEMMA WorldStep ==
  ASSUME NetInv, Net!World
  PROVE  NetInv'
<1>0. OfonoInv /\ Outside /\ netChanges \in Nat /\ MaxNetChanges \in Nat
  BY NetInvIs, NetworkAssumption DEF Outside
<1>1. ASSUME Net!Changing PROVE netChanges' \in 0 .. MaxNetChanges
  BY <1>0, <1>1 DEF Net!Changing
<1>2. ASSUME NEW x \in NetDevice, NEW action \in {"add", "remove"}, Net!Event(action, x)
      PROVE  netUevents' \in Seq([action : {"add", "remove"}, device : NetDevice])
  <2> DEFINE event == [action |-> action, device |-> x]
             S == [action : {"add", "remove"}, device : NetDevice]
  <2>1. event \in S
    OBVIOUS
  <2>2. netUevents \in Seq(S)
    BY <1>0 DEF Outside
  <2>3. netUevents' = netUevents \/ netUevents' = Append(netUevents, event)
    BY <1>2 DEF Net!Event
  <2> HIDE DEF S, event
  <2>4. netUevents' \in Seq(S)
    BY <2>1, <2>2, <2>3
  <2> QED BY <2>4 DEF S
<1>3. ASSUME NEW x \in NetDevice, Net!Plug(x) PROVE NetInv'
  <2>1. netUevents' \in Seq([action : {"add", "remove"}, device : NetDevice])
    BY <1>2, <1>3 DEF Net!Plug
  <2>2. netChanges' \in 0 .. MaxNetChanges
    BY <1>1, <1>3 DEF Net!Plug
  <2>3. Outside'
    BY <1>0, <1>3, <2>1, <2>2 DEF Outside, Net!Plug, Net!Changing
  <2>4. OfonoInv' /\ UNCHANGED wrapper
    BY <1>0, <1>3, OfonoSame DEF Net!Plug
  <2> QED BY <1>3, <2>3, <2>4, OutsideStep DEF Net!Plug, Net!Changing
<1>4. ASSUME NEW x \in NetDevice, Net!Unplug(x) PROVE NetInv'
  <2>1. netUevents' \in Seq([action : {"add", "remove"}, device : NetDevice])
    BY <1>2, <1>4 DEF Net!Unplug
  <2>2. netChanges' \in 0 .. MaxNetChanges
    BY <1>1, <1>4 DEF Net!Unplug
  <2>3. Outside'
    BY <1>0, <1>4, <2>1, <2>2 DEF Outside, Net!Unplug, Net!Changing
  <2>4. OfonoInv' /\ UNCHANGED wrapper
    BY <1>0, <1>4, OfonoSame DEF Net!Unplug
  <2> QED BY <1>4, <2>3, <2>4, OutsideStep DEF Net!Unplug, Net!Changing
<1>5. ASSUME NEW x \in NetDevice, NEW c \in NetCondition, Net!ChangeCondition(x, c) PROVE NetInv'
  <2>2. netChanges' \in 0 .. MaxNetChanges
    BY <1>1, <1>5 DEF Net!ChangeCondition
  <2>3. netCondition' \in [NetDevice -> NetCondition]
    BY <1>0, <1>5 DEF Net!ChangeCondition, Outside
  <2>4. Outside'
    BY <1>0, <1>5, <2>2, <2>3 DEF Outside, Net!ChangeCondition, Net!Changing
  <2>5. OfonoInv' /\ UNCHANGED wrapper
    BY <1>0, <1>5, OfonoSame DEF Net!ChangeCondition
  <2> QED BY <1>5, <2>4, <2>5, OutsideStep DEF Net!ChangeCondition, Net!Changing
<1>6. CASE Net!ChangeModems
  <2>1. OfonoInv' /\ (wrapper'.watchAllModems <=> wrapper.watchAllModems)
    BY <1>0, <1>6, ModemsChange DEF Net!ChangeModems
  <2>2. netChanges' \in 0 .. MaxNetChanges
    BY <1>1, <1>6 DEF Net!ChangeModems
  <2>3. Outside'
    BY <1>0, <1>6, <2>2 DEF Outside, Net!ChangeModems, Net!Changing, Net!outside
  <2> QED BY <1>6, <2>1, <2>3, OutsideStep DEF Net!ChangeModems, Net!Changing
<1> QED BY <1>3, <1>4, <1>5, <1>6 DEF Net!World

LEMMA RecountedIs ==
  ASSUME Net!TypeOK, NEW d \in Net!Info
  PROVE  /\ Net!Recounted(d) \in Net!Info /\ Net!Recounted(d).watch = d.watch
         /\ Net!Recounted(d).cache = d.cache
         /\ Net!Recounted(d).currentMode = d.currentMode /\ Net!Recounted(d).timer = d.timer
         /\ Net!Recounted(d).monitor = d.monitor
<1> DEFINE e == [d EXCEPT !.counts = Counts]
<1>1. e = InfoIs(d.watch, Counts, d.cache, d.currentMode, d.timer, d.monitor)
  BY DEF Net!Info, InfoIs
<1>2. Net!Recounted(d) = d \/ Net!Recounted(d) = e
  BY DEF Net!Recounted, Counts
<1>3. InfoIs(d.watch, Counts, d.cache, d.currentMode, d.timer, d.monitor) \in Net!Info
  BY CountsTyped, InfoParts, InfoTyped
<1> HIDE DEF e
<1>4. /\ e \in Net!Info /\ e.watch = d.watch /\ e.cache = d.cache
      /\ e.currentMode = d.currentMode /\ e.timer = d.timer /\ e.monitor = d.monitor
  BY <1>1, <1>3 DEF InfoIs
<1> QED BY <1>2, <1>4

LEMMA TimeoutStep ==
  ASSUME NetInv, Net!OnTimeout
  PROVE  NetInv'
<1> DEFINE d == Net!Recounted(netInfo)
           polled == {key \in Net!Key : key[1] \in d.watch /\ Net!Counted(d, key)}
           c == [key \in Net!Key |-> IF key \in polled THEN Net!Get(d, key) ELSE d.cache[key]]
           read == [d EXCEPT !.cache = c]
           mode == Net!CurrentNetworkMode(read, Net!ModemProperty(1))
           news == [key \in DOMAIN netTold |->
                      CASE key \notin Net!Key -> IF mode # d.currentMode THEN mode ELSE netTold[key]
                        [] key \in Net!Key /\ read.cache[key] # d.cache[key] -> read.cache[key]
                        [] OTHER -> netTold[key]]
           last == IF Net!ModeChanged \in d.watch THEN [read EXCEPT !.currentMode = mode] ELSE read
<1>0. /\ Net!TypeOK /\ OfonoInv /\ Outside /\ Watching
      /\ connected \subseteq NetSignal /\ netInfo \in Net!Info /\ ToldKeys(netTold)
      /\ ServedBy(connected, netInfo) /\ MatchedBy(connected, netInfo, netTold)
  BY NetInvIs DEF NetInv
<1>1. UNCHANGED <<Net!ofonoVars, build, Net!outside, netUevents, connected, netChanges>>
      /\ fault' \in BOOLEAN
  BY DEF Net!OnTimeout
<1>2. netInfo' = last
  BY DEF Net!OnTimeout
<1>3. netTold' = [key \in DOMAIN netTold |-> IF key[1] \in connected THEN news[key]
      ELSE netTold[key]]
  BY DEF Net!OnTimeout
<1>4. DOMAIN netTold = Net!Key \cup {Net!CurrentModeKey}
  BY <1>0 DEF ToldKeys
<1>5. /\ d \in Net!Info /\ d.watch = netInfo.watch /\ d.cache = netInfo.cache
      /\ d.currentMode = netInfo.currentMode /\ d.timer = netInfo.timer
      /\ d.monitor = netInfo.monitor
  BY <1>0, RecountedIs
<1> HIDE DEF d
<1>6. c \in [Net!Key -> Net!Reading]
  <2> HIDE DEF polled
  <2> SUFFICES ASSUME NEW key \in Net!Key
      PROVE  (IF key \in polled THEN Net!Get(d, key) ELSE d.cache[key]) \in Net!Reading
    OBVIOUS
  <2>1. Net!Get(d, key) \in Net!Reading /\ d.cache[key] \in Net!Reading
    BY <1>0, <1>5, NetGetTyped, InfoParts
  <2> QED BY <2>1
<1> HIDE DEF polled, c
<1>7. read = InfoIs(d.watch, d.counts, c, d.currentMode, d.timer, d.monitor)
  BY <1>5 DEF Net!Info, InfoIs
<1>8. mode \in Net!Modes
  BY ModeTyped
<1> HIDE DEF read, mode
<1>9. last = InfoIs(d.watch, d.counts, c, IF Net!ModeChanged \in d.watch THEN mode ELSE d.currentMode,
                    d.timer, d.monitor)
  BY <1>7 DEF InfoIs
<1> DEFINE now == IF Net!ModeChanged \in d.watch THEN mode ELSE d.currentMode
<1>10. now \in Net!Modes
  BY <1>5, <1>8, InfoParts
<1>11. last = InfoIs(d.watch, d.counts, c, now, d.timer, d.monitor)
  BY <1>9
<1> HIDE DEF now, last
<1>12. InfoIs(d.watch, d.counts, c, now, d.timer, d.monitor) \in Net!Info
  BY <1>5, <1>6, <1>10, InfoParts, InfoTyped
<1>13. /\ last \in Net!Info /\ last.watch = netInfo.watch /\ last.cache = c
       /\ last.currentMode = now
       /\ last.timer = netInfo.timer /\ last.monitor = netInfo.monitor
  BY <1>5, <1>11, <1>12 DEF InfoIs
<1>14. read.cache = c
  BY <1>7 DEF InfoIs
<1>15. ASSUME NEW key \in Net!Key \cup {Net!CurrentModeKey}
       PROVE  netTold'[key] = IF key[1] \in connected
                             THEN IF key \notin Net!Key THEN IF mode # netInfo.currentMode
                                  THEN mode ELSE netTold[key]
                                  ELSE IF c[key] # netInfo.cache[key] THEN c[key] ELSE netTold[key]
                             ELSE netTold[key]
  <2>1. key \in DOMAIN netTold
    BY <1>4
  <2>2. netTold'[key] = IF key[1] \in connected THEN news[key] ELSE netTold[key]
    <3> HIDE DEF news
    <3> QED BY <1>3, <2>1
  <2>3. news[key] = CASE key \notin Net!Key -> IF mode # d.currentMode THEN mode ELSE netTold[key]
                      [] key \in Net!Key /\ read.cache[key] # d.cache[key] -> read.cache[key]
                      [] OTHER -> netTold[key]
    BY <2>1
  <2> HIDE DEF news
  <2> QED BY <1>5, <1>14, <2>2, <2>3
<1>16. ToldKeys(netTold')
  <2> HIDE DEF news
  <2> QED BY <1>3, <1>4 DEF ToldKeys
<1> HIDE DEF news
<1>17. ServedBy(connected', last)
  BY <1>0, <1>1, <1>13 DEF ServedBy
<1>18. MatchedBy(connected', last, netTold')
  <2> SUFFICES ASSUME NEW key \in Net!Key \cup {Net!CurrentModeKey}, key[1] \in connected,
                      netTold'[key] # Net!Unread
      PROVE  netTold'[key] = IF key \in Net!Key THEN last.cache[key] ELSE last.currentMode
    BY <1>1 DEF MatchedBy
  <2>1. netTold[key] # Net!Unread => netTold[key] = IF key \in Net!Key THEN netInfo.cache[key]
        ELSE netInfo.currentMode
    BY <1>0 DEF MatchedBy
  <2>2. CASE key \in Net!Key
    BY <1>13, <1>15, <2>1, <2>2
  <2>3. CASE key \notin Net!Key
    <3>1. Net!ModeChanged \in netInfo.watch
      BY <1>0, <2>3, Names DEF ServedBy
    <3>2. now = mode
      BY <1>5, <3>1 DEF now
    <3> QED BY <1>13, <1>15, <2>1, <2>3, <3>2
  <2> QED BY <2>2, <2>3
<1>19. OfonoInv' /\ Watching' /\ Outside'
  BY <1>0, <1>1, OfonoSame DEF Watching, Outside, Net!outside
<1> QED BY <1>0, <1>1, <1>2, <1>13, <1>16, <1>17, <1>18, <1>19, InvPrimed

LEMMA NetPreserves == NetInv /\ [Net!Next]_(Net!vars) => NetInv'
<1> SUFFICES ASSUME NetInv, [Net!Next]_(Net!vars) PROVE NetInv'
  OBVIOUS
<1>1. CASE Net!World
  BY <1>1, WorldStep
<1>2. CASE Net!LoseUdevEvent
  BY <1>2, LoseStep
<1>3. CASE Net!Application
  <2>1. ASSUME NEW signal \in NetSignal, Net!Connect(signal) PROVE NetInv'
    BY <2>1, ConnectStep
  <2>2. ASSUME NEW signal \in NetSignal, Net!Disconnect(signal) PROVE NetInv'
    BY <2>2, DisconnectStep
  <2> QED BY <1>3, <2>1, <2>2 DEF Net!Application
<1>4. CASE Net!EventLoop
  BY <1>4, UdevStep, TimeoutStep, SignalStep DEF Net!EventLoop
<1>5. CASE UNCHANGED Net!vars
  <2>0. OfonoInv /\ Outside
    BY NetInvIs
  <2>1. Outside'
    BY <1>5, <2>0 DEF Net!vars, Net!outside, Outside
  <2>2. OfonoInv' /\ UNCHANGED wrapper
    BY <1>5, <2>0, OfonoSame DEF Net!vars
  <2>3. UNCHANGED <<build, connected, netInfo, netTold>>
    BY <1>5 DEF Net!vars
  <2> QED BY <2>1, <2>2, <2>3, OutsideStep
<1>6. CASE Net!MatchAdded
  BY <1>6, MatchStep
<1> QED BY <1>1, <1>2, <1>3, <1>4, <1>5, <1>6 DEF Net!Next

LEMMA InvListFollows == NetInv => Net!ModemListFollows
  BY NetInvIs, ListFollows DEF OfonoInv, Net!OfonoTypeOK, Message0
-----------------------------------------------------------------------------
(***************************************************************************)
(* The input devices: an entry of the map whose device went has its        *)
(* removal among the messages, and what the managers offer is what they    *)
(* filter.                                                                 *)
(***************************************************************************)
Messages == Seq([action : {"add", "remove"}, name : Inp!Name, device : InputDevice])
Pending(action, name) ==
  \E n \in 1 .. Len(inputUevents) : inputUevents[n].action = action /\ inputUevents[n].name = name
Managed == [made : BOOLEAN, filter : SUBSET Inp!AllTypes, map : SUBSET Inp!Entry,
            count : {Inp!Cardinality(map) : map \in SUBSET Inp!Entry}, filtered : BOOLEAN]

InputTyped ==
  /\ node \in [InputDevice -> {"absent", "coming", "there", "leaving", "gone"}]
  /\ phase \in {"waiting", "listening", "listed"} /\ (monitored <=> phase # "waiting")
  /\ monitored \in BOOLEAN
  /\ inputDeviceMap \subseteq Inp!Entry
  /\ phase # "listed" => inputDeviceMap = {}
  /\ \A e, f \in inputDeviceMap : e.key = f.key => e = f
  /\ manager \in [Manager -> Managed]
  /\ inputUevents \in Messages
OneEventNode ==
  \A d, e \in InputDevice : node[d] = "there" /\ node[e] = "there"
                            /\ EventName[d] = EventName[e] => d = e
EntriesLeave ==
  \A e \in inputDeviceMap :
    \/ /\ e.key = EventName[e.device]
       /\ \/ node[e.device] = "there"
          \/ node[e.device] \in {"leaving", "gone"} /\ Pending("remove", e.key)
    \/ /\ e.key = InputName[e.device]
       /\ \/ node[e.device] \in {"there", "leaving"}
          \/ node[e.device] = "gone" /\ Pending("remove", e.key)
UnmadeUnfiltered == \A m \in Manager : ~manager[m].made => ~manager[m].filtered
  /\ manager[m].map = {}
InpInv == InputTyped /\ OneEventNode /\ EntriesLeave /\ Inp!FiltersCurrent /\ UnmadeUnfiltered

LEMMA InvNoGhosts == InpInv => Inp!NoGhostDevices
<1> SUFFICES ASSUME InpInv, inputUevents = <<>>, NEW e \in inputDeviceMap PROVE node[e.device] # "gone"
  BY DEF Inp!NoGhostDevices
<1>1. \A action, name : ~Pending(action, name)
  BY DEF Pending
<1> QED BY <1>1 DEF InpInv, EntriesLeave

LEMMA InpInvTypes == InpInv => Inp!TypeOK
  BY DEF InpInv, InputTyped, Inp!TypeOK, Managed

LEMMA InpInitInv == Inp!Init => InpInv
<1> SUFFICES ASSUME Inp!Init PROVE InpInv
  OBVIOUS
<1>1. Inp!Unmade \in Managed
  BY FS_EmptySet, SameCardinality DEF Inp!Unmade, Managed
<1>2. InputTyped
  <2>1. node \in [InputDevice -> {"absent", "coming", "there", "leaving", "gone"}]
    BY DEF Inp!Init
  <2>2. inputUevents \in Messages
    BY DEF Inp!Init, Messages
  <2>3. manager \in [Manager -> Managed]
    BY <1>1 DEF Inp!Init
  <2>4. monitored = FALSE /\ phase = "waiting" /\ inputDeviceMap = {}
    BY DEF Inp!Init
  <2> QED BY <2>1, <2>2, <2>3, <2>4 DEF InputTyped
<1> QED BY <1>2 DEF Inp!Init, InpInv, OneEventNode, EntriesLeave, Inp!FiltersCurrent,
    UnmadeUnfiltered, Inp!Unmade

\* What Refreshed leaves.
LEMMA SetFilterIs ==
  ASSUME NEW m \in Managed, NEW map \in SUBSET Inp!Entry, NEW filter \in SUBSET Inp!AllTypes
  PROVE  /\ Inp!SetFilter(m, map, filter) \in Managed
         /\ Inp!SetFilter(m, map, filter).filter = filter
         /\ Inp!SetFilter(m, map, filter).map = Inp!Filtered(map, filter)
         /\ Inp!SetFilter(m, map, filter).count = Inp!Cardinality(Inp!Filtered(map, filter))
         /\ Inp!SetFilter(m, map, filter).filtered
         /\ Inp!SetFilter(m, map, filter).made <=> m.made
<1>1. Inp!Filtered(map, filter) \in SUBSET Inp!Entry
  BY DEF Inp!Filtered
<1> QED BY <1>1 DEF Inp!SetFilter, Managed

LEMMA RefreshedInv ==
  ASSUME InputTyped, UnmadeUnfiltered, inputDeviceMap' \in SUBSET Inp!Entry,
         manager' = Inp!Refreshed(inputDeviceMap')
  PROVE  manager' \in [Manager -> Managed] /\ Inp!FiltersCurrent' /\ UnmadeUnfiltered'
<1>1. \A m \in Manager :
        /\ manager'[m] = IF manager[m].made THEN Inp!SetFilter(manager[m], inputDeviceMap',
           manager[m].filter)
                         ELSE manager[m]
        /\ manager[m] \in Managed /\ manager[m].filter \in SUBSET Inp!AllTypes
  BY DEF Inp!Refreshed, InputTyped, Managed
<1>2. \A m \in Manager :
        /\ manager'[m] \in Managed /\ manager'[m].filter = manager[m].filter
        /\ IF manager[m].made
           THEN /\ manager'[m].made /\ manager'[m].filtered
                /\ manager'[m].map = Inp!Filtered(inputDeviceMap', manager'[m].filter)
                /\ manager'[m].count = Inp!Cardinality(manager'[m].map)
           ELSE manager'[m] = manager[m]
  <2>1. TAKE m \in Manager
  <2>2. CASE manager[m].made
    BY <1>1, <2>2, SetFilterIs
  <2>3. CASE ~manager[m].made
    BY <1>1, <2>3
  <2> QED BY <2>2, <2>3
<1>3. manager' = [m \in Manager |-> manager'[m]]
  BY DEF Inp!Refreshed
<1>4. manager' \in [Manager -> Managed]
  BY <1>2, <1>3
<1>5. Inp!FiltersCurrent'
  <2>1. SUFFICES ASSUME NEW m \in Manager
        PROVE /\ manager'[m].map \subseteq inputDeviceMap'
              /\ manager'[m].filtered =>
                   /\ manager'[m].map = Inp!Filtered(inputDeviceMap', manager'[m].filter)
                   /\ manager'[m].count = Inp!Cardinality(manager'[m].map)
    BY DEF Inp!FiltersCurrent
  <2>2. CASE manager[m].made
    BY <1>2, <2>2 DEF Inp!Filtered
  <2>3. CASE ~manager[m].made
    BY <1>2, <2>3 DEF UnmadeUnfiltered
  <2> QED BY <2>2, <2>3
<1>6. UnmadeUnfiltered'
  BY <1>2 DEF UnmadeUnfiltered
<1> QED BY <1>4, <1>5, <1>6

LEMMA TailMessages ==
  ASSUME inputUevents \in Messages, inputUevents # <<>>
  PROVE  /\ Tail(inputUevents) \in Messages /\ Head(inputUevents).name \in Inp!Name
         /\ Head(inputUevents).device \in InputDevice
<1> DEFINE M == [action : {"add", "remove"}, name : Inp!Name, device : InputDevice]
<1>1. inputUevents \in Seq(M)
  BY DEF Messages
<1>2. Tail(inputUevents) \in Seq(M) /\ Head(inputUevents) \in M
  <2> HIDE DEF M
  <2> QED BY <1>1
<1> QED BY <1>2 DEF Messages

\* A message that is received is no longer pending, and every other still is.
LEMMA TailPending ==
  ASSUME inputUevents \in Messages, inputUevents # <<>>, inputUevents' = Tail(inputUevents),
         NEW action, NEW name,
         Pending(action, name)
  PROVE  \/ Pending(action, name)'
         \/ Head(inputUevents).action = action /\ Head(inputUevents).name = name
<1>1. PICK n \in 1 .. Len(inputUevents) : inputUevents[n].action = action
      /\ inputUevents[n].name = name
  BY DEF Pending
<1>2. CASE n = 1
  BY <1>1, <1>2
<1>3. CASE n # 1
  <2>1. n - 1 \in 1 .. Len(inputUevents') /\ inputUevents'[n - 1] = inputUevents[n]
    BY <1>1, <1>3 DEF Messages
  <2> QED BY <1>1, <2>1 DEF Pending
<1> QED BY <1>2, <1>3

LEMMA AppendPending ==
  ASSUME inputUevents \in Messages, NEW message \in [action : {"add", "remove"}, name : Inp!Name,
         device : InputDevice],
         inputUevents' = Append(inputUevents, message)
  PROVE  /\ inputUevents' \in Messages
         /\ \A action, name : Pending(action, name) => Pending(action, name)'
         /\ Pending(message.action, message.name)'
<1>1. inputUevents' \in Messages /\ Len(inputUevents') = Len(inputUevents) + 1
      /\ Len(inputUevents) \in Nat
  BY DEF Messages
<1>2. \A n \in 1 .. Len(inputUevents) : inputUevents'[n] = inputUevents[n]
  BY DEF Messages
<1>3. inputUevents'[Len(inputUevents) + 1] = message
  BY DEF Messages
<1>4. ASSUME NEW action, NEW name, Pending(action, name) PROVE Pending(action, name)'
  BY <1>1, <1>2, <1>4 DEF Pending
<1>5. Pending(message.action, message.name)'
  <2>1. Len(inputUevents) + 1 \in 1 .. Len(inputUevents')
    BY <1>1
  <2> QED BY <1>3, <2>1 DEF Pending
<1> QED BY <1>1, <1>4, <1>5

LEMMA KernelInv ==
  ASSUME InpInv, NEW d \in InputDevice, NEW from, NEW to, NEW action, NEW name,
         Inp!Step(d, from, to, action, name),
         action \in {"add", "remove"}, name \in Inp!Name,
         \/ from = "absent" /\ to = "coming"
         \/ /\ from = "coming" /\ to = "there"
            /\ \A e \in InputDevice : node[e] = "there" => EventName[e] # EventName[d]
         \/ from = "there" /\ to = "leaving" /\ action = "remove" /\ name = EventName[d]
         \/ from = "leaving" /\ to = "gone" /\ action = "remove" /\ name = InputName[d]
  PROVE  InpInv'
<1> DEFINE message == [action |-> action, name |-> name, device |-> d]
<1>1. /\ node[d] = from /\ node' = [node EXCEPT ![d] = to]
      /\ inputUevents' = IF monitored THEN Append(inputUevents, message) ELSE inputUevents
      /\ UNCHANGED <<monitored, phase, inputDeviceMap, manager>>
  BY DEF Inp!Step
<1>2. /\ message \in [action : {"add", "remove"}, name : Inp!Name, device : InputDevice]
      /\ message.action = action /\ message.name = name
  OBVIOUS
<1> HIDE DEF message
<1>3. inputUevents' \in Messages /\ \A a, n : Pending(a, n) => Pending(a, n)'
  BY <1>1, <1>2, AppendPending DEF InpInv, InputTyped, Pending
<1>4. monitored => Pending(action, name)'
  BY <1>1, <1>2, AppendPending DEF InpInv, InputTyped
<1>5. InputTyped'
  BY <1>1, <1>3 DEF InpInv, InputTyped
<1>6. OneEventNode'
  BY <1>1 DEF InpInv, InputTyped, OneEventNode
<1>7. EntriesLeave'
  <2>1. SUFFICES ASSUME NEW e \in inputDeviceMap
        PROVE \/ /\ e.key = EventName[e.device]
                 /\ \/ node'[e.device] = "there"
                    \/ node'[e.device] \in {"leaving", "gone"} /\ Pending("remove", e.key)'
              \/ /\ e.key = InputName[e.device]
                 /\ \/ node'[e.device] \in {"there", "leaving"}
                    \/ node'[e.device] = "gone" /\ Pending("remove", e.key)'
    BY <1>1 DEF EntriesLeave
  <2>2. monitored /\ e \in Inp!Entry /\ e.device \in InputDevice
    BY DEF InpInv, InputTyped, Inp!Entry
  <2>3. CASE e.device # d
    <3>1. node'[e.device] = node[e.device]
      BY <1>1, <2>3 DEF InpInv, InputTyped
    <3> QED BY <1>3, <3>1 DEF InpInv, EntriesLeave
  <2>4. CASE e.device = d
    <3>1. node'[d] = to /\ node[d] = from /\ Pending(action, name)'
      BY <1>1, <1>4, <2>2 DEF InpInv, InputTyped
    <3> QED BY <1>3, <2>4, <3>1 DEF InpInv, EntriesLeave
  <2> QED BY <2>3, <2>4
<1>8. Inp!FiltersCurrent' /\ UnmadeUnfiltered'
  BY <1>1 DEF InpInv, Inp!FiltersCurrent, UnmadeUnfiltered
<1> QED BY <1>5, <1>6, <1>7, <1>8 DEF InpInv

LEMMA InpPreserves == InpInv /\ [Inp!Next]_(Inp!vars) => InpInv'
<1> SUFFICES ASSUME InpInv, [Inp!Next]_(Inp!vars) PROVE InpInv'
  OBVIOUS
<1>1. CASE Inp!StartListening
  <2>1. InputTyped'
    BY <1>1 DEF Inp!StartListening, InpInv, InputTyped
  <2> QED BY <1>1, <2>1 DEF Inp!StartListening, InpInv, OneEventNode, EntriesLeave, Pending,
                            Inp!FiltersCurrent, UnmadeUnfiltered
<1>2. CASE Inp!ListDevices
  <2>1. PICK listed \in SUBSET {d \in InputDevice : Inp!Addable(d, InputName[d])} :
          inputDeviceMap' = {[key |-> EventName[d], device |-> d] : d \in listed}
    BY <1>2 DEF Inp!ListDevices
  <2>2. \A d \in listed : d \in InputDevice /\ node[d] = "there"
    BY DEF Inp!Addable
  <2>3. inputDeviceMap' \in SUBSET Inp!Entry
    BY <2>1, <2>2 DEF Inp!Entry, Inp!Name
  <2>4. \A e \in inputDeviceMap' : e.device \in listed /\ e = [key |-> EventName[e.device],
                                   device |-> e.device]
    BY <2>1
  <2>5. manager' \in [Manager -> Managed] /\ Inp!FiltersCurrent' /\ UnmadeUnfiltered'
    BY <1>2, <2>3, RefreshedInv DEF Inp!ListDevices, InpInv
  <2>6. \A e, f \in inputDeviceMap' : e.key = f.key => e = f
    <3>1. TAKE e, f \in inputDeviceMap'
    <3>2. e.key = EventName[e.device] /\ f.key = EventName[f.device]
      BY <2>4
    <3>3. e.key = f.key => e.device = f.device
      BY <2>2, <2>4, <3>2 DEF InpInv, OneEventNode
    <3> QED BY <2>4, <3>3
  <2>7. InputTyped'
    BY <1>2, <2>3, <2>5, <2>6 DEF Inp!ListDevices, InpInv, InputTyped
  <2>8. OneEventNode'
    BY <1>2 DEF Inp!ListDevices, InpInv, OneEventNode
  <2>9. EntriesLeave'
    BY <1>2, <2>2, <2>4 DEF Inp!ListDevices, EntriesLeave
  <2> QED BY <2>5, <2>7, <2>8, <2>9 DEF InpInv
<1>3. CASE Inp!DeviceAdded
  <2> DEFINE name == Head(inputUevents).name
             d == Head(inputUevents).device
  <2>1. /\ phase = "listed" /\ inputUevents # <<>> /\ Head(inputUevents).action = "add"
        /\ inputUevents' = Tail(inputUevents) /\ UNCHANGED <<node, monitored, phase>>
    BY <1>3 DEF Inp!DeviceAdded
  <2>2. inputUevents' \in Messages /\ name \in Inp!Name /\ d \in InputDevice
    BY <2>1, TailMessages DEF InpInv, InputTyped
  <2>3. \A key : Pending("remove", key) => Pending("remove", key)'
    BY <2>1, TailPending DEF InpInv, InputTyped
  <2>4. \/ /\ name \notin Inp!Keys /\ Inp!Addable(d, name)
           /\ inputDeviceMap' = inputDeviceMap \cup {[key |-> name, device |-> d]}
           /\ manager' = Inp!Refreshed(inputDeviceMap')
        \/ UNCHANGED <<inputDeviceMap, manager>>
    BY <1>3 DEF Inp!DeviceAdded
  <2> HIDE DEF name, d
  <2>5. OneEventNode'
    BY <2>1 DEF InpInv, OneEventNode
  <2>6. CASE UNCHANGED <<inputDeviceMap, manager>>
    <3>1. InputTyped'
      BY <2>1, <2>2, <2>6 DEF InpInv, InputTyped
    <3>2. EntriesLeave'
      BY <2>1, <2>3, <2>6 DEF InpInv, EntriesLeave
    <3> QED BY <2>5, <2>6, <3>1, <3>2 DEF InpInv, Inp!FiltersCurrent, UnmadeUnfiltered
  <2>7. CASE /\ name \notin Inp!Keys /\ Inp!Addable(d, name)
             /\ inputDeviceMap' = inputDeviceMap \cup {[key |-> name, device |-> d]}
             /\ manager' = Inp!Refreshed(inputDeviceMap')
    <3> DEFINE entry == [key |-> name, device |-> d]
    <3>1. /\ entry \in Inp!Entry /\ entry.key = name /\ entry.device = d
          /\ name = InputName[d] /\ node[d] = "there"
      BY <2>2, <2>7 DEF Inp!Entry, Inp!Addable
    <3>2. \A e \in inputDeviceMap : e.key # name
      BY <2>7 DEF Inp!Keys
    <3> HIDE DEF entry
    <3>3. inputDeviceMap' = inputDeviceMap \cup {entry} /\ inputDeviceMap' \in SUBSET Inp!Entry
      BY <2>7, <3>1 DEF InpInv, InputTyped, entry
    <3>4. manager' \in [Manager -> Managed] /\ Inp!FiltersCurrent' /\ UnmadeUnfiltered'
      BY <2>7, <3>3, RefreshedInv DEF InpInv
    <3>5. \A e, f \in inputDeviceMap' : e.key = f.key => e = f
      BY <3>1, <3>2, <3>3 DEF InpInv, InputTyped
    <3>6. InputTyped'
      BY <2>1, <2>2, <3>3, <3>4, <3>5 DEF InpInv, InputTyped
    <3>7. EntriesLeave'
      BY <2>1, <2>3, <3>1, <3>3 DEF InpInv, EntriesLeave
    <3> QED BY <2>5, <3>4, <3>6, <3>7 DEF InpInv
  <2> QED BY <2>4, <2>6, <2>7
<1>4. CASE Inp!DeviceRemoved
  <2> DEFINE removed == {e \in inputDeviceMap : Contains[<<e.key, Head(inputUevents).name>>]}
  <2>1. /\ phase = "listed" /\ inputUevents # <<>> /\ Head(inputUevents).action = "remove"
        /\ inputUevents' = Tail(inputUevents) /\ UNCHANGED <<node, monitored, phase>>
        /\ inputDeviceMap' = inputDeviceMap \ removed
        /\ manager' = IF removed = {} THEN manager ELSE Inp!Refreshed(inputDeviceMap')
    BY <1>4 DEF Inp!DeviceRemoved
  <2>2. inputUevents' \in Messages /\ Head(inputUevents).name \in Inp!Name
    BY <2>1, TailMessages DEF InpInv, InputTyped
  <2>3. \A e \in inputDeviceMap : e.key = Head(inputUevents).name => e \in removed
    BY <2>2, InputAssumption
  <2>4. \A e \in inputDeviceMap' : Pending("remove", e.key) => Pending("remove", e.key)'
    BY <2>1, <2>3, TailPending DEF InpInv, InputTyped
  <2>5. inputDeviceMap' \subseteq inputDeviceMap /\ inputDeviceMap' \in SUBSET Inp!Entry
        /\ (removed = {} => inputDeviceMap' = inputDeviceMap)
    BY <2>1 DEF InpInv, InputTyped
  <2> HIDE DEF removed
  <2>6. manager' \in [Manager -> Managed] /\ Inp!FiltersCurrent' /\ UnmadeUnfiltered'
    <3>1. CASE removed = {}
      BY <2>1, <2>5, <3>1 DEF InpInv, InputTyped, Inp!FiltersCurrent, UnmadeUnfiltered
    <3>2. CASE removed # {}
      BY <2>1, <2>5, <3>2, RefreshedInv DEF InpInv
    <3> QED BY <3>1, <3>2
  <2>7. InputTyped'
    BY <2>1, <2>2, <2>5, <2>6 DEF InpInv, InputTyped
  <2>8. OneEventNode'
    BY <2>1 DEF InpInv, OneEventNode
  <2>9. EntriesLeave'
    BY <2>1, <2>4, <2>5 DEF InpInv, EntriesLeave
  <2> QED BY <2>6, <2>7, <2>8, <2>9 DEF InpInv
<1>5. ASSUME NEW d \in InputDevice, Inp!PlugInput(d) \/ Inp!PlugEvent(d) \/ Inp!UnplugEvent(d) \/ Inp!UnplugInput(d)
      PROVE InpInv'
  <2>1. InputName[d] \in Inp!Name /\ EventName[d] \in Inp!Name
    BY DEF Inp!Name
  <2>2. CASE Inp!PlugInput(d)
    BY <2>1, <2>2, KernelInv DEF Inp!PlugInput
  <2>3. CASE Inp!PlugEvent(d)
    BY <2>1, <2>3, KernelInv DEF Inp!PlugEvent
  <2>4. CASE Inp!UnplugEvent(d)
    BY <2>1, <2>4, KernelInv DEF Inp!UnplugEvent
  <2>5. CASE Inp!UnplugInput(d)
    BY <2>1, <2>5, KernelInv DEF Inp!UnplugInput
  <2> QED BY <1>5, <2>2, <2>3, <2>4, <2>5
<1>6. ASSUME NEW m \in Manager, Inp!Make(m) PROVE InpInv'
  <2>1. /\ manager' = [manager EXCEPT ![m].made = TRUE]
        /\ UNCHANGED <<node, monitored, inputUevents, phase, inputDeviceMap>>
    BY <1>6 DEF Inp!Make
  <2>2. manager' \in [Manager -> Managed]
        /\ \A n \in Manager : /\ manager'[n].map = manager[n].map
                              /\ manager'[n].filter = manager[n].filter
                              /\ manager'[n].count = manager[n].count
                              /\ manager'[n].filtered <=> manager[n].filtered
                              /\ manager[n].made => manager'[n].made
    BY <2>1 DEF InpInv, InputTyped, Managed
  <2>3. InputTyped'
    BY <2>1, <2>2 DEF InpInv, InputTyped
  <2>4. Inp!FiltersCurrent' /\ UnmadeUnfiltered'
    BY <2>1, <2>2 DEF InpInv, Inp!FiltersCurrent, UnmadeUnfiltered
  <2> QED BY <2>1, <2>3, <2>4 DEF InpInv, OneEventNode, EntriesLeave, Pending
<1>7. ASSUME NEW m \in Manager, NEW filter \in InputFilter, Inp!ChangeFilter(m,
             filter) PROVE InpInv'
  <2>1. /\ manager[m].made
        /\ manager' = [manager EXCEPT ![m] = Inp!SetFilter(manager[m], inputDeviceMap, filter)]
        /\ UNCHANGED <<node, monitored, inputUevents, phase, inputDeviceMap>>
    BY <1>7 DEF Inp!ChangeFilter
  <2> DEFINE new == Inp!SetFilter(manager[m], inputDeviceMap, filter)
  <2>2. manager[m] \in Managed /\ inputDeviceMap \in SUBSET Inp!Entry
        /\ filter \in SUBSET Inp!AllTypes
    BY InputAssumption DEF InpInv, InputTyped
  <2>3. /\ new \in Managed /\ new.filter = filter /\ new.map = Inp!Filtered(inputDeviceMap, filter)
        /\ new.count = Inp!Cardinality(new.map) /\ new.filtered
    BY <2>2, SetFilterIs
  <2>4. new.made <=> manager[m].made
    BY <2>2, SetFilterIs
  <2> HIDE DEF new
  <2>5. manager' = [manager EXCEPT ![m] = new]
    BY <2>1 DEF new
  <2>6. InputTyped'
    BY <2>1, <2>3, <2>5 DEF InpInv, InputTyped
  <2>7. Inp!FiltersCurrent'
    <3>1. SUFFICES ASSUME NEW n \in Manager
          PROVE /\ manager'[n].map \subseteq inputDeviceMap
                /\ manager'[n].filtered =>
                     /\ manager'[n].map = Inp!Filtered(inputDeviceMap, manager'[n].filter)
                     /\ manager'[n].count = Inp!Cardinality(manager'[n].map)
      BY <2>1 DEF Inp!FiltersCurrent, Inp!Filtered
    <3>2. CASE n = m
      BY <2>3, <2>5, <3>2 DEF InpInv, InputTyped, Inp!Filtered
    <3>3. CASE n # m
      <4>1. manager'[n] = manager[n]
        BY <2>5, <3>3 DEF InpInv, InputTyped
      <4> QED BY <4>1 DEF InpInv, Inp!FiltersCurrent
    <3> QED BY <3>2, <3>3
  <2>8. UnmadeUnfiltered'
    BY <2>1, <2>3, <2>4, <2>5 DEF InpInv, InputTyped, UnmadeUnfiltered
  <2> QED BY <2>1, <2>6, <2>7, <2>8 DEF InpInv, OneEventNode, EntriesLeave, Pending
<1>8. CASE UNCHANGED Inp!vars
  BY <1>8 DEF Inp!vars, InpInv, InputTyped, OneEventNode, EntriesLeave, Pending,
    Inp!FiltersCurrent, UnmadeUnfiltered
<1> QED BY <1>1, <1>2, <1>3, <1>4, <1>5, <1>6, <1>7, <1>8 DEF Inp!Next
-----------------------------------------------------------------------------
(***************************************************************************)
(* The QML model of the input devices: its rows are the devices there are  *)
(* that the filter admits, each of them once.                              *)
(***************************************************************************)
ModelInv == Model!TypeOK /\ Model!RowsAreDevices /\ modelDeviceMap \cap deleted = {}

Once(rows) == \A i, j \in 1 .. Len(rows) : rows[i] = rows[j] => i = j

LEMMA SubIs ==
  ASSUME NEW D, NEW s \in Seq(D), NEW m \in 1 .. Len(s) + 1, NEW n \in 0 .. Len(s), m <= n + 1
  PROVE  /\ SubSeq(s, m, n) \in Seq(D) /\ Len(SubSeq(s, m, n)) = n + 1 - m
         /\ \A k \in 1 .. n + 1 - m : SubSeq(s, m, n)[k] = s[m + k - 1]
  OBVIOUS

LEMMA CatIs ==
  ASSUME NEW D, NEW s \in Seq(D), NEW t \in Seq(D)
  PROVE  /\ s \o t \in Seq(D) /\ Len(s \o t) = Len(s) + Len(t)
         /\ \A k \in 1 .. Len(s) : (s \o t)[k] = s[k]
         /\ \A k \in Len(s) + 1 .. Len(s) + Len(t) : (s \o t)[k] = t[k - Len(s)]
  OBVIOUS

LEMMA InsertIs ==
  ASSUME NEW D, NEW s \in Seq(D), NEW i \in 1 .. Len(s) + 1, NEW e \in D
  PROVE  /\ Model!InsertAt(s, i, e) \in Seq(D) /\ Len(Model!InsertAt(s, i, e)) = Len(s) + 1
         /\ \A k \in 1 .. i - 1 : Model!InsertAt(s, i, e)[k] = s[k]
         /\ Model!InsertAt(s, i, e)[i] = e
<1> DEFINE a == SubSeq(s, 1, i - 1)
           b == <<e>>
           c == SubSeq(s, i, Len(s))
           ab == a \o b
<1>0. Len(s) \in Nat
  OBVIOUS
<1>1. a \in Seq(D) /\ Len(a) = i - 1 /\ \A k \in 1 .. i - 1 : a[k] = s[k]
  <2>1. 1 \in 1 .. Len(s) + 1 /\ i - 1 \in 0 .. Len(s) /\ 1 <= (i - 1) + 1
    BY <1>0
  <2>2. a \in Seq(D) /\ Len(a) = (i - 1) + 1 - 1 /\ \A k \in 1 .. (i - 1) + 1 - 1 : a[k] = s[1 + k - 1]
    BY <2>1, SubIs
  <2>3. (i - 1) + 1 - 1 = i - 1
    OBVIOUS
  <2> HIDE DEF a
  <2> QED BY <2>2, <2>3
<1>2. c \in Seq(D) /\ Len(c) = Len(s) + 1 - i
  <2>1. i \in 1 .. Len(s) + 1 /\ Len(s) \in 0 .. Len(s) /\ i <= Len(s) + 1
    BY <1>0
  <2> QED BY <2>1, SubIs
<1>3. b \in Seq(D) /\ Len(b) = 1 /\ b[1] = e
  OBVIOUS
<1> HIDE DEF a, b, c
<1>4. /\ ab \in Seq(D) /\ Len(ab) = i
      /\ \A k \in 1 .. i - 1 : ab[k] = s[k]
      /\ ab[i] = e
  <2>1. /\ ab \in Seq(D) /\ Len(ab) = Len(a) + Len(b)
        /\ \A k \in 1 .. Len(a) : ab[k] = a[k]
        /\ \A k \in Len(a) + 1 .. Len(a) + Len(b) : ab[k] = b[k - Len(a)]
    BY <1>1, <1>3, CatIs
  <2> HIDE DEF ab
  <2>2. Len(ab) = i
    BY <1>0, <1>1, <1>3, <2>1
  <2>3. \A k \in 1 .. i - 1 : ab[k] = s[k]
    BY <1>1, <2>1
  <2>4. ab[i] = b[1]
    <3>1. i \in Len(a) + 1 .. Len(a) + Len(b) /\ i - Len(a) = 1
      BY <1>0, <1>1, <1>3
    <3> QED BY <2>1, <3>1
  <2> QED BY <1>3, <2>1, <2>2, <2>3, <2>4
<1> HIDE DEF ab
<1>5. Model!InsertAt(s, i, e) = ab \o c
  BY DEF Model!InsertAt, ab, a, b, c
<1>6. /\ ab \o c \in Seq(D) /\ Len(ab \o c) = Len(ab) + Len(c)
      /\ \A k \in 1 .. Len(ab) : (ab \o c)[k] = ab[k]
  BY <1>2, <1>4, CatIs
<1>7. Len(ab \o c) = Len(s) + 1
  BY <1>0, <1>2, <1>4, <1>6
<1>8. \A k \in 1 .. i : (ab \o c)[k] = ab[k]
  BY <1>4, <1>6
<1> QED BY <1>4, <1>5, <1>6, <1>7, <1>8

LEMMA RemoveIs ==
  ASSUME NEW D, NEW s \in Seq(D), NEW j \in 1 .. Len(s)
  PROVE  /\ Model!RemoveAt(s, j) \in Seq(D) /\ Len(Model!RemoveAt(s, j)) = Len(s) - 1
         /\ \A k \in 1 .. j - 1 : Model!RemoveAt(s, j)[k] = s[k]
<1> DEFINE a == SubSeq(s, 1, j - 1)
           c == SubSeq(s, j + 1, Len(s))
<1>0. Len(s) \in Nat
  OBVIOUS
<1>1. a \in Seq(D) /\ Len(a) = j - 1 /\ \A k \in 1 .. j - 1 : a[k] = s[k]
  <2>1. 1 \in 1 .. Len(s) + 1 /\ j - 1 \in 0 .. Len(s) /\ 1 <= (j - 1) + 1
    BY <1>0
  <2>2. a \in Seq(D) /\ Len(a) = (j - 1) + 1 - 1 /\ \A k \in 1 .. (j - 1) + 1 - 1 : a[k] = s[1 + k - 1]
    BY <2>1, SubIs
  <2>3. (j - 1) + 1 - 1 = j - 1
    OBVIOUS
  <2> HIDE DEF a
  <2> QED BY <2>2, <2>3
<1>2. c \in Seq(D) /\ Len(c) = Len(s) + 1 - (j + 1)
  <2>1. j + 1 \in 1 .. Len(s) + 1 /\ Len(s) \in 0 .. Len(s) /\ j + 1 <= Len(s) + 1
    BY <1>0
  <2> QED BY <2>1, SubIs
<1> HIDE DEF a, c
<1>3. Model!RemoveAt(s, j) = a \o c
  BY DEF Model!RemoveAt, a, c
<1>4. /\ a \o c \in Seq(D) /\ Len(a \o c) = Len(a) + Len(c)
      /\ \A k \in 1 .. Len(a) : (a \o c)[k] = a[k]
  BY <1>1, <1>2, CatIs
<1> QED BY <1>0, <1>1, <1>2, <1>3, <1>4

\* What Place needs, and what it keeps.
Placeable(rows, device, i) ==
  /\ i \in 1 .. Len(rows) + 1
  /\ \A k \in 1 .. i - 1 : rows[k] # device

LEMMA PlaceIs ==
  ASSUME NEW rows \in Seq(Model!Device), NEW device \in Model!Device, NEW i \in Nat,
         Placeable(rows, device, i)
  PROVE  /\ Model!Place(rows, device, i) \in Seq(Model!Device)
         /\ Len(Model!Place(rows, device, i)) >= i
         /\ \A k \in 1 .. i - 1 : Model!Place(rows, device, i)[k] = rows[k]
         /\ Model!Place(rows, device, i)[i] = device
<1>0. Len(rows) \in Nat /\ i \in 1 .. Len(rows) + 1 /\ DOMAIN rows = 1 .. Len(rows)
  BY DEF Placeable
<1>1. CASE device \notin Model!ToSet(rows)
  <2>1. Model!Place(rows, device, i) = Model!InsertAt(rows, i, device)
    BY <1>1 DEF Model!Place
  <2>2. /\ Model!InsertAt(rows, i, device) \in Seq(Model!Device)
        /\ Len(Model!InsertAt(rows, i, device)) = Len(rows) + 1
        /\ \A k \in 1 .. i - 1 : Model!InsertAt(rows, i, device)[k] = rows[k]
        /\ Model!InsertAt(rows, i, device)[i] = device
    BY <1>0, InsertIs
  <2>3. Len(Model!InsertAt(rows, i, device)) >= i
    BY <1>0, <2>2
  <2> QED BY <2>1, <2>2, <2>3
<1>2. CASE device \in Model!ToSet(rows)
  <2> DEFINE j == CHOOSE j \in DOMAIN rows : rows[j] = device
             rest == Model!RemoveAt(rows, j)
  <2>1. j \in 1 .. Len(rows) /\ rows[j] = device
    BY <1>0, <1>2 DEF Model!ToSet
  <2>2. Model!Place(rows, device, i) = Model!InsertAt(rest, i, device)
    BY <1>2 DEF Model!Place
  <2> HIDE DEF j
  <2>3. j >= i
    BY <1>0, <2>1 DEF Placeable
  <2>4. /\ rest \in Seq(Model!Device) /\ Len(rest) = Len(rows) - 1
        /\ \A k \in 1 .. j - 1 : rest[k] = rows[k]
    BY <2>1, RemoveIs
  <2> HIDE DEF rest
  <2>5. i \in 1 .. Len(rest) + 1
    BY <1>0, <2>1, <2>3, <2>4
  <2>6. /\ Model!InsertAt(rest, i, device) \in Seq(Model!Device)
        /\ Len(Model!InsertAt(rest, i, device)) = Len(rest) + 1
        /\ \A k \in 1 .. i - 1 : Model!InsertAt(rest, i, device)[k] = rest[k]
        /\ Model!InsertAt(rest, i, device)[i] = device
    BY <2>4, <2>5, InsertIs
  <2>7. Len(Model!InsertAt(rest, i, device)) >= i
    BY <1>0, <2>4, <2>5, <2>6
  <2>8. \A k \in 1 .. i - 1 : rest[k] = rows[k]
    BY <1>0, <2>1, <2>3, <2>4
  <2> QED BY <2>2, <2>6, <2>7, <2>8
<1> QED BY <1>1, <1>2

\* Row by row, the rows become the new ones, whatever they were.
LEMMA UpdateIs ==
  ASSUME NEW rows \in Seq(Model!Device), NEW new \in Seq(Model!Device), Once(new)
  PROVE  Model!UpdateDeviceList(rows, new) = new
<1> DEFINE N == Len(new)
           S == Seq(Model!Device)
           Ready0(n, s) == n \in 1 .. N /\ Placeable(s, new[n], n)
           g == [p \in Nat \X S |-> IF Ready0(p[1], p[2]) THEN Model!Place(p[2], new[p[1]], p[1])
             ELSE p[2]]
           Is(f) == f = [i \in 0 .. N |-> IF i = 0 THEN rows ELSE Model!Place(f[i - 1], new[i], i)]
           placed == CHOOSE f : Is(f)
<1>0. N \in Nat /\ rows \in S /\ \A n \in 1 .. N : new[n] \in Model!Device
  OBVIOUS
<1>1. ASSUME NEW n \in Nat, NEW s \in S
      PROVE  /\ g[<<n, s>>] \in S
             /\ g[<<n, s>>] = IF Ready0(n, s) THEN Model!Place(s, new[n], n) ELSE s
  <2>1. <<n, s>> \in Nat \X S /\ g[<<n, s>>] = IF Ready0(n, s) THEN Model!Place(s, new[n], n) ELSE s
    <3> HIDE DEF S, Ready0, N
    <3> QED OBVIOUS
  <2> HIDE DEF g
  <2>2. CASE Ready0(n, s)
    <3>1. new[n] \in Model!Device /\ Placeable(s, new[n], n)
      BY <1>0, <2>2
    <3>2. Model!Place(s, new[n], n) \in S
      BY <3>1, PlaceIs
    <3> HIDE DEF Ready0, S
    <3> QED BY <2>1, <2>2, <3>2
  <2>3. CASE ~Ready0(n, s)
    <3> HIDE DEF Ready0
    <3> QED BY <2>1, <2>3
  <2> QED BY <2>2, <2>3
<1>2. g \in [Nat \X S -> S]
  <2>1. \A p \in Nat \X S : p[1] \in Nat /\ p[2] \in S /\ p = <<p[1], p[2]>>
    OBVIOUS
  <2>2. \A p \in Nat \X S : g[p] \in S
    <3> HIDE DEF g, S
    <3> QED BY <1>1, <2>1
  <2>3. g = [p \in Nat \X S |-> g[p]]
    OBVIOUS
  <2> HIDE DEF g, S
  <2> QED BY <2>2, <2>3
<1> HIDE DEF g
<1>3. PICK f0 \in [0 .. N -> S] : f0[0] = rows /\ \A n \in 1 .. N : f0[n] = g[<<n, f0[n - 1]>>]
  <2> HIDE DEF S
  <2>2. Recursive(S, rows, g, N)
    BY <1>0, <1>2 DEF Recursive
  <2>3. \E f : Iterates(f, S, rows, g, N)
    BY <2>2, Recursion
  <2> QED BY <2>3 DEF Iterates
<1> DEFINE Good(n) == Len(f0[n]) >= n /\ \A k \in 1 .. n : f0[n][k] = new[k]
           P == {n \in Nat : n <= N => Good(n)}
<1>4. \A n \in 0 .. N : f0[n] \in S /\ Len(f0[n]) \in Nat
  <2>1. \A s \in S : Len(s) \in Nat
    OBVIOUS
  <2> HIDE DEF S
  <2> QED BY <1>3, <2>1
<1>5. 0 \in P
  BY <1>0, <1>3, <1>4
<1>6. ASSUME NEW n \in Nat, n + 1 <= N, Good(n)
      PROVE  /\ f0[n + 1] = Model!Place(f0[n], new[n + 1], n + 1)
             /\ Good(n + 1)
  <2> DEFINE m == n + 1
  <2>1. m \in 1 .. N /\ m \in Nat /\ m - 1 = n /\ n \in 0 .. N /\ new[m] \in Model!Device
    BY <1>0, <1>6
  <2>2. f0[n] \in S /\ Len(f0[n]) \in Nat
    BY <1>4, <2>1
  <2>3. f0[m] = g[<<m, f0[n]>>]
    <3> HIDE DEF m
    <3> QED BY <1>3, <2>1
  <2>4. Placeable(f0[n], new[m], m)
    <3>1. m \in 1 .. Len(f0[n]) + 1
      BY <1>6, <2>1, <2>2
    <3>2. \A k \in 1 .. m - 1 : k \in 1 .. N /\ k # m /\ f0[n][k] = new[k]
      BY <1>0, <1>6, <2>1
    <3>3. \A k \in 1 .. m - 1 : new[k] # new[m]
      BY <2>1, <3>2 DEF Once
    <3> HIDE DEF m
    <3> QED BY <3>1, <3>2, <3>3 DEF Placeable
  <2> HIDE DEF m
  <2>5. f0[m] = Model!Place(f0[n], new[m], m)
    <3>1. Ready0(m, f0[n])
      BY <2>1, <2>4
    <3> HIDE DEF Ready0, S
    <3> QED BY <1>1, <2>1, <2>2, <2>3, <3>1
  <2>6. /\ Len(f0[m]) >= m
        /\ \A k \in 1 .. m - 1 : f0[m][k] = f0[n][k]
        /\ f0[m][m] = new[m]
    BY <2>1, <2>2, <2>4, <2>5, PlaceIs
  <2>7. \A k \in 1 .. m : f0[m][k] = new[k]
    <3>1. TAKE k \in 1 .. m
    <3>2. CASE k = m
      BY <2>6, <3>2
    <3>3. CASE k # m
      <4>1. k \in 1 .. m - 1 /\ k \in 1 .. n
        BY <2>1, <3>3
      <4> QED BY <1>6, <2>6, <4>1
    <3> QED BY <3>2, <3>3
  <2> QED BY <2>5, <2>6, <2>7 DEF m
<1>7. P = Nat
  <2>1. P \subseteq Nat
    OBVIOUS
  <2>2. \A n \in P : n + 1 \in P
    <3>1. SUFFICES ASSUME NEW n \in P, n + 1 <= N PROVE Good(n + 1)
      OBVIOUS
    <3>2. n \in Nat /\ Good(n)
      BY <1>0, <3>1
    <3> HIDE DEF Good, P
    <3> QED BY <1>6, <3>1, <3>2
  <2> HIDE DEF P
  <2> QED BY <1>5, <2>1, <2>2, SetInduction
<1>8. \A n \in 0 .. N : Good(n)
  <2>1. \A n \in 0 .. N : n \in P /\ n <= N
    <3> HIDE DEF P, N
    <3> QED BY <1>0, <1>7
  <2> HIDE DEF Good
  <2> QED BY <2>1
<1>9. ASSUME NEW i \in 0 .. N
      PROVE  f0[i] = IF i = 0 THEN rows ELSE Model!Place(f0[i - 1], new[i], i)
  <2>1. CASE i = 0
    BY <1>3, <2>1
  <2>2. CASE i # 0
    <3> DEFINE n == i - 1
    <3>1. n \in Nat /\ n + 1 <= N /\ n + 1 = i /\ n \in 0 .. N
      BY <1>0, <2>2
    <3>2. Good(n)
      BY <1>8, <3>1
    <3> HIDE DEF n, Good
    <3>3. f0[n + 1] = Model!Place(f0[n], new[n + 1], n + 1)
      BY <1>6, <3>1, <3>2
    <3>4. f0[i] = Model!Place(f0[n], new[i], i)
      BY <3>1, <3>3
    <3> QED BY <2>2, <3>4 DEF n
  <2> QED BY <2>1, <2>2
<1>10. Is(f0)
  BY <1>3, <1>9
<1>11. Is(placed)
  BY <1>10
<1>12. Model!UpdateDeviceList(rows, new) = SubSeq(placed[N], 1, N)
  BY DEF Model!UpdateDeviceList
<1> HIDE DEF placed, S
<1> DEFINE Q == {n \in Nat : n <= N => placed[n] = f0[n]}
<1>13. \A i \in 0 .. N : placed[i] = IF i = 0 THEN rows ELSE Model!Place(placed[i - 1], new[i], i)
  BY <1>11
<1> HIDE DEF Is, N
<1>14. Q = Nat
  <2>1. 0 \in Q /\ Q \subseteq Nat
    BY <1>0, <1>3, <1>13
  <2>2. ASSUME NEW n \in Q, n + 1 <= N PROVE placed[n + 1] = f0[n + 1]
    <3>1. n \in Nat /\ placed[n] = f0[n] /\ n + 1 \in 0 .. N /\ n + 1 # 0 /\ (n + 1) - 1 = n
      BY <1>0, <2>2
    <3> DEFINE m == n + 1
    <3>2. m \in 0 .. N /\ m # 0 /\ m - 1 = n
      BY <3>1
    <3> HIDE DEF m
    <3>3. placed[m] = Model!Place(placed[m - 1], new[m], m) /\ f0[m] = Model!Place(f0[m - 1],
          new[m], m)
      BY <1>9, <1>13, <3>2
    <3> QED BY <3>1, <3>2, <3>3 DEF m
  <2>3. \A n \in Q : n + 1 \in Q
    BY <2>2
  <2> HIDE DEF Q
  <2> QED BY <2>1, <2>3, SetInduction
<1>15. N \in Q /\ N \in 0 .. N /\ N <= N
  BY <1>0, <1>14
<1>16. placed[N] = f0[N] /\ f0[N] \in Seq(Model!Device) /\ Len(f0[N]) >= N
       /\ \A k \in 1 .. N : f0[N][k] = new[k]
  BY <1>4, <1>8, <1>15 DEF S
<1>17. Len(f0[N]) \in Nat /\ 1 \in 1 .. Len(f0[N]) + 1 /\ N \in 0 .. Len(f0[N]) /\ 1 <= N + 1
  BY <1>0, <1>4, <1>15, <1>16
<1> DEFINE cut == SubSeq(f0[N], 1, N)
<1>18. cut \in Seq(Model!Device) /\ Len(cut) = N + 1 - 1 /\ \A k \in 1 .. N + 1 - 1 : cut[k] = f0[N][1 + k - 1]
  BY <1>16, <1>17, SubIs
<1> HIDE DEF cut
<1>19. Len(cut) = N /\ \A k \in 1 .. N : cut[k] = new[k]
  BY <1>0, <1>16, <1>18
<1>20. cut = new
  BY <1>18, <1>19 DEF N
<1> QED BY <1>12, <1>16, <1>20 DEF cut

\* The sequence of the keys of a map: each once.
LEMMA InOrderIs ==
  ASSUME NEW map \in SUBSET Model!Device
  PROVE  /\ Model!InOrder(map) \in Seq(Model!Device) /\ Once(Model!InOrder(map))
         /\ Model!ToSet(Model!InOrder(map)) \subseteq map
<1> DEFINE N == Devices
           S == Seq(map)
           g == [p \in Nat \X S |-> IF p[1] \in map THEN Append(p[2], p[1]) ELSE p[2]]
           Is(f) == f = [d \in 0 .. N |-> IF d = 0 THEN <<>> ELSE IF d \in map
                                            THEN Append(f[d - 1], d) ELSE f[d - 1]]
           upTo == CHOOSE f : Is(f)
<1>0. N \in Nat /\ <<>> \in S
  BY ModelAssumption
<1>1. ASSUME NEW n \in Nat, NEW s \in S
      PROVE  g[<<n, s>>] \in S /\ g[<<n, s>>] = IF n \in map THEN Append(s, n) ELSE s
  <2>1. n \in map => Append(s, n) \in S
    OBVIOUS
  <2>2. <<n, s>> \in Nat \X S /\ g[<<n, s>>] = IF n \in map THEN Append(s, n) ELSE s
    <3> HIDE DEF S
    <3> QED OBVIOUS
  <2> HIDE DEF g, S
  <2> QED BY <2>1, <2>2
<1>2. g \in [Nat \X S -> S]
  <2>1. \A p \in Nat \X S : p[1] \in Nat /\ p[2] \in S /\ p = <<p[1], p[2]>>
    OBVIOUS
  <2>2. \A p \in Nat \X S : g[p] \in S
    <3> HIDE DEF g, S
    <3> QED BY <1>1, <2>1
  <2>3. g = [p \in Nat \X S |-> g[p]]
    OBVIOUS
  <2> HIDE DEF g, S
  <2> QED BY <2>2, <2>3
<1> HIDE DEF g
<1>3. PICK f0 \in [0 .. N -> S] : f0[0] = <<>> /\ \A n \in 1 .. N : f0[n] = g[<<n, f0[n - 1]>>]
  <2> HIDE DEF S
  <2>2. Recursive(S, <<>>, g, N)
    BY <1>0, <1>2 DEF Recursive
  <2>3. \E f : Iterates(f, S, <<>>, g, N)
    BY <2>2, Recursion
  <2> QED BY <2>3 DEF Iterates
<1> HIDE DEF S, N
<1>4. ASSUME NEW d \in 0 .. N
      PROVE  f0[d] = IF d = 0 THEN <<>> ELSE IF d \in map THEN Append(f0[d - 1], d) ELSE f0[d - 1]
  <2>1. CASE d = 0
    BY <1>3, <2>1
  <2>2. CASE d # 0
    <3>1. d \in 1 .. N /\ d \in Nat /\ d - 1 \in 0 .. N
      BY <1>0, <2>2
    <3> QED BY <1>1, <1>3, <2>2, <3>1
  <2> QED BY <2>1, <2>2
<1>5. Is(f0)
  BY <1>3, <1>4
<1>6. Is(upTo)
  BY <1>5
<1>7. Model!InOrder(map) = upTo[N]
  BY DEF Model!InOrder, N
<1> HIDE DEF upTo
<1>8. \A d \in 0 .. N : upTo[d] = IF d = 0 THEN <<>> ELSE IF d \in map THEN Append(upTo[d - 1], d)
                                                    ELSE upTo[d - 1]
  BY <1>6
<1> HIDE DEF Is
<1> DEFINE Good(n) == /\ upTo[n] \in Seq(map) /\ Once(upTo[n])
                      /\ \A k \in 1 .. Len(upTo[n]) : upTo[n][k] <= n
           P == {n \in Nat : n <= N => Good(n)}
<1>9. 0 \in P /\ P \subseteq Nat
  <2>1. upTo[0] = <<>>
    BY <1>0, <1>8
  <2>2. Good(0)
    BY <2>1 DEF Once
  <2> QED BY <2>2
<1>10. ASSUME NEW n \in P, n + 1 <= N PROVE Good(n + 1)
  <2> DEFINE m == n + 1
             s == upTo[n]
  <2>1. m \in 0 .. N /\ m # 0 /\ m - 1 = n /\ m = n + 1 /\ n \in Nat /\ n <= N
    BY <1>0, <1>10
  <2>2. s \in Seq(map) /\ Once(s) /\ \A k \in 1 .. Len(s) : s[k] <= n
    BY <2>1
  <2> HIDE DEF m, P
  <2>3. upTo[m] = IF m \in map THEN Append(s, m) ELSE s
    BY <1>8, <2>1
  <2> HIDE DEF s, Good
  <2>4. \A k \in 1 .. Len(s) : s[k] \in Nat
    <3>1. map \subseteq Nat
      BY ModelAssumption DEF Model!Device
    <3>2. \A k \in 1 .. Len(s) : s[k] \in map
      BY <2>2
    <3> QED BY <3>1, <3>2
  <2>5. CASE m \notin map
    <3>1. \A k \in 1 .. Len(s) : s[k] <= m
      BY <2>1, <2>2, <2>4
    <3> QED BY <2>2, <2>3, <2>5, <3>1 DEF Good, m
  <2>6. CASE m \in map
    <3> DEFINE t == Append(s, m)
    <3>1. t \in Seq(map) /\ Len(t) = Len(s) + 1 /\ Len(s) \in Nat
      BY <2>2, <2>6
    <3>2. \A k \in 1 .. Len(s) : t[k] = s[k] /\ s[k] \in Nat /\ s[k] <= n
      <4>1. \A k \in 1 .. Len(s) : t[k] = s[k]
        BY <2>2
      <4> HIDE DEF t
      <4> QED BY <2>2, <2>4, <4>1
    <3>3. t[Len(s) + 1] = m
      BY <2>2
    <3> HIDE DEF t
    <3>4. \A k \in 1 .. Len(t) : k \in 1 .. Len(s) \/ k = Len(s) + 1
      BY <3>1
    <3>5. Once(t)
      BY <2>1, <2>2, <3>1, <3>2, <3>3, <3>4 DEF Once
    <3>6. \A k \in 1 .. Len(t) : t[k] <= m
      BY <2>1, <3>2, <3>3, <3>4
    <3> QED BY <2>3, <2>6, <3>1, <3>5, <3>6 DEF Good, m, t
  <2> QED BY <2>5, <2>6
<1>11. P = Nat
  <2>1. \A n \in P : n + 1 \in P
    BY <1>10
  <2> HIDE DEF P
  <2> QED BY <1>9, <2>1, SetInduction
<1>12. Good(N)
  <2>1. N \in P /\ N <= N
    BY <1>0, <1>11
  <2> HIDE DEF Good
  <2> QED BY <2>1
<1>13. Model!InOrder(map) \in Seq(map) /\ Once(Model!InOrder(map))
  BY <1>7, <1>12
<1>14. Model!ToSet(Model!InOrder(map)) \subseteq map
  BY <1>13 DEF Model!ToSet
<1> QED BY <1>13, <1>14

LEMMA EmptyInOrder == Model!InOrder({}) = <<>>
<1>1. {} \in SUBSET Model!Device
  OBVIOUS
<1>2. Model!InOrder({}) \in Seq(Model!Device) /\ Model!ToSet(Model!InOrder({})) = {}
  BY <1>1, InOrderIs
<1> DEFINE s == Model!InOrder({})
<1>3. s \in Seq(Model!Device) /\ \A i \in 1 .. Len(s) : s[i] \in Model!ToSet(s)
  BY <1>2 DEF Model!ToSet
<1> HIDE DEF s
<1> QED BY <1>2, <1>3 DEF s

LEMMA RowsTyped ==
  ASSUME NEW map \in SUBSET Model!Device, NEW filter
  PROVE  /\ Model!InOrder(Model!Filtered(map, filter)) \in Seq(Model!Device)
         /\ Model!ToSet(Model!InOrder(Model!Filtered(map, filter))) \subseteq map
<1>1. Model!Filtered(map, filter) \in SUBSET Model!Device /\ Model!Filtered(map,
      filter) \subseteq map
  BY DEF Model!Filtered
<1> QED BY <1>1, InOrderIs

LEMMA UpdatedIs ==
  ASSUME ModelInv, NEW map \in SUBSET Model!Device, NEW filter, Model!Updated(map, filter)
  PROVE  inputDevices' = Model!InOrder(Model!Filtered(map, filter))
<1>1. Model!Filtered(map, filter) \in SUBSET Model!Device /\ inputDevices \in Seq(Model!Device)
  BY DEF Model!Filtered, ModelInv, Model!TypeOK
<1>2. Model!InOrder(Model!Filtered(map, filter)) \in Seq(Model!Device)
      /\ Once(Model!InOrder(Model!Filtered(map, filter)))
  BY <1>1, InOrderIs
<1> QED BY <1>1, <1>2, UpdateIs DEF Model!Updated

LEMMA ModelInitInv == Model!Init => ModelInv
<1> SUFFICES ASSUME Model!Init PROVE ModelInv
  OBVIOUS
<1>1. Model!Filtered(modelDeviceMap, managerFilter) = {}
  BY DEF Model!Init, Model!Filtered
<1>2. inputDevices = <<>> /\ deleted = {} /\ modelDeviceMap = {} /\ managerFilter = Model!AllTypes
      /\ currentFilter = {}
  BY DEF Model!Init
<1>3. Model!TypeOK
  BY <1>2 DEF Model!TypeOK
<1>4. Model!RowsAreDevices
  BY <1>1, <1>2, EmptyInOrder DEF Model!RowsAreDevices
<1> QED BY <1>2, <1>3, <1>4 DEF ModelInv

\* The rows stay those of the map: what is left to show of a step.
LEMMA RowsStay ==
  ASSUME ModelInv, modelDeviceMap' \in SUBSET Model!Device, deleted' \subseteq Model!Device,
         modelDeviceMap' \cap deleted' = {},
         managerFilter' \subseteq Model!AllTypes, currentFilter' \subseteq Model!AllTypes,
         \/ Model!Updated(modelDeviceMap', managerFilter')
         \/ /\ UNCHANGED inputDevices
            /\ Model!Filtered(modelDeviceMap', managerFilter') = Model!Filtered(modelDeviceMap,
               managerFilter)
  PROVE  ModelInv'
<1>1. inputDevices' = Model!InOrder(Model!Filtered(modelDeviceMap', managerFilter'))
  <2>1. CASE Model!Updated(modelDeviceMap', managerFilter')
    BY <2>1, UpdatedIs
  <2>2. CASE /\ UNCHANGED inputDevices
             /\ Model!Filtered(modelDeviceMap', managerFilter') = Model!Filtered(modelDeviceMap,
                managerFilter)
    BY <2>2 DEF ModelInv, Model!RowsAreDevices
  <2> QED BY <2>1, <2>2
<1>2. inputDevices' \in Seq(Model!Device) /\ Model!ToSet(inputDevices') \subseteq modelDeviceMap'
  BY <1>1, RowsTyped
<1>3. Model!TypeOK'
  BY <1>2 DEF Model!TypeOK
<1>4. Model!RowsAreDevices'
  BY <1>1, <1>2 DEF Model!RowsAreDevices
<1> QED BY <1>3, <1>4 DEF ModelInv

LEMMA ModelPreserves == ModelInv /\ [Model!Next]_(Model!vars) => ModelInv'
<1> SUFFICES ASSUME ModelInv, [Model!Next]_(Model!vars) PROVE ModelInv'
  OBVIOUS
<1>0. /\ modelDeviceMap \in SUBSET Model!Device /\ deleted \subseteq Model!Device
      /\ modelDeviceMap \cap deleted = {}
      /\ managerFilter \subseteq Model!AllTypes /\ currentFilter \subseteq Model!AllTypes
  BY DEF ModelInv, Model!TypeOK
<1>1. ASSUME NEW map \in SUBSET Model!Device, Model!Ready(map) PROVE ModelInv'
  BY <1>0, <1>1, RowsStay DEF Model!Ready
<1>2. ASSUME NEW d \in Model!Device, Model!AddedDevice(d) PROVE ModelInv'
  <2>1. modelDeviceMap' \in SUBSET Model!Device /\ modelDeviceMap' \cap deleted' = {}
        /\ modelDeviceMap' = modelDeviceMap \cup {d}
        /\ UNCHANGED <<managerFilter, currentFilter, deleted>>
    BY <1>0, <1>2 DEF Model!AddedDevice
  <2>2. CASE d \in Model!Filtered({d}, managerFilter)
    <3>1. Model!Updated(modelDeviceMap', managerFilter')
      BY <1>2, <2>1, <2>2 DEF Model!AddedDevice
    <3> QED BY <1>0, <2>1, <3>1, RowsStay
  <2>3. CASE d \notin Model!Filtered({d}, managerFilter)
    <3>1. UNCHANGED inputDevices
      BY <1>2, <2>3 DEF Model!AddedDevice
    <3>2. Model!Filtered(modelDeviceMap', managerFilter') = Model!Filtered(modelDeviceMap,
          managerFilter)
      BY <2>1, <2>3 DEF Model!Filtered
    <3> QED BY <1>0, <2>1, <3>1, <3>2, RowsStay
  <2> QED BY <2>2, <2>3
<1>3. ASSUME NEW d \in Model!Device, Model!RemovedDevice(d) PROVE ModelInv'
  <2>1. modelDeviceMap' \in SUBSET Model!Device /\ modelDeviceMap' \cap deleted' = {}
        /\ modelDeviceMap' = modelDeviceMap \ {d}
        /\ deleted' \subseteq Model!Device /\ UNCHANGED <<managerFilter, currentFilter>>
    BY <1>0, <1>3 DEF Model!RemovedDevice
  <2>2. CASE d \in Model!Filtered({d}, managerFilter)
    <3>1. Model!Updated(modelDeviceMap', managerFilter')
      BY <1>3, <2>1, <2>2 DEF Model!RemovedDevice
    <3> QED BY <1>0, <2>1, <3>1, RowsStay
  <2>3. CASE d \notin Model!Filtered({d}, managerFilter)
    <3>1. UNCHANGED inputDevices
      BY <1>3, <2>3 DEF Model!RemovedDevice
    <3>2. Model!Filtered(modelDeviceMap', managerFilter') = Model!Filtered(modelDeviceMap,
          managerFilter)
      BY <2>1, <2>3 DEF Model!Filtered
    <3> QED BY <1>0, <2>1, <3>1, <3>2, RowsStay
  <2> QED BY <2>2, <2>3
<1>4. ASSUME NEW filter \in ModelFilter, Model!SetFilter(filter) PROVE ModelInv'
  <2>1. currentFilter' = filter /\ managerFilter' = filter /\ filter \subseteq Model!AllTypes
        /\ UNCHANGED <<modelDeviceMap, deleted>>
    BY <1>4, ModelAssumption DEF Model!SetFilter
  <2>2. CASE filter # managerFilter
    <3>1. Model!Updated(modelDeviceMap', managerFilter')
      BY <1>4, <2>1, <2>2 DEF Model!SetFilter
    <3> QED BY <1>0, <2>1, <3>1, RowsStay
  <2>3. CASE filter = managerFilter
    <3>1. UNCHANGED inputDevices
      BY <1>4, <2>3 DEF Model!SetFilter
    <3> QED BY <1>0, <2>1, <2>3, <3>1, RowsStay
  <2> QED BY <2>2, <2>3
<1>5. CASE UNCHANGED Model!vars
  <2>1. UNCHANGED <<modelDeviceMap, managerFilter, currentFilter, inputDevices, deleted>>
    BY <1>5 DEF Model!vars
  <2> QED BY <1>0, <2>1, RowsStay
<1> QED BY <1>1, <1>2, <1>3, <1>4, <1>5 DEF Model!Next
-----------------------------------------------------------------------------
(***************************************************************************)
(* The device information: the thermal state read is that of the most      *)
(* critical sensor before the first gap.                                   *)
(***************************************************************************)
\* The severity of a state, a number.
LEMMA SeverityTyped == \A s \in DOMAIN Dev!Severity : Dev!Severity[s] \in 0 .. 3
  BY DEF Dev!Severity

LEMMA WorseIs ==
  ASSUME NEW s \in DOMAIN Dev!Severity, NEW x
  PROVE  /\ Dev!Worse(s, x) \in DOMAIN Dev!Severity
         /\ Dev!Severity[Dev!Worse(s, x)] = IF Dev!Severity[s] >= Dev!Critical(x)
            THEN Dev!Severity[s] ELSE Dev!Critical(x)
  BY DEF Dev!Worse, Dev!Critical, Dev!Severity

LEMMA CriticalTyped == ASSUME NEW x PROVE Dev!Critical(x) \in 1 .. 3
  BY DEF Dev!Critical

\* What the sensors of a monitor up to the n-th made of a state.
Covers(m, n, before, after) ==
  /\ after \in DOMAIN Dev!Severity
  /\ Dev!Severity[before] <= Dev!Severity[after]
  /\ \A k \in Dev!Readable(m) : k <= n => Dev!Critical(sensors[m][k]) <= Dev!Severity[after]
  /\ \/ after = before
     \/ \E k \in Dev!Readable(m) : k <= n /\ Dev!Severity[after] = Dev!Critical(sensors[m][k])

LEMMA AfterSensorsIs ==
  ASSUME NEW m \in Dev!Monitor, NEW before \in DOMAIN Dev!Severity,
         Dev!Readable(m) \subseteq 1 .. MaxSensors
  PROVE  Covers(m, MaxSensors, before, Dev!AfterSensors(m, before))
<1> DEFINE S == DOMAIN Dev!Severity
           g == [p \in Nat \X S |-> IF p[1] \in Dev!Readable(m) THEN Dev!Worse(p[2], sensors[m][p[1]])
                                                            ELSE p[2]]
           Is(f) == f = [n \in 0 .. MaxSensors |->
                           IF n = 0 THEN before
                           ELSE IF n \in Dev!Readable(m) THEN Dev!Worse(f[n - 1], sensors[m][n])
                                ELSE f[n - 1]]
           after == CHOOSE f : Is(f)
<1>0. MaxSensors \in Nat
  BY DeviceAssumption
<1>1. g \in [Nat \X S -> S]
  BY WorseIs
<1>2. \A n \in Nat, s \in S : g[<<n, s>>] = IF n \in Dev!Readable(m) THEN Dev!Worse(s,
                              sensors[m][n])
                                                                 ELSE s
  OBVIOUS
<1> HIDE DEF g
<1>3. PICK f0 \in [0 .. MaxSensors -> S] :
        f0[0] = before /\ \A n \in 1 .. MaxSensors : f0[n] = g[<<n, f0[n - 1]>>]
  <2>1. before \in S
    OBVIOUS
  <2> HIDE DEF S
  <2>2. Recursive(S, before, g, MaxSensors)
    BY <1>0, <1>1, <2>1 DEF Recursive
  <2>3. \E f : Iterates(f, S, before, g, MaxSensors)
    BY <2>2, Recursion
  <2> QED BY <2>3 DEF Iterates
<1>4. ASSUME NEW n \in 0 .. MaxSensors
      PROVE  f0[n] = IF n = 0 THEN before
                     ELSE IF n \in Dev!Readable(m) THEN Dev!Worse(f0[n - 1], sensors[m][n])
                     ELSE f0[n - 1]
  <2>1. CASE n = 0
    BY <1>3, <2>1
  <2>2. CASE n # 0
    <3>1. n \in 1 .. MaxSensors /\ n \in Nat /\ n - 1 \in 0 .. MaxSensors
      BY <1>0, <2>2
    <3>2. f0[n - 1] \in S /\ f0[n] = g[<<n, f0[n - 1]>>]
      BY <1>3, <3>1
    <3> QED BY <1>2, <2>2, <3>1, <3>2
  <2> QED BY <2>1, <2>2
<1>5. Is(f0)
  BY <1>3, <1>4
<1>6. Is(after)
  BY <1>5
<1>7. \A n \in 0 .. MaxSensors :
        after[n] = IF n = 0 THEN before
                   ELSE IF n \in Dev!Readable(m) THEN Dev!Worse(after[n - 1], sensors[m][n])
                   ELSE after[n - 1]
  <2> HIDE DEF after
  <2> QED BY <1>6
<1>8. Dev!AfterSensors(m, before) = after[MaxSensors]
  BY DEF Dev!AfterSensors
<1> HIDE DEF after, Is
<1> DEFINE P == {n \in Nat : n <= MaxSensors => Covers(m, n, before, after[n])}
<1>9. 0 \in P
  <2>1. after[0] = before
    BY <1>0, <1>7
  <2>2. Dev!Severity[before] <= Dev!Severity[before]
    BY SeverityTyped
  <2>3. \A k \in Dev!Readable(m) : ~ (k <= 0)
    OBVIOUS
  <2> QED BY <2>1, <2>2, <2>3 DEF Covers
<1>10. ASSUME NEW n \in P PROVE n + 1 \in P
  <2>1. n \in Nat
    OBVIOUS
  <2>2. SUFFICES ASSUME n + 1 <= MaxSensors PROVE Covers(m, n + 1, before, after[n + 1])
    OBVIOUS
  <2>3. Covers(m, n, before, after[n])
    BY <1>0, <2>1, <2>2
  <2>4. after[n + 1] = IF n + 1 \in Dev!Readable(m) THEN Dev!Worse(after[n], sensors[m][n + 1])
        ELSE after[n]
    <3>1. n + 1 \in 0 .. MaxSensors /\ n + 1 # 0 /\ (n + 1) - 1 = n
      BY <1>0, <2>1, <2>2
    <3> QED BY <1>7, <3>1
  <2>5. \A k \in Dev!Readable(m) : k \in Nat /\ (k <= n + 1 => k <= n \/ k = n + 1)
    BY <2>1
  <2>6. CASE n + 1 \in Dev!Readable(m)
    <3> DEFINE c == Dev!Critical(sensors[m][n + 1])
               a == after[n]
               b == Dev!Worse(a, sensors[m][n + 1])
    <3>1. a \in S
      BY <2>3 DEF Covers
    <3>2. b \in S /\ Dev!Severity[b] = IF Dev!Severity[a] >= c THEN Dev!Severity[a] ELSE c
      BY <3>1, WorseIs
    <3>3. c \in 1 .. 3 /\ Dev!Severity[a] \in 0 .. 3 /\ Dev!Severity[b] \in 0 .. 3
          /\ Dev!Severity[before] \in 0 .. 3
      BY <3>1, <3>2, SeverityTyped, CriticalTyped
    <3>4. after[n + 1] = b
      BY <2>4, <2>6
    <3> HIDE DEF b
    <3>5. ASSUME NEW k \in Dev!Readable(m), k <= n + 1
          PROVE  Dev!Critical(sensors[m][k]) <= Dev!Severity[b]
      <4>1. CASE k <= n
        <5>1. Dev!Critical(sensors[m][k]) <= Dev!Severity[a]
              /\ Dev!Critical(sensors[m][k]) \in 1 .. 3
          BY <2>3, <4>1, CriticalTyped DEF Covers
        <5> HIDE DEF a, c
        <5> QED BY <3>2, <3>3, <5>1
      <4>2. CASE k = n + 1
        <5> HIDE DEF a
        <5> QED BY <3>2, <3>3, <4>2
      <4> QED BY <2>5, <3>5, <4>1, <4>2
    <3>6. Dev!Severity[before] <= Dev!Severity[b]
      <4>1. Dev!Severity[before] <= Dev!Severity[a]
        BY <2>3 DEF Covers
      <4> HIDE DEF a, c
      <4> QED BY <3>2, <3>3, <4>1
    <3>7. b = before \/ \E k \in Dev!Readable(m) : k <= n + 1
          /\ Dev!Severity[b] = Dev!Critical(sensors[m][k])
      <4>1. CASE Dev!Severity[a] >= c
        <5>1. Dev!Severity[b] = Dev!Severity[a]
          BY <3>2, <4>1
        <5>2. b = a
          BY <3>1, <3>2, <5>1 DEF Dev!Severity
        <5>3. a = before \/ \E k \in Dev!Readable(m) : k <= n
              /\ Dev!Severity[a] = Dev!Critical(sensors[m][k])
          BY <2>3 DEF Covers
        <5>4. \A k \in Dev!Readable(m) : k <= n => k <= n + 1
          BY <2>1
        <5> QED BY <5>2, <5>3, <5>4
      <4>2. CASE ~ (Dev!Severity[a] >= c)
        <5>1. Dev!Severity[b] = c
          BY <3>2, <4>2
        <5>2. n + 1 <= n + 1
          BY <2>1
        <5> QED BY <2>6, <5>1, <5>2
      <4> QED BY <4>1, <4>2
    <3> QED BY <3>2, <3>4, <3>5, <3>6, <3>7 DEF Covers
  <2>7. CASE n + 1 \notin Dev!Readable(m)
    <3>1. after[n + 1] = after[n] /\ \A k \in Dev!Readable(m) : k <= n + 1 <=> k <= n
      BY <2>1, <2>4, <2>5, <2>7
    <3> QED BY <2>3, <3>1 DEF Covers
  <2> QED BY <2>6, <2>7
<1>11. P = Nat
  <2>1. P \subseteq Nat
    OBVIOUS
  <2> HIDE DEF P
  <2> QED BY <1>9, <1>10, <2>1, SetInduction
<1>12. MaxSensors \in P
  BY <1>0, <1>11
<1>13. MaxSensors <= MaxSensors
  BY <1>0
<1> QED BY <1>8, <1>12, <1>13

\* What the sensors of the first monitors make of the state.
Reported(n, state) ==
  /\ state \in DOMAIN Dev!Severity
  /\ \A m \in 1 .. n : \A k \in Dev!Readable(m) : Dev!Critical(sensors[m][k]) <= Dev!Severity[state]
  /\ \/ state = "Unknown" /\ \A m \in 1 .. n : Dev!Readable(m) = {}
     \/ \E m \in 1 .. n : \E k \in Dev!Readable(m) : Dev!Severity[state] = Dev!Critical(sensors[m][k])

LEMMA ReportedNext ==
  ASSUME NEW n \in Nat, NEW m \in Dev!Monitor, m = n + 1, NEW before, NEW after,
         Dev!Readable(m) \subseteq 1 .. MaxSensors,
         Reported(n, before), Covers(m, MaxSensors, before, after)
  PROVE  Reported(n + 1, after)
<1>0. \A i \in 1 .. n + 1 : i \in 1 .. n \/ i = m
  OBVIOUS
<1>00. n + 1 \in 1 .. n + 1 /\ 1 .. n \subseteq 1 .. n + 1
  OBVIOUS
<1>1. /\ before \in DOMAIN Dev!Severity /\ after \in DOMAIN Dev!Severity
      /\ Dev!Severity[before] \in 0 .. 3 /\ Dev!Severity[after] \in 0 .. 3
      /\ Dev!Severity[before] <= Dev!Severity[after]
  BY SeverityTyped DEF Reported, Covers
<1>2. \A k \in Dev!Readable(m) : k <= MaxSensors
  BY DeviceAssumption
<1>3. ASSUME NEW i \in 1 .. n + 1, NEW k \in Dev!Readable(i)
      PROVE  Dev!Critical(sensors[i][k]) <= Dev!Severity[after]
  <2>1. CASE i \in 1 .. n
    <3>1. Dev!Critical(sensors[i][k]) <= Dev!Severity[before]
          /\ Dev!Critical(sensors[i][k]) \in 1 .. 3
      BY <2>1, CriticalTyped DEF Reported
    <3> QED BY <1>1, <3>1
  <2>2. CASE i = m
    BY <1>2, <2>2 DEF Covers
  <2> QED BY <1>0, <2>1, <2>2
<1>4. CASE after = before
  <2>1. CASE \E i \in 1 .. n : \E k \in Dev!Readable(i) : Dev!Severity[before] = Dev!Critical(sensors[i][k])
    BY <1>00, <1>1, <1>3, <1>4, <2>1 DEF Reported
  <2>2. CASE before = "Unknown" /\ \A i \in 1 .. n : Dev!Readable(i) = {}
    <3>1. Dev!Severity[after] = 0
      BY <1>4, <2>2 DEF Dev!Severity
    <3>2. Dev!Readable(m) = {}
      <4>1. SUFFICES ASSUME NEW k \in Dev!Readable(m) PROVE FALSE
        OBVIOUS
      <4>2. Dev!Critical(sensors[m][k]) <= Dev!Severity[after]
            /\ Dev!Critical(sensors[m][k]) \in 1 .. 3
        BY <1>00, <1>3, CriticalTyped
      <4> QED BY <3>1, <4>2
    <3> QED BY <1>0, <1>1, <1>3, <1>4, <2>2, <3>2 DEF Reported
  <2> QED BY <2>1, <2>2 DEF Reported
<1>5. CASE \E k \in Dev!Readable(m) : Dev!Severity[after] = Dev!Critical(sensors[m][k])
  BY <1>00, <1>1, <1>3, <1>5 DEF Reported
<1> QED BY <1>4, <1>5 DEF Covers

ReadableBounded == \A m \in Dev!Monitor : Dev!Readable(m) \subseteq 1 .. MaxSensors

LEMMA ThermalStateIs ==
  ASSUME ReadableBounded
  PROVE  Reported(Monitors, Dev!GetThermalState)
<1> DEFINE S == DOMAIN Dev!Severity
           g == [p \in Nat \X S |-> IF p[1] \in Dev!Monitor THEN Dev!AfterSensors(p[1], p[2])
             ELSE p[2]]
           Is(f) == f = [m \in 0 .. Monitors |->
                           IF m = 0 THEN "Unknown" ELSE Dev!AfterSensors(m, f[m - 1])]
           state == CHOOSE f : Is(f)
<1>0. Monitors \in Nat
  BY DeviceAssumption
<1>1. g \in [Nat \X S -> S]
  <2>1. ASSUME NEW m \in Dev!Monitor, NEW s \in S PROVE Dev!AfterSensors(m, s) \in S
    BY AfterSensorsIs DEF ReadableBounded, Covers
  <2> HIDE DEF S
  <2> QED BY <2>1
<1>2. \A m \in Dev!Monitor, s \in S : g[<<m, s>>] = Dev!AfterSensors(m, s)
  <2>1. Dev!Monitor \subseteq Nat
    BY DEF Dev!Monitor
  <2> QED BY <2>1
<1> HIDE DEF g
<1>3. PICK f0 \in [0 .. Monitors -> S] :
        f0[0] = "Unknown" /\ \A m \in 1 .. Monitors : f0[m] = g[<<m, f0[m - 1]>>]
  <2>1. "Unknown" \in S
    BY DEF Dev!Severity
  <2> HIDE DEF S
  <2>2. Recursive(S, "Unknown", g, Monitors)
    BY <1>0, <1>1, <2>1 DEF Recursive
  <2>3. \E f : Iterates(f, S, "Unknown", g, Monitors)
    BY <2>2, Recursion
  <2> QED BY <2>3 DEF Iterates
<1>4. ASSUME NEW m \in 0 .. Monitors
      PROVE  f0[m] = IF m = 0 THEN "Unknown" ELSE Dev!AfterSensors(m, f0[m - 1])
  <2>1. CASE m = 0
    BY <1>3, <2>1
  <2>2. CASE m # 0
    <3>1. m \in Dev!Monitor /\ m - 1 \in 0 .. Monitors
      BY <1>0, <2>2 DEF Dev!Monitor
    <3>2. f0[m - 1] \in S /\ f0[m] = g[<<m, f0[m - 1]>>]
      BY <1>3, <3>1 DEF Dev!Monitor
    <3> QED BY <1>2, <2>2, <3>1, <3>2
  <2> QED BY <2>1, <2>2
<1>5. Is(f0)
  BY <1>3, <1>4
<1>6. Is(state)
  BY <1>5
<1>7. \A m \in 0 .. Monitors :
        state[m] = IF m = 0 THEN "Unknown" ELSE Dev!AfterSensors(m, state[m - 1])
  <2> HIDE DEF state
  <2> QED BY <1>6
<1>8. Dev!GetThermalState = state[Monitors]
  BY DEF Dev!GetThermalState
<1> HIDE DEF state, Is
<1> DEFINE P == {n \in Nat : n <= Monitors => Reported(n, state[n])}
<1>9. 0 \in P
  <2>1. state[0] = "Unknown" /\ 1 .. 0 = {}
    BY <1>0, <1>7
  <2>2. "Unknown" \in S
    BY DEF Dev!Severity
  <2> QED BY <2>1, <2>2 DEF Reported
<1>10. ASSUME NEW n \in P PROVE n + 1 \in P
  <2>1. n \in Nat
    OBVIOUS
  <2>2. SUFFICES ASSUME n + 1 <= Monitors PROVE Reported(n + 1, state[n + 1])
    OBVIOUS
  <2>3. Reported(n, state[n])
    BY <1>0, <2>1, <2>2
  <2>4. n + 1 \in Dev!Monitor /\ n + 1 \in 0 .. Monitors /\ n + 1 # 0 /\ (n + 1) - 1 = n
    BY <1>0, <2>1, <2>2 DEF Dev!Monitor
  <2>5. state[n + 1] = Dev!AfterSensors(n + 1, state[n])
    BY <1>7, <2>4
  <2>6. state[n] \in S /\ Dev!Readable(n + 1) \subseteq 1 .. MaxSensors
    BY <2>3, <2>4 DEF Reported, ReadableBounded
  <2>7. Covers(n + 1, MaxSensors, state[n], state[n + 1])
    BY <2>4, <2>5, <2>6, AfterSensorsIs
  <2> HIDE DEF S
  <2> QED BY <2>1, <2>3, <2>4, <2>6, <2>7, ReportedNext
<1>11. P = Nat
  <2>1. P \subseteq Nat
    OBVIOUS
  <2> HIDE DEF P
  <2> QED BY <1>9, <1>10, <2>1, SetInduction
<1>12. Monitors \in P
  BY <1>0, <1>11
<1>13. Monitors <= Monitors
  BY <1>0
<1> QED BY <1>8, <1>12, <1>13

LEMMA TypesBound == Dev!TypeOK => ReadableBounded
<1> SUFFICES ASSUME Dev!TypeOK, NEW m \in Dev!Monitor PROVE Dev!Readable(m) \subseteq 1 .. MaxSensors
  BY DEF ReadableBounded
<1>1. PICK n \in 0 .. MaxSensors : sensors[m] \in [1 .. n -> Measure]
  BY DEF Dev!TypeOK
<1>2. DOMAIN sensors[m] = 1 .. n /\ n <= MaxSensors
  BY <1>1, DeviceAssumption
<1> QED BY <1>1, <1>2, DeviceAssumption DEF Dev!Readable

LEMMA ThermalTyped == Dev!TypeOK => Dev!GetThermalState \in DOMAIN Dev!Severity
  BY TypesBound, ThermalStateIs DEF Reported

LEMMA MostCritical == Dev!TypeOK => Dev!MostCriticalReported
<1> SUFFICES ASSUME Dev!TypeOK PROVE Dev!MostCriticalReported
  OBVIOUS
<1> DEFINE all == UNION {{Dev!Critical(sensors[m][n]) : n \in Dev!Readable(m)} : m \in Dev!Monitor}
<1>1. Reported(Monitors, Dev!GetThermalState)
  BY TypesBound, ThermalStateIs
<1>2. \A c \in all : \E m \in 1 .. Monitors : \E k \in Dev!Readable(m) : c = Dev!Critical(sensors[m][k])
  BY DEF Dev!Monitor
<1>3. \A m \in 1 .. Monitors : \A k \in Dev!Readable(m) : Dev!Critical(sensors[m][k]) \in all
  BY DEF Dev!Monitor
<1> DEFINE state == Dev!GetThermalState
<1>4. /\ \A m \in 1 .. Monitors : \A k \in Dev!Readable(m) : Dev!Critical(sensors[m][k]) <= Dev!Severity[state]
      /\ \/ state = "Unknown" /\ \A m \in 1 .. Monitors : Dev!Readable(m) = {}
         \/ \E m \in 1 .. Monitors : \E k \in Dev!Readable(m) : Dev!Severity[state] = Dev!Critical(sensors[m][k])
  BY <1>1 DEF Reported
<1> HIDE DEF all, state
<1>5. all = {} => state = "Unknown"
  BY <1>3, <1>4
<1>6. all # {} => Dev!Severity[state] \in all
  BY <1>2, <1>3, <1>4
<1>7. \A c \in all : c <= Dev!Severity[state]
  BY <1>2, <1>4
<1> QED BY <1>5, <1>6, <1>7 DEF Dev!MostCriticalReported, all, state

DevInv == Dev!TypeOK /\ ("thermalState" \in devSignals <=> devInfo.watch)
  /\ (devInfo.watch => devInfo.timer)

LEMMA InvThermal == DevInv => Dev!ThermalPolled /\ Dev!MostCriticalReported
  BY MostCritical DEF DevInv, Dev!ThermalPolled

DevInfo == [watch : BOOLEAN, thermal : DOMAIN Dev!Severity, timer : BOOLEAN,
         btPowered : BOOLEAN, imeiBuffer : {<<>>, <<DevModem>>},
         buffer : [Lookup -> Dev!Found \cup {Dev!Empty}], told : DOMAIN Dev!Severity \cup {Dev!Untold}]

LEMMA DevInitInv == Dev!Init => DevInv
<1> SUFFICES ASSUME Dev!Init PROVE DevInv
  OBVIOUS
<1>1. devInfo \in DevInfo
  <2> DEFINE buf == [a \in Lookup |-> Dev!Empty]
  <2>1. buf \in [Lookup -> Dev!Found \cup {Dev!Empty}] /\ "Unknown" \in DOMAIN Dev!Severity
    BY DEF Dev!Severity
  <2>2. devInfo = [watch |-> FALSE, thermal |-> "Unknown", timer |-> FALSE,
                btPowered |-> FALSE, imeiBuffer |-> <<>>, buffer |-> buf, told |-> Dev!Untold]
    BY DEF Dev!Init
  <2> HIDE DEF buf
  <2> QED BY <2>1, <2>2 DEF DevInfo
<1>2. \A a \in Lookup : devInfo.buffer[a] = Dev!Empty
  BY DEF Dev!Init
<1>3. devChanges \in 0 .. MaxDevChanges
  BY DeviceAssumption DEF Dev!Init
<1>4. ~devInfo.watch /\ "thermalState" \notin devSignals
  BY DEF Dev!Init
<1>5. /\ sensors \in [Dev!Monitor -> UNION {[1 .. n -> Measure] : n \in 0 .. MaxSensors}]
      /\ powered \in BOOLEAN /\ devModems \in {<<>>, <<DevModem>>}
      /\ devSignals \subseteq Dev!Signals
  BY DEF Dev!Init
<1>6. Dev!TypeOK
  BY <1>1, <1>2, <1>3, <1>5 DEF Dev!TypeOK, DevInfo
<1> QED BY <1>1, <1>4, <1>6 DEF DevInv, DevInfo

LEMMA DevConnectPreserves ==
  ASSUME DevInv, NEW signal \in Dev!Signals, Dev!Connect(signal) \/ Dev!Disconnect(signal)
  PROVE  DevInv'
<1>0. devInfo \in DevInfo /\ Dev!GetThermalState \in DOMAIN Dev!Severity
  BY ThermalTyped DEF DevInv, Dev!TypeOK, DevInfo
<1>1. /\ devInfo' \in DevInfo /\ devInfo'.buffer = devInfo.buffer
      /\ ("thermalState" \in devSignals' <=> devInfo'.watch) /\ (devInfo'.watch => devInfo'.timer)
  <2>0. ("thermalState" \in devSignals <=> devInfo.watch) /\ (devInfo.watch => devInfo.timer)
    BY DEF DevInv
  <2> HIDE DEF Dev!GetThermalState
  <2>1. CASE Dev!Connect(signal) /\ signal = "thermalState"
    <3> DEFINE t == Dev!GetThermalState
    <3>1. devInfo' = [devInfo EXCEPT !.timer = TRUE, !.watch = TRUE, !.thermal = t,
          !.told = Dev!Untold]
      BY <2>1 DEF Dev!Connect
    <3>2. "thermalState" \in devSignals' /\ t \in DOMAIN Dev!Severity
      BY <1>0, <2>1 DEF Dev!Connect
    <3> HIDE DEF t
    <3> QED BY <1>0, <3>1, <3>2 DEF DevInfo
  <2>2. CASE Dev!Connect(signal) /\ signal # "thermalState"
    <3>1. devInfo' = [devInfo EXCEPT !.timer = TRUE] /\ devSignals' = devSignals \cup {signal}
      BY <2>2 DEF Dev!Connect
    <3>2. "thermalState" \in devSignals' <=> "thermalState" \in devSignals
      BY <2>2, <3>1
    <3>3. /\ devInfo' \in DevInfo /\ devInfo'.timer = TRUE /\ devInfo'.watch = devInfo.watch
          /\ devInfo'.buffer = devInfo.buffer
      BY <1>0, <3>1 DEF DevInfo
    <3> QED BY <2>0, <3>2, <3>3
  <2>3. CASE Dev!Disconnect(signal) /\ signal = "thermalState"
    BY <1>0, <2>0, <2>3 DEF Dev!Disconnect, DevInfo, Dev!Severity
  <2>4. CASE Dev!Disconnect(signal) /\ signal # "thermalState"
    BY <1>0, <2>0, <2>4 DEF Dev!Disconnect, DevInfo
  <2> QED BY <2>1, <2>2, <2>3, <2>4
<1>2. devSignals' \subseteq Dev!Signals /\ UNCHANGED <<sensors, powered, devModems, devChanges>>
  BY DEF Dev!Connect, Dev!Disconnect, DevInv, Dev!TypeOK, Dev!world
<1> QED BY <1>1, <1>2 DEF DevInv, Dev!TypeOK, DevInfo

LEMMA OnTimeoutPreserves ==
  ASSUME DevInv, Dev!OnTimeout
  PROVE  DevInv'
<1>0. devInfo \in DevInfo /\ Dev!GetThermalState \in DOMAIN Dev!Severity
  BY ThermalTyped DEF DevInv, Dev!TypeOK, DevInfo
<1> HIDE DEF Dev!GetThermalState
<1>1. /\ devInfo' \in DevInfo /\ devInfo'.buffer = devInfo.buffer
      /\ devInfo'.watch = devInfo.watch /\ devInfo'.timer = devInfo.timer
  BY <1>0 DEF Dev!OnTimeout, DevInfo
<1>2. UNCHANGED <<sensors, powered, devModems, devSignals, devChanges>>
  BY DEF Dev!OnTimeout, Dev!world
<1> QED BY <1>1, <1>2 DEF DevInv, Dev!TypeOK, DevInfo

IsSequence(s) == Len(s) \in Nat /\ DOMAIN s = 1 .. Len(s)

LEMMA SourcesTyped == \A a \in DOMAIN Dev!Sources : IsSequence(Dev!Sources[a])
<1>0. \A x, y, z, u, v, w :
        IsSequence(<<x, y>>) /\ IsSequence(<<x, y, z>>) /\ IsSequence(<<x, y, z, u, v, w>>)
  BY DEF IsSequence
<1>1. \A a \in DOMAIN Dev!NameSources : IsSequence(Dev!NameSources[a])
  <2>1. DOMAIN Dev!NameSources = {"manufacturer", "model", "productName"}
    BY DEF Dev!NameSources
  <2>2. Dev!NameSources["manufacturer"] = <<"sys_vendor", "release BUILD">>
    BY DEF Dev!NameSources
  <2>3. Dev!NameSources["model"] = <<"hw-release NAME", "product_name", "release BUILD">>
    BY DEF Dev!NameSources
  <2>4. Dev!NameSources["productName"] = <<"release PRETTY_NAME", "lsb_release -c">>
    BY DEF Dev!NameSources
  <2> QED BY <1>0, <2>1, <2>2, <2>3, <2>4
<1>2. \A a \in DOMAIN Dev!IdentifierSources : IsSequence(Dev!IdentifierSources[a])
  <2>1. DOMAIN Dev!IdentifierSources = {"uniqueDeviceID"}
    BY DEF Dev!IdentifierSources
  <2>2. Dev!IdentifierSources["uniqueDeviceID"]
          = <<"product_uuid", "unique-id", "wlan address", "ethernet address",
              "machine-id", "dbus machine-id">>
    BY DEF Dev!IdentifierSources
  <2> QED BY <1>0, <2>1, <2>2
<1>3. \A a \in DOMAIN Dev!VersionSources : IsSequence(Dev!VersionSources[a])
  <2>1. DOMAIN Dev!VersionSources = {"osVersion", "firmware", "operatingSystemName", "boardName"}
    BY DEF Dev!VersionSources
  <2>2. Dev!VersionSources["osVersion"]
          = <<"os-release VERSION_ID", "release VERSION_ID", "lsb_release -r">>
    BY DEF Dev!VersionSources
  <2>3. Dev!VersionSources["firmware"] = <<"hw-release VERSION_ID", "osrelease">>
    BY DEF Dev!VersionSources
  <2>4. Dev!VersionSources["operatingSystemName"] = <<"os-release NAME", "release NAME">>
    BY DEF Dev!VersionSources
  <2>5. Dev!VersionSources["boardName"] = <<"boardname", "board_name">>
    BY DEF Dev!VersionSources
  <2> QED BY <1>0, <2>1, <2>2, <2>3, <2>4, <2>5
<1>4. ASSUME NEW a \in DOMAIN Dev!Sources PROVE IsSequence(Dev!Sources[a])
  <2>1. \/ a \in DOMAIN Dev!NameSources \/ a \in DOMAIN Dev!IdentifierSources
        \/ a \in DOMAIN Dev!VersionSources
    BY DEF Dev!Sources
  <2>2. Dev!Sources[a] = IF a \in DOMAIN Dev!NameSources THEN Dev!NameSources[a]
                     ELSE IF a \in DOMAIN Dev!IdentifierSources THEN Dev!IdentifierSources[a]
                     ELSE Dev!VersionSources[a]
    BY DEF Dev!Sources
  <2> QED BY <1>1, <1>2, <1>3, <2>1, <2>2
<1> QED BY <1>4

LEMMA AskPreserves ==
  ASSUME DevInv, NEW a \in Lookup, Dev!Ask(a)
  PROVE  DevInv'
<1> DEFINE I == {i \in 1 .. Len(Dev!Sources[a]) : Dev!Sources[a][i] \in files}
           found == Dev!SelectInSeq(Dev!Sources[a], LAMBDA source : source \in files)
<1>0. devInfo \in DevInfo /\ \A b \in Lookup : devInfo.buffer[b] \in Dev!Range(Dev!Sources[b]) \cup {Dev!Empty}
  BY DEF DevInv, Dev!TypeOK, DevInfo
<1>1. IsSequence(Dev!Sources[a])
  BY SourcesTyped, DeviceAssumption
<1>2. found # 0 => found \in 1 .. Len(Dev!Sources[a])
  <2>1. found = IF I # {} THEN Dev!Min(I) ELSE 0
    BY DEF Dev!SelectInSeq
  <2>2. I \subseteq Nat
    BY <1>1 DEF IsSequence
  <2> HIDE DEF found
  <2>3. I # {} => Dev!Min(I) \in I
    <3> HIDE DEF I
    <3> QED BY <2>2, LeastNat DEF Dev!Min
  <2> QED BY <2>1, <2>3
<1> DEFINE new == IF devInfo.buffer[a] = Dev!Empty /\ found # 0 THEN Dev!Sources[a][found]
    ELSE devInfo.buffer[a]
<1>3. devInfo' = [devInfo EXCEPT !.buffer[a] = new]
  BY <1>0 DEF Dev!Ask
<1>4. new \in Dev!Found \cup {Dev!Empty} /\ new \in Dev!Range(Dev!Sources[a]) \cup {Dev!Empty}
  <2> HIDE DEF found
  <2>1. found # 0 => Dev!Sources[a][found] \in Dev!Range(Dev!Sources[a])
    BY <1>1, <1>2 DEF Dev!Range, IsSequence
  <2>2. new \in Dev!Range(Dev!Sources[a]) \cup {Dev!Empty}
    BY <1>0, <2>1
  <2> QED BY <2>2 DEF Dev!Found
<1> HIDE DEF new, found
<1>5. devInfo' = [devInfo EXCEPT !.buffer = [devInfo.buffer EXCEPT ![a] = new]]
  BY <1>0, <1>3 DEF DevInfo
<1>6. /\ devInfo' \in DevInfo /\ devInfo'.watch = devInfo.watch /\ devInfo'.timer = devInfo.timer
      /\ devInfo'.buffer = [devInfo.buffer EXCEPT ![a] = new]
  BY <1>0, <1>4, <1>5 DEF DevInfo
<1>7. \A b \in Lookup : devInfo'.buffer[b] = IF b = a THEN new ELSE devInfo.buffer[b]
  BY <1>0, <1>6 DEF DevInfo
<1>8. UNCHANGED <<sensors, powered, devModems, devSignals, devChanges>>
  BY DEF Dev!Ask, Dev!world
<1>9. \A b \in Lookup : devInfo'.buffer[b] \in Dev!Range(Dev!Sources[b]) \cup {Dev!Empty}
  BY <1>0, <1>4, <1>7
<1> QED BY <1>6, <1>8, <1>9 DEF DevInv, Dev!TypeOK, DevInfo

LEMMA DevWorldPreserves ==
  ASSUME DevInv, Dev!World
  PROVE  DevInv'
<1>0. UNCHANGED <<devSignals, devInfo>> /\ devChanges' \in 0 .. MaxDevChanges
  BY DeviceAssumption DEF Dev!World, Dev!Warm, Dev!Elsewhere, Dev!Change, DevInv, Dev!TypeOK
<1>1. /\ sensors' \in [Dev!Monitor -> UNION {[1 .. n -> Measure] : n \in 0 .. MaxSensors}]
      /\ powered' \in BOOLEAN /\ devModems' \in {<<>>, <<DevModem>>}
  <2>1. ASSUME NEW m \in Dev!Monitor, NEW n \in 1 .. MaxSensors, NEW reading \in Measure,
               Dev!Warm(m, n, reading)
        PROVE  sensors' \in [Dev!Monitor -> UNION {[1 .. k -> Measure] : k \in 0 .. MaxSensors}]
    <3>1. PICK k \in 0 .. MaxSensors : sensors[m] \in [1 .. k -> Measure]
      BY DEF DevInv, Dev!TypeOK
    <3>2. [sensors[m] EXCEPT ![n] = reading] \in [1 .. k -> Measure]
      BY <2>1, <3>1
    <3>3. sensors' = [sensors EXCEPT ![m] = [sensors[m] EXCEPT ![n] = reading]]
      BY <2>1 DEF Dev!Warm
    <3> QED BY <3>2, <3>3 DEF DevInv, Dev!TypeOK
  <2> QED BY <2>1 DEF Dev!World, Dev!Warm, Dev!Elsewhere, DevInv, Dev!TypeOK
<1> QED BY <1>0, <1>1 DEF DevInv, Dev!TypeOK

LEMMA DevPreserves ==
  ASSUME DevInv, [Dev!Next]_(Dev!vars)
  PROVE  DevInv'
<1>1. CASE UNCHANGED Dev!vars
  BY <1>1 DEF Dev!vars, Dev!world, DevInv, Dev!TypeOK
<1>2. CASE Dev!ReadBluetooth \/ Dev!ReadImei \/ Dev!CountImeis
  <2>0. devInfo \in DevInfo /\ devModems \in {<<>>, <<DevModem>>} /\ powered \in BOOLEAN
    BY DEF DevInv, Dev!TypeOK, DevInfo
  <2>1. /\ devInfo' \in DevInfo /\ devInfo'.watch = devInfo.watch /\ devInfo'.timer = devInfo.timer
        /\ devInfo'.buffer = devInfo.buffer
    BY <1>2, <2>0 DEF Dev!ReadBluetooth, Dev!ReadImei, Dev!CountImeis, DevInfo
  <2>2. UNCHANGED <<sensors, powered, devModems, devSignals, devChanges>>
    BY <1>2 DEF Dev!ReadBluetooth, Dev!ReadImei, Dev!CountImeis, Dev!world
  <2> QED BY <2>1, <2>2 DEF DevInv, Dev!TypeOK, DevInfo
<1> QED
  BY <1>1, <1>2, DevConnectPreserves, OnTimeoutPreserves, AskPreserves,
    DevWorldPreserves DEF Dev!Next
-----------------------------------------------------------------------------
(***************************************************************************)
(* The network information on Windows: a callback stays registered while a *)
(* signal is connected, and the strength kept is the one told.             *)
(***************************************************************************)
WinNetInv == WinNet!TypeOK /\ WinNet!StillNotified /\ WinNet!EthernetReported

LEMMA MinIn ==
  ASSUME NEW S \in SUBSET Nat, S # {}
  PROVE  WinNet!Min(S) \in S /\ \A y \in S : WinNet!Min(S) <= y
  BY LeastNat DEF WinNet!Min

LEMMA QualityTyped ==
  ASSUME WinNet!TypeOK, WinNet!Readable # {}
  PROVE  wlan[WinNet!Min(WinNet!Readable)].quality \in Quality
<1>1. WinNet!Readable \in SUBSET Nat /\ WinNet!Readable \subseteq DOMAIN wlan
  BY DEF WinNet!TypeOK, WinNet!Readable
<1>2. WinNet!Min(WinNet!Readable) \in DOMAIN wlan
  BY <1>1, MinIn
<1>3. wlan[WinNet!Min(WinNet!Readable)] \in WinNet!WlanInterfaces
  BY <1>2 DEF WinNet!TypeOK
<1> QED BY <1>3 DEF WinNet!WlanInterfaces

LEMMA WinNetInitInv == WinNet!Init => WinNetInv
<1> SUFFICES ASSUME WinNet!Init PROVE WinNetInv
  OBVIOUS
<1>1. wlan \in Seq(WinNet!WlanInterfaces)
  <2>1. CASE wlan = <<>>
    BY <2>1
  <2>2. ASSUME NEW w \in [ready : {TRUE}, state : WinNet!WlanState, quality : Quality], wlan = <<w>>
        PROVE  wlan \in Seq(WinNet!WlanInterfaces)
    <3>1. w \in WinNet!WlanInterfaces
      BY DEF WinNet!WlanInterfaces
    <3> QED BY <2>2, <3>1
  <2> QED BY <2>1, <2>2 DEF WinNet!Init
<1>2. /\ polls \in BOOLEAN /\ adapters \in Adapters
      /\ timers \in 0..MaxTimers /\ (polls => timers > 0)
  <2>1. CASE polls
    BY <2>1, WinNetAssumption DEF WinNet!Init
  <2>2. CASE ~polls
    BY <2>2, WinNetAssumption DEF WinNet!Init
  <2> QED BY <2>1, <2>2
<1>3. /\ handles \subseteq Handle /\ callbacks \subseteq handles
      /\ hWlan \in Handle \cup {0} /\ wlanCallbackInitialized \in BOOLEAN
      /\ (wlanCallbackInitialized => callbacks # {})
  BY DEF WinNet!Init
<1>5. winNetInbox \in Seq(WinNet!Notice) /\ Len(winNetInbox) <= MaxInbox
  BY WinNetAssumption DEF WinNet!Init
<1>4. /\ wifiStrength \in Quality \cup {0} /\ ethStrength \in {0, 100}
      /\ toldWifi \in Quality \cup {0, WinNet!Unheard} /\ toldEthernet \in {0, 100, WinNet!Unheard}
      /\ toldEthernet = WinNet!Unheard
      /\ toldStatus \in {"NoNetworkAvailable", "HomeNetwork", "Searching", "UnknownStatus"}
      /\ toldMode \in {"WlanMode", "UnknownMode"}
      /\ enumerationFailed \in BOOLEAN
  BY DEF WinNet!Init
<1>6. winNetChanges \in 0..MaxWinNetChanges
  BY WinNetAssumption DEF WinNet!Init
<1> QED
  BY <1>1, <1>2, <1>3, <1>4, <1>5, <1>6 DEF WinNetInv, WinNet!TypeOK, WinNet!StillNotified,
    WinNet!EthernetReported

\* What belongs to the WLAN service.
WlanOK ==
  /\ handles \subseteq Handle /\ callbacks \subseteq handles
  /\ hWlan \in Handle \cup {0} /\ wlanCallbackInitialized \in BOOLEAN
  /\ enumerationFailed \in BOOLEAN
  /\ (wlanCallbackInitialized /\ ~enumerationFailed => callbacks # {})
WifiOK == wifiStrength \in Quality \cup {0} /\ toldWifi \in Quality \cup {0, WinNet!Unheard}

LEMMA QualityReadTyped ==
  ASSUME WinNet!TypeOK, WinNet!QualityRead
  PROVE  WifiOK'
<1>1. CASE WinNet!Readable = {}
  BY <1>1 DEF WinNet!QualityRead, WinNet!TypeOK, WifiOK
<1>2. CASE WinNet!Readable # {}
  <2> DEFINE sig == wlan[WinNet!Min(WinNet!Readable)].quality
  <2>1. sig \in Quality
    BY <1>2, QualityTyped
  <2>2. wifiStrength' = sig /\ toldWifi' = IF sig # wifiStrength THEN sig ELSE toldWifi
    BY <1>2 DEF WinNet!QualityRead
  <2> HIDE DEF sig
  <2> QED BY <2>1, <2>2 DEF WinNet!TypeOK, WifiOK
<1> QED BY <1>1, <1>2

LEMMA WlanReadPreserves ==
  ASSUME WinNetInv, WinNet!WlanRead
  PROVE  WlanOK' /\ WifiOK'
<1>0. WinNet!TypeOK /\ WlanOK /\ WifiOK
  BY DEF WinNetInv, WinNet!TypeOK, WinNet!StillNotified, WlanOK, WifiOK
<1>1. CASE hWlan \in handles /\ WinNet!QualityRead /\ UNCHANGED WinNet!wlanVars
  <2>1. WifiOK'
    BY <1>0, <1>1, QualityReadTyped
  <2> QED BY <1>0, <1>1, <2>1 DEF WlanOK, WinNet!wlanVars
<1>2. CASE /\ hWlan # 0
           /\ handles' = handles \ {hWlan} /\ callbacks' = callbacks \ {hWlan}
           /\ enumerationFailed' = (enumerationFailed \/ hWlan \in handles)
           /\ UNCHANGED <<hWlan, wlanCallbackInitialized, wifiStrength, toldWifi>>
  <2>1. CASE hWlan \in handles
    BY <1>0, <1>2, <2>1 DEF WlanOK, WifiOK
  <2>2. CASE hWlan \notin handles
    <3>1. callbacks' = callbacks
      BY <1>0, <1>2, <2>2 DEF WlanOK
    <3> QED BY <1>0, <1>2, <2>2, <3>1 DEF WlanOK, WifiOK
  <2> QED BY <2>1, <2>2
<1>3. CASE /\ hWlan = 0
           /\ \/ \E h \in Handle \ handles : /\ hWlan' = h /\ handles' = handles \cup {h}
                                             /\ WinNet!QualityRead
              \/ UNCHANGED <<hWlan, handles, wifiStrength, toldWifi>>
           /\ UNCHANGED <<callbacks, wlanCallbackInitialized, enumerationFailed>>
  <2>1. WifiOK'
    BY <1>0, <1>3, QualityReadTyped DEF WifiOK
  <2> QED BY <1>0, <1>3, <2>1 DEF WlanOK
<1> QED BY <1>1, <1>2, <1>3 DEF WinNet!WlanRead

LEMMA StartWifiCallbackPreserves ==
  ASSUME WinNetInv, WinNet!StartWifiCallback, UNCHANGED enumerationFailed
  PROVE  WlanOK'
<1>0. WlanOK
  BY DEF WinNetInv, WinNet!TypeOK, WinNet!StillNotified, WlanOK
<1>1. CASE UNCHANGED <<handles, callbacks, hWlan, wlanCallbackInitialized>>
  BY <1>0, <1>1 DEF WlanOK
<1>2. CASE \E h \in Handle \ handles :
          /\ handles' = handles \cup {h} /\ hWlan' = h
          /\ \/ /\ callbacks' = callbacks \cup {h} /\ wlanCallbackInitialized' = TRUE
             \/ UNCHANGED <<callbacks, wlanCallbackInitialized>>
  <2>1. PICK h \in Handle \ handles :
          /\ handles' = handles \cup {h} /\ hWlan' = h
          /\ \/ /\ callbacks' = callbacks \cup {h} /\ wlanCallbackInitialized' = TRUE
             \/ UNCHANGED <<callbacks, wlanCallbackInitialized>>
    BY <1>2
  <2>2. CASE callbacks' = callbacks \cup {h} /\ wlanCallbackInitialized' = TRUE
    BY <1>0, <2>1, <2>2 DEF WlanOK
  <2>3. CASE UNCHANGED <<callbacks, wlanCallbackInitialized>>
    BY <1>0, <2>1, <2>3 DEF WlanOK
  <2> QED BY <2>1, <2>2, <2>3
<1>3. CASE hWlan' = 0 /\ UNCHANGED <<handles, callbacks, wlanCallbackInitialized>>
  BY <1>0, <1>3 DEF WlanOK
<1> QED BY <1>1, <1>2, <1>3 DEF WinNet!StartWifiCallback

LEMMA EthernetReadPreserves ==
  ASSUME WinNetInv, NEW returned \in BOOLEAN, WinNet!EthernetRead(returned)
  PROVE  /\ ethStrength' \in {0, 100} /\ toldEthernet' \in {0, 100, WinNet!Unheard}
         /\ WinNet!EthernetReported'
<1>1. WinNet!EthernetStrength \in {0, 100}
  BY DEF WinNet!EthernetStrength
<1> HIDE DEF WinNet!EthernetStrength
<1> QED BY <1>1 DEF WinNetInv, WinNet!TypeOK, WinNet!EthernetReported, WinNet!EthernetRead

\* The rest of Inv.
Rest ==
  /\ polls \in BOOLEAN
  /\ wlan \in Seq(WinNet!WlanInterfaces) /\ adapters \in Adapters
  /\ ethStrength \in {0, 100}
  /\ timers \in 0..MaxTimers
  /\ winNetInbox \in Seq(WinNet!Notice) /\ Len(winNetInbox) <= MaxInbox
  /\ toldEthernet \in {0, 100, WinNet!Unheard}
  /\ toldStatus \in {"NoNetworkAvailable", "HomeNetwork", "Searching", "UnknownStatus"}
  /\ toldMode \in {"WlanMode", "UnknownMode"}
  /\ winNetChanges \in 0..MaxWinNetChanges
  /\ polls => timers > 0
  /\ WinNet!EthernetReported

LEMMA WinNetInvIs == WinNetInv <=> Rest /\ WlanOK /\ WifiOK
<1>1. WinNetInv => Rest /\ WlanOK /\ WifiOK
  BY DEF WinNetInv, WinNet!TypeOK, WinNet!StillNotified, Rest, WlanOK, WifiOK
<1>2. Rest /\ WlanOK /\ WifiOK => WinNet!TypeOK
  BY DEF WinNet!TypeOK, Rest, WlanOK, WifiOK
<1>3. Rest /\ WlanOK => WinNet!StillNotified /\ WinNet!EthernetReported
  BY DEF WinNet!StillNotified, Rest, WlanOK
<1> QED BY <1>1, <1>2, <1>3 DEF WinNetInv

LEMMA InvIsPrimed == Rest' /\ WlanOK' /\ WifiOK' => WinNetInv'
  BY WinNetInvIs, PTL

LEMMA ReadsPreserve ==
  ASSUME WinNetInv, WinNet!ReadWlanStrength \/ WinNet!ReadEthernetStrength \/ WinNet!NetworkStrengthTimeout
  PROVE  WinNetInv'
<1>0. Rest /\ WlanOK /\ WifiOK
  BY WinNetInvIs
<1>1. CASE WinNet!ReadWlanStrength
  <2>1. WlanOK' /\ WifiOK'
    BY <1>1, WlanReadPreserves DEF WinNet!ReadWlanStrength
  <2>2. Rest'
    BY <1>0, <1>1 DEF WinNet!ReadWlanStrength, Rest, WinNet!EthernetReported
  <2> QED BY <2>1, <2>2, InvIsPrimed
<1>2. CASE WinNet!ReadEthernetStrength
  <2>1. WlanOK' /\ WifiOK'
    BY <1>0, <1>2 DEF WinNet!ReadEthernetStrength, WlanOK, WifiOK, WinNet!wlanVars
  <2>2. ethStrength' \in {0, 100} /\ toldEthernet' \in {0, 100, WinNet!Unheard}
        /\ WinNet!EthernetReported'
    BY <1>2, EthernetReadPreserves DEF WinNet!ReadEthernetStrength
  <2>3. Rest'
    BY <1>0, <1>2, <2>2 DEF WinNet!ReadEthernetStrength, Rest
  <2> QED BY <2>1, <2>3, InvIsPrimed
<1>3. CASE WinNet!NetworkStrengthTimeout
  <2>1. WlanOK' /\ WifiOK'
    BY <1>3, WlanReadPreserves DEF WinNet!NetworkStrengthTimeout
  <2>2. ethStrength' \in {0, 100} /\ toldEthernet' \in {0, 100, WinNet!Unheard}
        /\ WinNet!EthernetReported'
    BY <1>3, EthernetReadPreserves DEF WinNet!NetworkStrengthTimeout
  <2>3. Rest'
    BY <1>0, <1>3, <2>2 DEF WinNet!NetworkStrengthTimeout, Rest
  <2> QED BY <2>1, <2>3, InvIsPrimed
<1> QED BY <1>1, <1>2, <1>3

LEMMA CallbackPreserves ==
  ASSUME WinNetInv, WinNet!WlanNotificationCallback
  PROVE  WinNetInv'
<1>0. Rest /\ WlanOK /\ WifiOK
  BY WinNetInvIs
<1>1. winNetInbox' \in Seq(WinNet!Notice) /\ Len(winNetInbox') <= MaxInbox
  <2>1. winNetInbox \in Seq(WinNet!Notice) /\ winNetInbox # <<>>
        /\ winNetInbox' = Tail(winNetInbox) /\ Len(winNetInbox) <= MaxInbox
    BY <1>0 DEF WinNet!WlanNotificationCallback, Rest
  <2>2. Tail(winNetInbox) \in Seq(WinNet!Notice) /\ Len(Tail(winNetInbox)) = Len(winNetInbox) - 1
        /\ Len(winNetInbox) \in Nat
    BY <2>1
  <2> QED BY <2>1, <2>2, WinNetAssumption
<1>2. CASE /\ Head(winNetInbox) \in DOMAIN WinNet!NoticedStatus
           /\ WinNet!EmitNetworkStatusChanged(WinNet!NoticedStatus[Head(winNetInbox)])
           /\ UNCHANGED <<wifiStrength, timers>>
  <2> DEFINE status == WinNet!NoticedStatus[Head(winNetInbox)]
  <2>1. status \in {"NoNetworkAvailable", "HomeNetwork", "Searching"}
    BY <1>2 DEF WinNet!NoticedStatus
  <2>2. WinNet!EmitNetworkStatusChanged(status)
    BY <1>2
  <2> HIDE DEF status
  <2>3. CASE status = "Searching"
    <3>1. WlanOK' /\ WifiOK' /\ toldMode' = toldMode /\ toldStatus' = status
      BY <1>0, <1>2, <2>2, <2>3 DEF WinNet!EmitNetworkStatusChanged, WlanOK, WifiOK, WinNet!wlanVars
    <3>2. Rest'
      BY <1>0, <1>1, <1>2, <2>1, <3>1 DEF WinNet!WlanNotificationCallback, Rest,
        WinNet!EthernetReported
    <3> QED BY <3>1, <3>2, InvIsPrimed
  <2>4. CASE status # "Searching"
    <3>1. WinNet!StartWifiCallback /\ UNCHANGED <<toldWifi, enumerationFailed>>
          /\ toldStatus' = status
      BY <2>2, <2>4 DEF WinNet!EmitNetworkStatusChanged
    <3>2. WlanOK'
      BY <3>1, StartWifiCallbackPreserves
    <3>3. toldMode' \in {"WlanMode", "UnknownMode"}
      BY <1>0, <2>2, <2>4 DEF WinNet!EmitNetworkStatusChanged, Rest
    <3>4. Rest'
      BY <1>0, <1>1, <1>2, <2>1, <3>1, <3>3 DEF WinNet!WlanNotificationCallback, Rest,
        WinNet!EthernetReported
    <3>5. WifiOK'
      BY <1>0, <1>2, <3>1 DEF WifiOK
    <3> QED BY <3>2, <3>4, <3>5, InvIsPrimed
  <2> QED BY <2>3, <2>4
<1>3. CASE /\ Head(winNetInbox) = "quality" /\ WinNet!WlanRead
           /\ polls => timers < MaxTimers
           /\ timers' = IF polls THEN timers + 1 ELSE timers
           /\ UNCHANGED <<toldStatus, toldMode>>
  <2>1. WlanOK' /\ WifiOK'
    BY <1>3, WlanReadPreserves
  <2>2. timers' \in 0..MaxTimers /\ (polls => timers' > 0)
    <3>1. CASE polls
      BY <1>0, <1>3, <3>1, WinNetAssumption DEF Rest
    <3>2. CASE ~polls
      BY <1>0, <1>3, <3>2, WinNetAssumption DEF Rest
    <3> QED BY <3>1, <3>2
  <2>3. UNCHANGED <<polls, wlan, adapters, ethStrength, toldEthernet, toldStatus, toldMode,
        winNetChanges>>
    BY <1>3 DEF WinNet!WlanNotificationCallback
  <2>4. Rest'
    BY <1>0, <1>1, <2>2, <2>3 DEF Rest, WinNet!EthernetReported
  <2> QED BY <2>1, <2>4, InvIsPrimed
<1> QED BY <1>2, <1>3 DEF WinNet!WlanNotificationCallback

LEMMA ChangesPreserve ==
  ASSUME WinNetInv, NEW i \in DOMAIN wlan, NEW state \in WinNet!WlanState, NEW quality \in Quality,
         WinNet!WlanChanges(i, state, quality)
  PROVE  WinNetInv'
<1>0. Rest /\ WlanOK /\ WifiOK
  BY WinNetInvIs
<1>1. wlan' \in Seq(WinNet!WlanInterfaces)
  <2>1. wlan[i] \in WinNet!WlanInterfaces /\ wlan \in Seq(WinNet!WlanInterfaces)
    BY <1>0 DEF Rest
  <2>2. [wlan[i] EXCEPT !.state = state, !.quality = quality] \in WinNet!WlanInterfaces
    BY <2>1 DEF WinNet!WlanInterfaces
  <2>3. wlan' = [wlan EXCEPT ![i] = [wlan[i] EXCEPT !.state = state, !.quality = quality]]
    BY DEF WinNet!WlanChanges
  <2> QED BY <2>1, <2>2, <2>3
<1>2. winNetInbox' \in Seq(WinNet!Notice) /\ Len(winNetInbox') <= MaxInbox
  <2> DEFINE c == WinNet!Cardinality(callbacks)
             notice == CASE state = "connected" /\ wlan[i].state = "connected" -> "quality"
                         [] state = "connected" -> "connected"
                         [] state = "authenticating" -> "start"
                         [] OTHER -> "disconnected"
  <2>1. IsFiniteSet(callbacks)
    BY <1>0, WinNetAssumption, FS_Subset, SameCardinality DEF WlanOK
  <2>2. c \in Nat
    BY <2>1, FS_CardinalityType, SameCardinality
  <2>3. notice \in WinNet!Notice
    BY DEF WinNet!Notice
  <2>4. winNetInbox' = winNetInbox \o [n \in 1..c |-> notice] /\ Len(winNetInbox) + c <= MaxInbox
    BY DEF WinNet!WlanChanges
  <2> HIDE DEF c, notice
  <2>5. [n \in 1..c |-> notice] \in Seq(WinNet!Notice) /\ Len([n \in 1..c |-> notice]) = c
    BY <2>2, <2>3
  <2>6. winNetInbox \in Seq(WinNet!Notice)
    BY <1>0 DEF Rest
  <2> DEFINE s == [n \in 1..c |-> notice]
  <2> HIDE DEF s
  <2>7. s \in Seq(WinNet!Notice) /\ Len(s) = c /\ winNetInbox' = winNetInbox \o s
    BY <2>4, <2>5 DEF s
  <2> QED BY <2>2, <2>4, <2>6, <2>7, WinNetAssumption
<1>3. winNetChanges' \in 0..MaxWinNetChanges
  BY <1>0, WinNetAssumption DEF WinNet!WlanChanges, Rest
<1>4. /\ UNCHANGED <<polls, adapters, handles, callbacks, hWlan, wlanCallbackInitialized,
                     enumerationFailed, wifiStrength, ethStrength, timers>>
      /\ UNCHANGED <<toldWifi, toldEthernet, toldStatus, toldMode>>
  BY DEF WinNet!WlanChanges, WinNet!wlanVars, WinNet!told
<1>5. WlanOK' /\ WifiOK'
  BY <1>0, <1>4 DEF WlanOK, WifiOK
<1>6. Rest'
  BY <1>0, <1>1, <1>2, <1>3, <1>4 DEF Rest, WinNet!EthernetReported
<1> QED BY <1>5, <1>6, InvIsPrimed

LEMMA WinNetPreserves ==
  ASSUME WinNetInv, [WinNet!Next]_(WinNet!vars)
  PROVE  WinNetInv'
<1>0. Rest /\ WlanOK /\ WifiOK
  BY WinNetInvIs
<1>1. CASE UNCHANGED WinNet!vars
  <2>1. WlanOK' /\ WifiOK'
    BY <1>0, <1>1 DEF WlanOK, WifiOK, WinNet!vars, WinNet!told
  <2>2. Rest'
    BY <1>0, <1>1 DEF Rest, WinNet!vars, WinNet!told, WinNet!EthernetReported
  <2> QED BY <2>1, <2>2, InvIsPrimed
<1>2. CASE \E list \in Adapters : WinNet!AdaptersChange(list)
  <2>1. WlanOK' /\ WifiOK'
    BY <1>0, <1>2 DEF WinNet!AdaptersChange, WlanOK, WifiOK, WinNet!wlanVars, WinNet!told
  <2>2. winNetChanges' \in 0..MaxWinNetChanges /\ adapters' \in Adapters
    BY <1>0, <1>2, WinNetAssumption DEF WinNet!AdaptersChange, Rest
  <2>3. Rest'
    BY <1>0, <1>2, <2>2 DEF WinNet!AdaptersChange, Rest, WinNet!told, WinNet!EthernetReported
  <2> QED BY <2>1, <2>3, InvIsPrimed
<1> QED BY <1>1, <1>2, ReadsPreserve, CallbackPreserves, ChangesPreserve DEF WinNet!Next
-----------------------------------------------------------------------------
(***************************************************************************)
(* The QML network information.                                            *)
(***************************************************************************)
\* A signal the constructor leaves alone is connected exactly while it is monitored,
\* and the counts are bounded by what happened.
QmlInv ==
  /\ monitor \in [QmlSignal -> BOOLEAN] /\ qmlChanges \in 0 .. MaxQmlChanges
  /\ connections \in [QmlSignal -> 0..2] /\ emitted \in [QmlSignal -> Nat]
  /\ heard \in [QmlSignal -> Nat]
  /\ \A s \in QmlSignal :
       /\ emitted[s] <= qmlChanges /\ heard[s] <= 2 * qmlChanges
       /\ ~monitor[s] => connections[s] <= 1
       /\ s \notin Obsolete => connections[s] = IF monitor[s] THEN 1 ELSE 0
  /\ Qml!HeardWhileMonitored

LEMMA QmlInitInv == Qml!Init => QmlInv
  BY QmlAssumption DEF Qml!Init, QmlInv, Qml!HeardWhileMonitored

LEMMA SetMonitorPreserves ==
  ASSUME QmlInv, NEW s \in QmlSignal, NEW on \in BOOLEAN, Qml!SetMonitor(s, on)
  PROVE  QmlInv'
<1> USE DEF QmlInv
<1>1. /\ on # monitor[s] /\ qmlChanges < MaxQmlChanges /\ qmlChanges' = qmlChanges + 1
      /\ monitor' = [monitor EXCEPT ![s] = on]
      /\ connections' = [connections EXCEPT ![s] = IF on THEN connections[s] + 1 ELSE 0]
      /\ UNCHANGED <<emitted, heard>>
  BY DEF Qml!SetMonitor, Qml!Change, Qml!Connected
<1>2. connections[s] \in 0..2 /\ (on => connections[s] \in 0..1)
  <2>1. on => ~monitor[s]
    BY <1>1
  <2> QED BY <2>1
<1>3. /\ monitor' \in [QmlSignal -> BOOLEAN] /\ qmlChanges' \in 0 .. MaxQmlChanges
      /\ connections' \in [QmlSignal -> 0..2]
  BY <1>1, <1>2, QmlAssumption
<1>4. ASSUME NEW t \in QmlSignal
      PROVE  /\ ~monitor'[t] => connections'[t] <= 1
             /\ t \notin Obsolete => connections'[t] = IF monitor'[t] THEN 1 ELSE 0
  <2>1. CASE t = s /\ on
    <3>1. ~monitor[s]
      BY <1>1, <2>1
    <3>2. connections'[s] = connections[s] + 1 /\ monitor'[s]
      BY <1>1, <2>1
    <3> QED BY <2>1, <3>1, <3>2
  <2>2. CASE t = s /\ ~on
    <3>1. connections'[s] = 0 /\ ~monitor'[s]
      BY <1>1, <2>2
    <3> QED BY <2>2, <3>1
  <2>3. CASE t # s
    <3>1. connections'[t] = connections[t] /\ monitor'[t] = monitor[t]
      BY <1>1, <2>3
    <3> QED BY <3>1
  <2> QED BY <2>1, <2>2, <2>3
<1>5. ASSUME NEW t \in QmlSignal PROVE emitted'[t] <= qmlChanges' /\ heard'[t] <= 2 * qmlChanges'
  BY <1>1
<1> QED BY <1>1, <1>3, <1>4, <1>5 DEF Qml!HeardWhileMonitored

LEMMA EmittedPreserves ==
  ASSUME QmlInv, NEW s \in QmlSignal, Qml!Emitted(s)
  PROVE  QmlInv'
<1> USE DEF QmlInv
<1>1. /\ qmlChanges < MaxQmlChanges /\ qmlChanges' = qmlChanges + 1
      /\ emitted' = [emitted EXCEPT ![s] = emitted[s] + (IF monitor[s] THEN 1 ELSE 0)]
      /\ heard' = [heard EXCEPT ![s] = heard[s] + connections[s]]
      /\ UNCHANGED <<monitor, connections>>
  BY DEF Qml!Emitted, Qml!Change
<1>2. qmlChanges' \in 0 .. MaxQmlChanges /\ emitted' \in [QmlSignal -> Nat]
      /\ heard' \in [QmlSignal -> Nat]
  BY <1>1, QmlAssumption
<1>3. ASSUME NEW t \in QmlSignal
      PROVE  /\ emitted'[t] <= qmlChanges' /\ heard'[t] <= 2 * qmlChanges'
             /\ t \notin Obsolete => heard'[t] = emitted'[t]
  <2>1. emitted[t] \in Nat /\ heard[t] \in Nat /\ connections[t] \in 0..2 /\ qmlChanges \in Nat
    BY QmlAssumption
  <2>2. CASE t = s
    BY <1>1, <2>1, <2>2 DEF Qml!HeardWhileMonitored
  <2>3. CASE t # s
    BY <1>1, <2>1, <2>3 DEF Qml!HeardWhileMonitored
  <2> QED BY <2>2, <2>3
<1> QED BY <1>1, <1>2, <1>3 DEF Qml!HeardWhileMonitored

LEMMA QmlPreserves == QmlInv /\ [Qml!Next]_(Qml!vars) => QmlInv'
<1> SUFFICES ASSUME QmlInv, [Qml!Next]_(Qml!vars) PROVE QmlInv'
  OBVIOUS
<1>1. CASE UNCHANGED Qml!vars
  BY <1>1 DEF Qml!vars, QmlInv, Qml!HeardWhileMonitored
<1>2. CASE Qml!Next
  BY <1>2, SetMonitorPreserves, EmittedPreserves DEF Qml!Next
<1> QED BY <1>1, <1>2

LEMMA QmlTypes == QmlInv => Qml!TypeOK
  BY QmlAssumption DEF QmlInv, Qml!TypeOK
-----------------------------------------------------------------------------
(***************************************************************************)
(* The components together.                                                *)
(***************************************************************************)
SystemInv ==
  /\ active = "network" => NetInv
  /\ active = "battery" => BatInv
  /\ active = "upower" => UPowerInv
  /\ active = "input" => InpInv
  /\ active = "inputModel" => ModelInv
  /\ active = "device" => DevInv
  /\ active = "windowsNetwork" => WinNetInv
  /\ active = "windowsBattery" => WinBatInv
  /\ active = "declarative" => QmlInv
  /\ active = "simulated" => SimInv

LEMMA SystemInitInv == Init => SystemInv
  BY NetInitInv, BatInitInv, UPowerInitInv, InpInitInv, ModelInitInv, DevInitInv, WinNetInitInv,
    WinBatInitInv, QmlInitInv, SimInitInv DEF Init, SystemInv

LEMMA SystemPreserves == SystemInv /\ [Next]_vars => SystemInv'
<1> SUFFICES ASSUME SystemInv, [Next]_vars PROVE SystemInv'
  OBVIOUS
<1>1. CASE NetStep
  <2>1. active = "network" /\ active' = active /\ Net!Next /\ NetInv
    BY <1>1 DEF NetStep, SystemInv
  <2> QED BY <2>1, NetPreserves DEF SystemInv
<1>2. CASE BatStep
  <2>1. active = "battery" /\ active' = active /\ Bat!Next /\ BatInv
    BY <1>2 DEF BatStep, SystemInv
  <2> QED BY <2>1, BatPreserves DEF SystemInv
<1>3. CASE UPowerStep
  <2>1. active = "upower" /\ active' = active /\ UPower!Next /\ UPowerInv
    BY <1>3 DEF UPowerStep, SystemInv
  <2> QED BY <2>1, UPowerPreserves DEF SystemInv
<1>4. CASE InpStep
  <2>1. active = "input" /\ active' = active /\ Inp!Next /\ InpInv
    BY <1>4 DEF InpStep, SystemInv
  <2> QED BY <2>1, InpPreserves DEF SystemInv
<1>5. CASE ModelStep
  <2>1. active = "inputModel" /\ active' = active /\ Model!Next /\ ModelInv
    BY <1>5 DEF ModelStep, SystemInv
  <2> QED BY <2>1, ModelPreserves DEF SystemInv
<1>6. CASE DevStep
  <2>1. active = "device" /\ active' = active /\ Dev!Next /\ DevInv
    BY <1>6 DEF DevStep, SystemInv
  <2> QED BY <2>1, DevPreserves DEF SystemInv
<1>7. CASE WinNetStep
  <2>1. active = "windowsNetwork" /\ active' = active /\ WinNet!Next /\ WinNetInv
    BY <1>7 DEF WinNetStep, SystemInv
  <2> QED BY <2>1, WinNetPreserves DEF SystemInv
<1>8. CASE WinBatStep
  <2>1. active = "windowsBattery" /\ active' = active /\ WinBat!Next /\ WinBatInv
    BY <1>8 DEF WinBatStep, SystemInv
  <2> QED BY <2>1, WinBatPreserves DEF SystemInv
<1>9. CASE QmlStep
  <2>1. active = "declarative" /\ active' = active /\ Qml!Next /\ QmlInv
    BY <1>9 DEF QmlStep, SystemInv
  <2> QED BY <2>1, QmlPreserves DEF SystemInv
<1>10. CASE SimStep
  <2>1. active = "simulated" /\ active' = active /\ Sim!Next /\ SimInv
    BY <1>10 DEF SimStep, SystemInv
  <2> QED BY <2>1, SimPreserves DEF SystemInv
<1>11. CASE UNCHANGED vars
  <2>0. active' = active
    BY <1>11 DEF vars
  <2>1. active = "network" => NetInv'
    <3>1. UNCHANGED Net!vars
      BY <1>11 DEF vars, netVars, Net!vars, Net!ofonoVars, Net!world, Net!outside
    <3> QED BY <3>1, NetPreserves DEF SystemInv
  <2>2. active = "battery" => BatInv'
    <3>1. UNCHANGED Bat!vars
      BY <1>11 DEF vars, batVars, Bat!vars, Bat!world
    <3> QED BY <3>1, BatPreserves DEF SystemInv
  <2>3. active = "upower" => UPowerInv'
    <3>1. UNCHANGED UPower!vars
      BY <1>11 DEF vars, upVars, UPower!vars, UPower!daemon
    <3> QED BY <3>1, UPowerPreserves DEF SystemInv
  <2>4. active = "input" => InpInv'
    <3>1. UNCHANGED Inp!vars
      BY <1>11 DEF vars, inputVars, Inp!vars
    <3> QED BY <3>1, InpPreserves DEF SystemInv
  <2>5. active = "inputModel" => ModelInv'
    <3>1. UNCHANGED Model!vars
      BY <1>11 DEF vars, modelVars, Model!vars
    <3> QED BY <3>1, ModelPreserves DEF SystemInv
  <2>6. active = "device" => DevInv'
    <3>1. UNCHANGED Dev!vars
      BY <1>11 DEF vars, devVars, Dev!vars, Dev!world
    <3> QED BY <3>1, DevPreserves DEF SystemInv
  <2>7. active = "windowsNetwork" => WinNetInv'
    <3>1. UNCHANGED WinNet!vars
      BY <1>11 DEF vars, winNetVars, WinNet!vars, WinNet!told
    <3> QED BY <3>1, WinNetPreserves DEF SystemInv
  <2>8. active = "windowsBattery" => WinBatInv'
    <3>1. UNCHANGED WinBat!vars
      BY <1>11 DEF vars, winBatVars, WinBat!vars
    <3> QED BY <3>1, WinBatPreserves DEF SystemInv
  <2>9. active = "declarative" => QmlInv'
    <3>1. UNCHANGED Qml!vars
      BY <1>11 DEF vars, qmlVars, Qml!vars
    <3> QED BY <3>1, QmlPreserves DEF SystemInv
  <2>10. active = "simulated" => SimInv'
    <3>1. UNCHANGED Sim!vars
      BY <1>11 DEF vars, simVars, Sim!vars
    <3> QED BY <3>1, SimPreserves DEF SystemInv
  <2> QED BY <2>0, <2>1, <2>2, <2>3, <2>4, <2>5, <2>6, <2>7, <2>8, <2>9, <2>10 DEF SystemInv
<1> QED BY <1>1, <1>2, <1>3, <1>4, <1>5, <1>6, <1>7, <1>8, <1>9, <1>10, <1>11 DEF Next

LEMMA SystemInvariance == Spec => []SystemInv
  BY SystemInitInv, SystemPreserves, PTL DEF Spec

\* The variables of every component keep their types.
THEOREM SystemTypes == Spec => []TypesOK
<1>1. SystemInv => TypesOK
  BY UPowerInvTypes, InpInvTypes, QmlTypes DEF SystemInv, TypesOK, NetInv, BatInv, ModelInv,
     DevInv, WinNetInv, WinBatInv, SimInv
<1> QED BY SystemInvariance, <1>1, PTL

\* Whatever is connected and disconnected, what a connected signal needs is watched
\* or polled for.
THEOREM WatchesAreServed == Spec => []WatchesServed
<1>1. SystemInv => WatchesServed
  BY InvThermal DEF SystemInv, WatchesServed, NetInv, BatInv, WinNetInv
<1> QED BY SystemInvariance, <1>1, PTL

\* Whoever read a value and follows its signal has the value the next read would be
\* compared with.
THEOREM ReportsMatchReads == Spec => []ReadsMatchReports
<1>1. SystemInv => ReadsMatchReports
  BY BatInvReads, UPowerInvReads, InvThermal DEF SystemInv, ReadsMatchReports, NetInv,
     WinNetInv, WinBatInv, QmlInv, SimInv
<1> QED BY SystemInvariance, <1>1, PTL

\* Whatever comes and goes while it is listed, the lists kept of modems, of UPower's
\* battery and of input devices become those of what there is.
THEOREM DevicesAreFollowed == Spec => []DevicesFollowed
<1>1. SystemInv => DevicesFollowed
  BY InvListFollows, InvKnown, InvNoGhosts DEF SystemInv, DevicesFollowed, InpInv, ModelInv
<1> QED BY SystemInvariance, <1>1, PTL
=============================================================================
