-------------------------- MODULE UrlOutputProofs --------------------------
(***************************************************************************)
(* UrlOutput for any threads, URLs, reasons, descriptors and length of     *)
(* m_buf: m_fd is the list's, and the lines are as ListLineWhole and       *)
(* FailLineAlone say.  For the lines the inductive invariant follows a     *)
(* thread through what it prints: while it is undisturbed it is alone      *)
(* inside, so m_buf is the buffer its own sprintfs make of a blank one,    *)
(* and what it has printed so far did fit.                                 *)
(***************************************************************************)
EXTENDS UrlOutput, TLAPS, WellFoundedInduction

-----------------------------------------------------------------------------
(* Minima, and the lengths *)

LEMMA MinExists ==
    ASSUME NEW S \in SUBSET Nat, S # {}
    PROVE  /\ Min(S) \in S
           /\ \A y \in S : Min(S) <= y
<1> DEFINE R == {ss \in Nat \X Nat : ss[1] < ss[2]}
<1>1. IsWellFoundedOn(R, Nat)
  BY NatLessThanWellFounded DEF OpToRel
<1>2. PICK x \in S : \A y \in S : <<y, x>> \notin R
  <2> HIDE DEF R
  <2> QED  BY <1>1, WFMin
<1>3. \A y \in S : x <= y
  <2> TAKE y \in S
  <2>1. y \in Nat /\ x \in Nat
    OBVIOUS
  <2>2. y < x => <<y, x>> \in R
    BY <2>1
  <2>3. <<y, x>> \notin R
    BY <1>2
  <2> HIDE DEF R
  <2> QED  BY <2>1, <2>2, <2>3
<1>4. \E z \in S : \A y \in S : z <= y
  BY <1>3
<1> QED  BY <1>4 DEF Min

\* What the constants are, 0 for no URL and no reason included.
LEMMA Lengths ==
    /\ BufLen \in Nat /\ BufLen >= 1
    /\ \A u \in UrlLens \cup {0} : u \in Nat
    /\ \A r \in ReasonLens \cup {0} : r \in Nat
    /\ TimeLen \in Nat
BY UrlOutputAssumption

-----------------------------------------------------------------------------
(* Types, and where m_buf ends *)

\* What is assumed of the constants, in small parts.
LEMMA FdsTypes == Fds \in SUBSET Nat /\ Fds # {} /\ MaxSamsaras \in Nat
BY UrlOutputAssumption

\* The lowest free descriptor is one of the free ones.
LEMMA LowestFreeIsFree ==
    ASSUME \E f \in Fds : files[f] = None
    PROVE  LowestFree \in Fds /\ files[LowestFree] = None
<1> DEFINE S == {f \in Fds : files[f] = None}
<1>1. S \in SUBSET Nat /\ S # {}
  BY FdsTypes
<1>2. Min(S) \in S
  <2> HIDE DEF S
  <2> QED  BY <1>1, MinExists
<1> QED  BY <1>2 DEF LowestFree

\* strlen of a buffer that ends in a NUL stays inside it ...
LEMMA StrlenInside ==
    ASSUME NEW buf, buf[BufLen] = NUL
    PROVE  strlen(buf) \in 0 .. BufLen - 1
<1> DEFINE S == {i \in 1 .. BufLen : buf[i] = NUL}
<1>1. BufLen \in Nat /\ BufLen >= 1
  BY Lengths
<1>2. S \in SUBSET Nat /\ S # {}
  BY <1>1
<1>3. Min(S) \in 1 .. BufLen
  <2>1. Min(S) \in S
    <3> HIDE DEF S
    <3> QED  BY <1>2, MinExists
  <2> QED  BY <2>1
<1>4. strlen(buf) = Min(S) - 1
  BY DEF strlen
<1> HIDE DEF S
<1> QED  BY <1>1, <1>3, <1>4

\* ... and is the number of cells before the first NUL.
LEMMA StrlenIs ==
    ASSUME NEW buf, NEW n \in Nat, n < BufLen, buf[n + 1] = NUL,
           \A i \in 1 .. n : buf[i] # NUL
    PROVE  strlen(buf) = n
<1> DEFINE S == {i \in 1 .. BufLen : buf[i] = NUL}
<1>1. BufLen \in Nat /\ n + 1 \in S
  BY Lengths
<1>2. S \in SUBSET Nat /\ S # {}
  BY <1>1
<1>3. Min(S) \in S /\ Min(S) <= n + 1
  <2> HIDE DEF S
  <2> QED  BY <1>1, <1>2, MinExists
<1>4. Min(S) \in Nat /\ Min(S) >= 1 /\ buf[Min(S)] = NUL
  BY <1>1, <1>3
<1>5. strlen(buf) = Min(S) - 1
  BY DEF strlen
<1> HIDE DEF S
<1> QED  BY <1>3, <1>4, <1>5

\* The lists are opened no more often than they were closed.
RoundLeft == sel \in {"forget", "closed"} => round < MaxSamsaras

\* The last cell of m_buf is a NUL as long as everything fits.
BufferEnds == m_buf[BufLen] = NUL

Sound == TypeOK /\ RoundLeft /\ BufferEnds

Names == {"url", "time", "reason", "tab", "newline"}
Cell == Names \X Nat

\* A run of cells is a sequence of its length.
LEMMA CellsSeq ==
    ASSUME NEW name \in Names, NEW n \in Nat
    PROVE  /\ Cells(name, n) \in Seq(Cell) /\ Len(Cells(name, n)) = n
           /\ \A i \in 1 .. n : Cells(name, n)[i] = <<name, i>>
<1> DEFINE s == Cells(name, n)
<1>1. s \in [1 .. n -> Cell]
  BY DEF Cells, Cell
<1>2. \A i \in 1 .. n : s[i] = <<name, i>>
  BY DEF Cells
<1> HIDE DEF s
<1>3. s \in Seq(Cell) /\ Len(s) = n
  BY <1>1
<1> QED  BY <1>2, <1>3 DEF s

LEMMA TabAndNewline ==
    /\ <<Tab>> \in Seq(Cell) /\ Len(<<Tab>>) = 1 /\ <<Tab>>[1] = Tab
    /\ <<Newline>> \in Seq(Cell) /\ Len(<<Newline>>) = 1 /\ <<Newline>>[1] = Newline
<1>1. Tab \in Cell /\ Newline \in Cell
  BY DEF Tab, Newline, Cell, Names
<1> QED  BY <1>1

\* What is printed: the lengths and the cells.
LEMMA Joined ==
    ASSUME NEW s \in Seq(Cell), NEW t \in Seq(Cell)
    PROVE  /\ s \o t \in Seq(Cell) /\ Len(s \o t) = Len(s) + Len(t)
           /\ \A i \in 1 .. Len(s) : (s \o t)[i] = s[i]
           /\ \A i \in 1 .. Len(t) : (s \o t)[Len(s) + i] = t[i]
<1> QED  OBVIOUS

\* A run of cells, closed by one cell c.
LEMMA Run ==
    ASSUME NEW name \in Names, NEW n \in Nat, NEW c, <<c>> \in Seq(Cell)
    PROVE  /\ Cells(name, n) \o <<c>> \in Seq(Cell)
           /\ Len(Cells(name, n) \o <<c>>) = n + 1
           /\ \A i \in 1 .. n : (Cells(name, n) \o <<c>>)[i] = <<name, i>>
           /\ (Cells(name, n) \o <<c>>)[n + 1] = c
<1> DEFINE U == Cells(name, n)  T == <<c>>
<1>1. U \in Seq(Cell) /\ Len(U) = n /\ \A i \in 1 .. n : U[i] = <<name, i>>
  BY CellsSeq
<1>2. T \in Seq(Cell) /\ Len(T) = 1 /\ T[1] = c
  OBVIOUS
<1> HIDE DEF U, T
<1>3. /\ U \o T \in Seq(Cell) /\ Len(U \o T) = Len(U) + Len(T)
      /\ \A i \in 1 .. Len(U) : (U \o T)[i] = U[i]
      /\ \A i \in 1 .. Len(T) : (U \o T)[Len(U) + i] = T[i]
  BY <1>1, <1>2, Joined
<1>4. (U \o T)[n + 1] = c
  BY <1>1, <1>2, <1>3
<1>5. Len(U \o T) = n + 1 /\ \A i \in 1 .. n : (U \o T)[i] = <<name, i>>
  BY <1>1, <1>2, <1>3
<1> QED  BY <1>3, <1>4, <1>5 DEF U, T

\* A URL and its tab, the time and its tab, a reason and its end of line.
LEMMA UrlAndTab ==
    ASSUME NEW u \in Nat
    PROVE  LET s == Cells("url", u) \o <<Tab>>
           IN  /\ s \in Seq(Cell) /\ Len(s) = u + 1
               /\ \A i \in 1 .. u : s[i] = <<"url", i>>
               /\ s[u + 1] = Tab
<1>1. "url" \in Names
  BY DEF Names
<1>2. <<Tab>> \in Seq(Cell)
  BY TabAndNewline
<1> QED  BY <1>1, <1>2, Run

LEMMA TimeAndTab ==
    LET s == Time \o <<Tab>>
    IN  /\ s \in Seq(Cell) /\ Len(s) = TimeLen + 1
        /\ \A i \in 1 .. TimeLen : s[i] = <<"time", i>>
        /\ s[TimeLen + 1] = Tab
<1>1. "time" \in Names
  BY DEF Names
<1>2. <<Tab>> \in Seq(Cell)
  BY TabAndNewline
<1>3. TimeLen \in Nat
  BY Lengths
<1> QED  BY <1>1, <1>2, <1>3, Run DEF Time

LEMMA ReasonAndNewline ==
    ASSUME NEW r \in Nat
    PROVE  LET s == Cells("reason", r) \o <<Newline>>
           IN  /\ s \in Seq(Cell) /\ Len(s) = r + 1
               /\ \A i \in 1 .. r : s[i] = <<"reason", i>>
               /\ s[r + 1] = Newline
<1>1. "reason" \in Names
  BY DEF Names
<1>2. <<Newline>> \in Seq(Cell)
  BY TabAndNewline
<1> QED  BY <1>1, <1>2, Run

LEMMA UrlAndTime ==
    ASSUME NEW u \in Nat
    PROVE  LET s == Cells("url", u) \o <<Tab>> \o Time
           IN  /\ s \in Seq(Cell) /\ Len(s) = u + TimeLen + 1
               /\ \A i \in 1 .. u : s[i] = <<"url", i>>
               /\ s[u + 1] = Tab
               /\ \A i \in 1 .. TimeLen : s[u + 1 + i] = <<"time", i>>
<1>0. TimeLen \in Nat /\ "url" \in Names /\ "time" \in Names
  BY Lengths DEF Names
<1> DEFINE U == Cells("url", u) \o <<Tab>>
<1>1. /\ U \in Seq(Cell) /\ Len(U) = u + 1
      /\ \A i \in 1 .. u : U[i] = <<"url", i>>
      /\ U[u + 1] = Tab
  BY UrlAndTab
<1>2. /\ Time \in Seq(Cell) /\ Len(Time) = TimeLen
      /\ \A i \in 1 .. TimeLen : Time[i] = <<"time", i>>
  BY <1>0, CellsSeq DEF Time
<1> DEFINE V == U \o Time
<1> HIDE DEF U
<1>3. /\ V \in Seq(Cell) /\ Len(V) = Len(U) + Len(Time)
      /\ \A i \in 1 .. Len(U) : V[i] = U[i]
      /\ \A i \in 1 .. Len(Time) : V[Len(U) + i] = Time[i]
  BY <1>1, <1>2, Joined
<1> HIDE DEF V
<1>4. /\ V \in Seq(Cell) /\ Len(V) = u + TimeLen + 1
      /\ \A i \in 1 .. u : V[i] = <<"url", i>>
      /\ V[u + 1] = Tab
      /\ \A i \in 1 .. TimeLen : V[u + 1 + i] = <<"time", i>>
  BY <1>0, <1>1, <1>2, <1>3
<1> QED  BY <1>4 DEF V, U

LEMMA ListLine ==
    ASSUME NEW u \in Nat
    PROVE  LET s == Cells("url", u) \o <<Tab>> \o Time \o <<Newline>>
           IN  /\ s \in Seq(Cell) /\ Len(s) = u + TimeLen + 2
               /\ \A i \in 1 .. u : s[i] = <<"url", i>>
               /\ s[u + 1] = Tab
               /\ \A i \in 1 .. TimeLen : s[u + 1 + i] = <<"time", i>>
               /\ s[u + TimeLen + 2] = Newline
<1>0. TimeLen \in Nat
  BY Lengths
<1> DEFINE V == Cells("url", u) \o <<Tab>> \o Time
           N == <<Newline>>
<1>1. /\ V \in Seq(Cell) /\ Len(V) = u + TimeLen + 1
      /\ \A i \in 1 .. u : V[i] = <<"url", i>>
      /\ V[u + 1] = Tab
      /\ \A i \in 1 .. TimeLen : V[u + 1 + i] = <<"time", i>>
  BY UrlAndTime
<1>2. N \in Seq(Cell) /\ Len(N) = 1 /\ N[1] = Newline
  BY TabAndNewline
<1> HIDE DEF V, N
<1>3. /\ V \o N \in Seq(Cell) /\ Len(V \o N) = Len(V) + Len(N)
      /\ \A i \in 1 .. Len(V) : (V \o N)[i] = V[i]
      /\ \A i \in 1 .. Len(N) : (V \o N)[Len(V) + i] = N[i]
  BY <1>1, <1>2, Joined
<1>4. Len(V \o N) = u + TimeLen + 2
  BY <1>0, <1>1, <1>2, <1>3
<1>5. \A i \in 1 .. u : (V \o N)[i] = <<"url", i>>
  BY <1>0, <1>1, <1>3
<1>6. (V \o N)[u + 1] = Tab
  BY <1>0, <1>1, <1>3
<1>7. \A i \in 1 .. TimeLen : (V \o N)[u + 1 + i] = <<"time", i>>
  BY <1>0, <1>1, <1>3
<1>8. (V \o N)[u + TimeLen + 2] = Newline
  BY <1>0, <1>1, <1>2, <1>3
<1> QED  BY <1>3, <1>4, <1>5, <1>6, <1>7, <1>8 DEF V, N

\* No cell that is printed is a NUL.
LEMMA NoNuls ==
    /\ \A name \in Names, i \in Nat : <<name, i>> # NUL
    /\ Tab # NUL /\ Newline # NUL /\ Tab # Newline
BY DEF Names, NUL, Tab, Newline


LEMMA InitSound == Init => Sound
<1> SUFFICES ASSUME Init PROVE Sound
  OBVIOUS
<1>1. BufLen \in Nat /\ BufLen >= 1
  BY Lengths
<1>2. Min(Fds) \in Fds
  BY FdsTypes, MinExists
<1>3. m_buf = Blank
  BY DEF Init
<1>4. m_buf = [i \in 1 .. BufLen |-> m_buf[i]] /\ BufferEnds
  BY <1>1, <1>3 DEF Blank, BufferEnds
<1>5. files \in [Fds -> (0 .. MaxSamsaras) \cup {Other, None}]
  BY FdsTypes DEF Init
<1>6. arg \in [Threads -> (Fds \cup {-1}) \X (0 .. BufLen - 1)]
  BY <1>1 DEF Init
<1>7. RoundLeft
  BY DEF Init, RoundLeft
<1>8. wild \in BOOLEAN /\ undisturbed \in [Threads -> BOOLEAN]
  BY DEF Init
<1>9. /\ kind \in {"list", "fail"} /\ m_fd \in Fds \cup {-1}
      /\ m_mutex \in Threads \cup {Free, Destroyed}
      /\ round \in 0 .. MaxSamsaras
      /\ sel \in {"open", "forget", "closed", "init"}
  BY <1>2, FdsTypes DEF Init
<1>10. /\ pc \in [Threads -> {"out", "format", "url", "time", "reason", "lock", "args",
                              "write"}]
       /\ url \in [Threads -> UrlLens \cup {0}]
       /\ reason \in [Threads -> ReasonLens \cup {0}]
  BY DEF Init
<1> QED  BY <1>4, <1>5, <1>6, <1>7, <1>8, <1>9, <1>10 DEF Sound, TypeOK

\* What is printed into m_buf leaves the NUL at its end.
LEMMA SprintfEnds ==
    ASSUME BufferEnds, NEW offset \in Nat, NEW s, Len(s) \in Nat, offset + Len(s) < BufLen
    PROVE  /\ sprintf(offset, s) = [i \in 1 .. BufLen |-> sprintf(offset, s)[i]]
           /\ sprintf(offset, s)[BufLen] = NUL
<1>1. BufLen \in Nat /\ BufLen >= 1
  BY Lengths
<1>2. BufLen \in 1 .. BufLen /\ ~(BufLen \in offset + 1 .. offset + Len(s))
  BY <1>1
<1> QED  BY <1>2 DEF sprintf, BufferEnds

LEMMA NextSound == Sound /\ [Next]_vars => Sound'
<1> SUFFICES ASSUME Sound, [Next]_vars PROVE Sound'
  OBVIOUS
<1> USE DEF Sound
<1>0. BufLen \in Nat /\ BufLen >= 1 /\ TimeLen \in Nat
  BY Lengths
<1>1. ASSUME NEW t \in Threads, CrawlStep(t)
      PROVE  Sound'
  <2>1. CASE append(t)
    BY <2>1 DEF append, Step, Lock, fdVars, TypeOK, RoundLeft, BufferEnds
  <2>2. CASE FormatLine(t)
    <3>0. PICK u \in UrlLens \cup {0} : u = url[t]
      BY DEF TypeOK
    <3> DEFINE s == Cells("url", u) \o <<Tab>> \o Time \o <<Newline>>
    <3>1. Len(s) = u + TimeLen + 2 /\ u \in Nat
      BY ListLine, Lengths
    <3>2. /\ m_buf' = [i \in 1 .. BufLen |-> IF i <= Len(s) THEN s[i] ELSE NUL]
          /\ 0 + Len(s) < BufLen
      BY <2>2, <3>0 DEF FormatLine, Url, ListText, Fits
    <3> HIDE DEF s
    <3>3. m_buf' = [i \in 1 .. BufLen |-> m_buf'[i]] /\ m_buf'[BufLen] = NUL
      BY <1>0, <3>1, <3>2
    <3> QED  BY <2>2, <3>3 DEF FormatLine, Step, fdVars, callVars,
                     TypeOK, RoundLeft, BufferEnds
  <2>3. CASE append_error(t)
    <3>1. m_buf' = [i \in 1 .. BufLen |-> m_buf'[i]] /\ m_buf'[BufLen] = NUL
      BY <2>3, <1>0 DEF append_error, Blank
    <3> QED  BY <2>3, <3>1 DEF append_error, Step, fdVars, TypeOK, RoundLeft, BufferEnds
  <2>4. CASE FormatUrl(t)
    <3>0. PICK u \in UrlLens \cup {0} : u = url[t]
      BY DEF TypeOK
    <3> DEFINE s == Cells("url", u) \o <<Tab>>
    <3>1. Len(s) = u + 1 /\ u \in Nat
      BY UrlAndTab, Lengths
    <3>2. m_buf' = sprintf(0, s) /\ 0 + Len(s) < BufLen
      BY <2>4, <3>0 DEF FormatUrl, Url, UrlText, Fits
    <3> HIDE DEF s
    <3>3. 0 \in Nat /\ Len(s) \in Nat /\ 0 + Len(s) < BufLen
      BY <1>0, <3>1, <3>2
    <3>4. m_buf' = [i \in 1 .. BufLen |-> m_buf'[i]] /\ m_buf'[BufLen] = NUL
      BY <3>2, <3>3, SprintfEnds
    <3> QED  BY <2>4, <3>4 DEF FormatUrl, Step, fdVars, callVars,
                     TypeOK, RoundLeft, BufferEnds
  <2>5. CASE FormatTime(t)
    <3>0. PICK u \in UrlLens \cup {0} : u = url[t]
      BY DEF TypeOK
    <3> DEFINE s == Time \o <<Tab>>
    <3>1. Len(s) = TimeLen + 1 /\ u \in Nat
      BY TimeAndTab, Lengths
    <3>2. m_buf' = sprintf(u + 1, s) /\ u + 1 + Len(s) < BufLen
      BY <2>5, <3>0 DEF FormatTime, TimeText, Fits
    <3> HIDE DEF s
    <3>3. u + 1 \in Nat /\ Len(s) \in Nat /\ u + 1 + Len(s) < BufLen
      BY <1>0, <3>1, <3>2
    <3>4. m_buf' = [i \in 1 .. BufLen |-> m_buf'[i]] /\ m_buf'[BufLen] = NUL
      BY <3>2, <3>3, SprintfEnds
    <3> QED  BY <2>5, <3>4 DEF FormatTime, Step, fdVars, callVars,
                     TypeOK, RoundLeft, BufferEnds
  <2>6. CASE FormatReason(t)
    <3>0. PICK u \in UrlLens \cup {0} : u = url[t]
      BY DEF TypeOK
    <3>00. PICK r \in ReasonLens \cup {0} : r = reason[t]
      BY DEF TypeOK
    <3> DEFINE s == Cells("reason", r) \o <<Newline>>
    <3>1. Len(s) = r + 1 /\ u \in Nat /\ r \in Nat
      BY ReasonAndNewline, Lengths
    <3>2. m_buf' = sprintf(u + 1 + r + 1, s) /\ u + 1 + r + 1 + Len(s) < BufLen
      BY <2>6, <3>0, <3>00 DEF FormatReason, Reason, ReasonText, ReasonOffset, Fits
    <3> HIDE DEF s
    <3>3. u + 1 + r + 1 \in Nat /\ Len(s) \in Nat /\ u + 1 + r + 1 + Len(s) < BufLen
      BY <1>0, <3>1, <3>2
    <3>4. m_buf' = [i \in 1 .. BufLen |-> m_buf'[i]] /\ m_buf'[BufLen] = NUL
      BY <3>2, <3>3, SprintfEnds
    <3> QED  BY <2>6, <3>4 DEF FormatReason, Step, fdVars, callVars,
                     TypeOK, RoundLeft, BufferEnds
  <2>7. CASE LockLate(t)
    BY <2>7 DEF LockLate, Step, Lock, fdVars, callVars, TypeOK, RoundLeft, BufferEnds
  <2>8. CASE Arguments(t)
    <3>1. strlen(m_buf) \in 0 .. BufLen - 1
      BY StrlenInside DEF BufferEnds
    <3>2. arg' \in [Threads -> (Fds \cup {-1}) \X (0 .. BufLen - 1)]
      BY <2>8, <3>1 DEF Arguments, TypeOK
    <3> QED  BY <2>8, <3>2 DEF Arguments, Step, fdVars, TypeOK, RoundLeft, BufferEnds
  <2>9. CASE Write(t)
    <3>2. arg' \in [Threads -> (Fds \cup {-1}) \X (0 .. BufLen - 1)]
      BY <2>9, <1>0 DEF Write, TypeOK
    <3> QED  BY <2>9, <3>2 DEF Write, Step, Unlock, fdVars, TypeOK, RoundLeft, BufferEnds
  <2>10. CASE Overrun(t)
    BY <2>10 DEF Overrun, fdVars, callVars, TypeOK, RoundLeft, BufferEnds
  <2> QED  BY <1>1, <2>1, <2>2, <2>3, <2>4, <2>5, <2>6, <2>7, <2>8, <2>9, <2>10 DEF CrawlStep
<1>2. CASE Close
  <2>1. files' \in [Fds -> (0 .. MaxSamsaras) \cup {Other, None}]
    BY <1>2 DEF Close, TypeOK
  <2> QED  BY <1>2, <2>1 DEF Close, callVars, TypeOK, RoundLeft, BufferEnds
<1>3. CASE Forget
  BY <1>3 DEF Forget, fdVars, callVars, TypeOK, RoundLeft, BufferEnds
<1>4. CASE Open
  <2>1. round < MaxSamsaras
    BY <1>4 DEF Open, RoundLeft
  <2>2. round' = round + 1 /\ round' \in 0 .. MaxSamsaras
    BY <1>4, <2>1, FdsTypes DEF Open, TypeOK
  <2>3. /\ files' \in [Fds -> (0 .. MaxSamsaras) \cup {Other, None}]
        /\ m_fd' \in Fds \cup {-1}
        /\ sel' \in {"init", "open"}
    <3>1. files \in [Fds -> (0 .. MaxSamsaras) \cup {Other, None}]
      BY DEF TypeOK
    <3>2. CASE m_fd' = -1 /\ UNCHANGED files /\ sel' = "open"
      BY <3>1, <3>2
    <3>3. CASE /\ \E f \in Fds : files[f] = None
               /\ m_fd' = LowestFree
               /\ files' = [files EXCEPT ![LowestFree] = round + 1]
               /\ sel' = "init"
      BY <2>2, <3>1, <3>3, LowestFreeIsFree
    <3> QED  BY <1>4, <3>2, <3>3 DEF Open
  <2> QED  BY <1>4, <2>2, <2>3 DEF Open, callVars, TypeOK, RoundLeft, BufferEnds
<1>5. CASE InitMutex
  BY <1>5 DEF InitMutex, fdVars, callVars, TypeOK, RoundLeft, BufferEnds
<1>6. CASE OtherOpen
  <2>1. files' \in [Fds -> (0 .. MaxSamsaras) \cup {Other, None}]
    BY <1>6, LowestFreeIsFree DEF OtherOpen, TypeOK
  <2> QED  BY <1>6, <2>1 DEF OtherOpen, callVars, TypeOK, RoundLeft, BufferEnds
<1>7. CASE OtherClose
  BY <1>7 DEF OtherClose, fdVars, callVars, TypeOK, RoundLeft, BufferEnds
<1>8. CASE UNCHANGED vars
  BY <1>8 DEF vars, TypeOK, RoundLeft, BufferEnds
<1> QED  BY <1>1, <1>2, <1>3, <1>4, <1>5, <1>6, <1>7, <1>8 DEF Next

(* The type invariant of the output, for any threads, URLs, reasons and     *)
(* descriptors.                                                             *)
THEOREM UrlOutputType == Spec => []TypeOK
<1>1. Sound => TypeOK
  BY DEF Sound
<1> QED  BY InitSound, NextSound, <1>1, PTL DEF Spec


-----------------------------------------------------------------------------
(* The descriptor *)

LEMMA NextFd == Sound /\ FdIsTheLists /\ [Next]_vars => FdIsTheLists'
<1> SUFFICES ASSUME Sound, FdIsTheLists, [Next]_vars PROVE FdIsTheLists'
  OBVIOUS
<1>0. TypeOK /\ round \in Nat
  BY FdsTypes DEF Sound, TypeOK
<1>1. ASSUME NEW t \in Threads, CrawlStep(t)
      PROVE  FdIsTheLists'
  <2>1. CASE append(t)
    BY <2>1 DEF append, fdVars, FdIsTheLists
  <2>2. CASE FormatLine(t)
    BY <2>2 DEF FormatLine, fdVars, FdIsTheLists
  <2>3. CASE append_error(t)
    BY <2>3 DEF append_error, fdVars, FdIsTheLists
  <2>4. CASE FormatUrl(t)
    BY <2>4 DEF FormatUrl, fdVars, FdIsTheLists
  <2>5. CASE FormatTime(t)
    BY <2>5 DEF FormatTime, fdVars, FdIsTheLists
  <2>6. CASE FormatReason(t)
    BY <2>6 DEF FormatReason, fdVars, FdIsTheLists
  <2>7. CASE LockLate(t)
    BY <2>7 DEF LockLate, fdVars, FdIsTheLists
  <2>8. CASE Arguments(t)
    BY <2>8 DEF Arguments, fdVars, FdIsTheLists
  <2>9. CASE Write(t)
    BY <2>9 DEF Write, fdVars, FdIsTheLists
  <2>10. CASE Overrun(t)
    BY <2>10 DEF Overrun, fdVars, FdIsTheLists
  <2> QED  BY <1>1, <2>1, <2>2, <2>3, <2>4, <2>5, <2>6, <2>7, <2>8, <2>9, <2>10 DEF CrawlStep
<1>2. CASE Close
  BY <1>2 DEF Close, FdIsTheLists
<1>3. CASE Forget
  BY <1>3 DEF Forget, FdIsTheLists
<1>4. CASE Open
  <2>1. CASE m_fd' = -1
    BY <2>1 DEF FdIsTheLists
  <2>2. CASE /\ \E f \in Fds : files[f] = None
             /\ m_fd' = LowestFree
             /\ files' = [files EXCEPT ![LowestFree] = round + 1]
    <3>1. LowestFree \in Fds
      BY <2>2, LowestFreeIsFree
    <3>2. files'[m_fd'] = round'
      BY <1>4, <1>0, <2>2, <3>1 DEF Open, TypeOK
    <3> QED  BY <3>2 DEF FdIsTheLists
  <2> QED  BY <1>4, <2>1, <2>2 DEF Open
<1>5. CASE InitMutex
  BY <1>5 DEF InitMutex, fdVars, FdIsTheLists
<1>6. CASE OtherOpen
  <2>1. LowestFree \in Fds /\ files[LowestFree] = None
    BY <1>6, LowestFreeIsFree DEF OtherOpen
  <2>2. \A f \in Fds : files[f] = round => files'[f] = round
    BY <1>6, <1>0, <2>1 DEF OtherOpen, TypeOK, None
  <2> QED  BY <1>6, <1>0, <2>2 DEF OtherOpen, TypeOK, FdIsTheLists
<1>7. CASE OtherClose
  <2>1. \A f \in Fds : files[f] = round => files'[f] = round
    BY <1>7, <1>0 DEF OtherClose, TypeOK, Other, None
  <2> QED  BY <1>7, <1>0, <2>1 DEF OtherClose, TypeOK, FdIsTheLists
<1>8. CASE UNCHANGED vars
  BY <1>8 DEF vars, FdIsTheLists
<1> QED  BY <1>1, <1>2, <1>3, <1>4, <1>5, <1>6, <1>7, <1>8 DEF Next

(* m_fd names the list of the round or nothing, except between destroy's    *)
(* close and its reset of m_fd: no file that was opened elsewhere under the *)
(* number of the closed list gets a line at any other time.                 *)
THEOREM UrlOutputFd == Spec => []FdIsTheLists
<1>1. Init => FdIsTheLists
  <2>1. Min(Fds) \in Fds
    BY FdsTypes, MinExists
  <2> QED  BY <2>1 DEF Init, FdIsTheLists
<1> QED  BY InitSound, NextSound, NextFd, <1>1, PTL DEF Spec

-----------------------------------------------------------------------------
(* Who is alone *)

\* An undisturbed thread is the only one inside, while the output is open; in
\* append it has the mutex.
Alone ==
    /\ \A t \in Threads :
          undisturbed[t] => /\ sel = "open"
                            /\ pc[t] # "out"
                            /\ \A s \in Threads : pc[s] # "out" => s = t
                            /\ kind = "list" => m_mutex = t
    /\ kind = "fail" => \A t \in Threads : pc[t] # "format"

LEMMA NextAlone == Sound /\ Alone /\ [Next]_vars => Alone'
<1> SUFFICES ASSUME Sound, Alone, [Next]_vars PROVE Alone'
  OBVIOUS
<1> USE ThreadsAssumption DEF Free, Destroyed
<1>0. TypeOK
  BY DEF Sound
<1>1. ASSUME NEW t \in Threads, CrawlStep(t)
      PROVE  Alone'
  <2>1. CASE append(t)
    <3>1. CASE m_mutex = Free
      <4>1. ASSUME NEW s \in Threads, undisturbed[s]
            PROVE  FALSE
        BY <2>1, <3>1, <4>1 DEF append, Alone
      <4>2. ASSUME undisturbed'[t]
            PROVE  sel = "open" /\ \A s \in Threads : pc[s] = "out"
        <5>1. sel = "open" /\ \A s \in Inside : undisturbed[s]
          BY <2>1, <1>0, <3>1, <4>2 DEF append, TypeOK
        <5> QED  BY <4>1, <5>1 DEF Inside
      <4>3. \A s \in Threads : undisturbed'[s] => s = t
        BY <2>1, <1>0, <3>1, <4>1 DEF append, TypeOK
      <4>4. \A s \in Threads : pc'[s] = IF s = t THEN "format" ELSE pc[s]
        BY <2>1, <1>0 DEF append, Step, TypeOK
      <4>5. m_mutex' = t /\ UNCHANGED <<kind, sel>> /\ kind = "list"
        BY <2>1, <3>1 DEF append, Lock
      <4> QED  BY <4>2, <4>3, <4>4, <4>5 DEF Alone
    <3>2. CASE m_mutex # Free
      <4>1. \A s \in Threads : ~undisturbed'[s]
        BY <2>1, <3>2 DEF append
      <4>2. UNCHANGED kind /\ kind = "list"
        BY <2>1 DEF append
      <4> QED  BY <4>1, <4>2 DEF Alone
    <3> QED  BY <3>1, <3>2
  <2>2. CASE FormatLine(t)
    BY <2>2, <1>0 DEF FormatLine, Step, TypeOK, Alone
  <2>3. CASE append_error(t)
    <3>1. \A s \in Threads : undisturbed'[s] => s = t /\ sel = "open" /\ Inside = {}
      BY <2>3 DEF append_error
    <3>2. \A s \in Threads : pc'[s] = IF s = t THEN "url" ELSE pc[s]
      BY <2>3, <1>0 DEF append_error, Step, TypeOK
    <3>3. UNCHANGED <<kind, sel>> /\ kind = "fail"
      BY <2>3 DEF append_error
    <3> QED  BY <3>1, <3>2, <3>3 DEF Alone, Inside
  <2>4. CASE FormatUrl(t)
    BY <2>4, <1>0 DEF FormatUrl, Step, TypeOK, Alone
  <2>5. CASE FormatTime(t)
    BY <2>5, <1>0 DEF FormatTime, Step, TypeOK, Alone
  <2>6. CASE FormatReason(t)
    BY <2>6, <1>0 DEF FormatReason, Step, TypeOK, Alone
  <2>7. CASE LockLate(t)
    BY <2>7, <1>0 DEF LockLate, Lock, Step, TypeOK, Alone
  <2>8. CASE Arguments(t)
    BY <2>8, <1>0 DEF Arguments, Step, TypeOK, Alone
  <2>9. CASE Write(t)
    <3>1. \A s \in Threads : undisturbed'[s] => undisturbed[s] /\ s # t
      BY <2>9, <1>0 DEF Write, TypeOK
    <3>2. pc[t] # "out"
      BY <2>9 DEF Write, Step
    <3>3. \A s \in Threads : ~undisturbed'[s]
      BY <3>1, <3>2 DEF Alone
    <3>4. \A s \in Threads : pc'[s] = IF s = t THEN "out" ELSE pc[s]
      BY <2>9, <1>0 DEF Write, Step, TypeOK
    <3> QED  BY <2>9, <3>3, <3>4 DEF Write, Alone
  <2>10. CASE Overrun(t)
    BY <2>10 DEF Overrun, Alone
  <2> QED  BY <1>1, <2>1, <2>2, <2>3, <2>4, <2>5, <2>6, <2>7, <2>8, <2>9, <2>10 DEF CrawlStep
<1>2. CASE Close
  BY <1>2 DEF Close, Alone
<1>3. CASE Forget
  <2>1. \A t \in Threads : ~undisturbed[t]
    BY <1>3 DEF Forget, Alone
  <2> QED  BY <1>3, <2>1 DEF Forget, Alone
<1>4. CASE Open
  BY <1>4 DEF Open, Alone
<1>5. CASE InitMutex
  BY <1>5 DEF InitMutex, Alone
<1>6. CASE OtherOpen
  BY <1>6 DEF OtherOpen, Alone
<1>7. CASE OtherClose
  BY <1>7 DEF OtherClose, Alone
<1>8. CASE UNCHANGED vars
  BY <1>8 DEF vars, Alone
<1> QED  BY <1>1, <1>2, <1>3, <1>4, <1>5, <1>6, <1>7, <1>8 DEF Next


-----------------------------------------------------------------------------
(* What a thread that is alone prints *)

\* m_buf after append's sprintf ...
ListBuf(u) ==
    [i \in 1 .. BufLen |->
        LET s == Cells("url", u) \o <<Tab>> \o Time \o <<Newline>>
        IN  IF i <= Len(s) THEN s[i] ELSE NUL]

\* ... and after each one of append_error: the reason lies over the time.
UrlCell(u, i) == IF i <= u THEN <<"url", i>> ELSE Tab
TimeCell(u, i) == IF i <= u + 1 + TimeLen THEN <<"time", i - (u + 1)>> ELSE Tab
ReasonCell(u, r, i) ==
    IF i <= u + r + 2 + r THEN <<"reason", i - (u + r + 2)>>
    ELSE IF i = u + r + 2 + r + 1 THEN Newline ELSE NUL

UrlBuf(u) == [i \in 1 .. BufLen |-> IF i <= u + 1 THEN UrlCell(u, i) ELSE NUL]

TimeBuf(u) ==
    [i \in 1 .. BufLen |-> IF i <= u + 1 THEN UrlCell(u, i)
                           ELSE IF i <= u + TimeLen + 2 THEN TimeCell(u, i) ELSE NUL]

ReasonBuf(u, r) ==
    [i \in 1 .. BufLen |->
        IF u + r + 2 < i /\ i <= u + r + r + 4 THEN ReasonCell(u, r, i) ELSE TimeBuf(u)[i]]

\* How far strlen comes in it.
FailLen(u, r) == IF r <= TimeLen THEN u + r + r + 3 ELSE u + TimeLen + 2

LEMMA PrintUrl ==
    ASSUME m_buf = Blank, NEW u \in Nat
    PROVE  sprintf(0, Cells("url", u) \o <<Tab>>) = UrlBuf(u)
<1> DEFINE s == Cells("url", u) \o <<Tab>>
<1>1. Len(s) = u + 1 /\ (\A i \in 1 .. u : s[i] = <<"url", i>>) /\ s[u + 1] = Tab
  BY UrlAndTab
<1> HIDE DEF s
<1>2. BufLen \in Nat
  BY Lengths
<1>3. ASSUME NEW i \in 1 .. BufLen
      PROVE  sprintf(0, s)[i] = UrlBuf(u)[i]
  BY <1>1, <1>2 DEF sprintf, UrlBuf, UrlCell, Blank
<1>4. sprintf(0, s) = [i \in 1 .. BufLen |-> sprintf(0, s)[i]]
  BY DEF sprintf
<1> QED  BY <1>3, <1>4 DEF UrlBuf, s

LEMMA PrintTime ==
    ASSUME NEW u \in Nat, m_buf = UrlBuf(u)
    PROVE  sprintf(u + 1, Time \o <<Tab>>) = TimeBuf(u)
<1> DEFINE s == Time \o <<Tab>>
<1>0. TimeLen \in Nat /\ BufLen \in Nat
  BY Lengths
<1>1. /\ Len(s) = TimeLen + 1
      /\ (\A i \in 1 .. TimeLen : s[i] = <<"time", i>>) /\ s[TimeLen + 1] = Tab
  BY TimeAndTab
<1> HIDE DEF s
<1>3. ASSUME NEW i \in 1 .. BufLen
      PROVE  sprintf(u + 1, s)[i] = TimeBuf(u)[i]
  <2>1. CASE i <= u + 1
    BY <2>1, <1>0, <1>1 DEF sprintf, UrlBuf, TimeBuf
  <2>2. CASE u + 1 < i /\ i <= u + 1 + TimeLen
    <3>1. i - (u + 1) \in 1 .. TimeLen
      BY <1>0, <2>2
    <3>2. sprintf(u + 1, s)[i] = s[i - (u + 1)]
      BY <2>2, <1>0, <1>1 DEF sprintf
    <3>3. TimeBuf(u)[i] = <<"time", i - (u + 1)>>
      BY <2>2, <1>0 DEF TimeBuf, TimeCell
    <3> QED  BY <1>1, <3>1, <3>2, <3>3
  <2>3. CASE i = u + 1 + TimeLen + 1
    <3>1. i - (u + 1) = TimeLen + 1
      BY <1>0, <2>3
    <3> QED  BY <2>3, <3>1, <1>0, <1>1 DEF sprintf, TimeBuf, TimeCell
  <2>4. CASE i > u + 1 + TimeLen + 1
    BY <2>4, <1>0, <1>1 DEF sprintf, UrlBuf, TimeBuf
  <2> QED  BY <1>0, <2>1, <2>2, <2>3, <2>4
<1>4. sprintf(u + 1, s) = [i \in 1 .. BufLen |-> sprintf(u + 1, s)[i]]
  BY DEF sprintf
<1> QED  BY <1>3, <1>4 DEF TimeBuf, s

LEMMA PrintReason ==
    ASSUME NEW u \in Nat, NEW r \in Nat, m_buf = TimeBuf(u)
    PROVE  sprintf(u + 1 + r + 1, Cells("reason", r) \o <<Newline>>) = ReasonBuf(u, r)
<1> DEFINE s == Cells("reason", r) \o <<Newline>>
           o == u + 1 + r + 1
<1>0. BufLen \in Nat
  BY Lengths
<1>1. Len(s) = r + 1 /\ (\A i \in 1 .. r : s[i] = <<"reason", i>>) /\ s[r + 1] = Newline
  BY ReasonAndNewline
<1>2. o = u + r + 2
  OBVIOUS
<1> HIDE DEF s, o
<1>3. ASSUME NEW i \in 1 .. BufLen
      PROVE  sprintf(o, s)[i] = ReasonBuf(u, r)[i]
  <2>1. CASE i <= o \/ i > o + r + 2
    BY <2>1, <1>0, <1>1, <1>2 DEF sprintf, ReasonBuf
  <2>2. CASE o < i /\ i <= o + r
    <3>1. i - o \in 1 .. r
      BY <1>2, <2>2
    <3>2. sprintf(o, s)[i] = s[i - o]
      BY <2>2, <1>0, <1>1, <1>2 DEF sprintf
    <3>3. ReasonBuf(u, r)[i] = <<"reason", i - o>>
      BY <2>2, <1>0, <1>2 DEF ReasonBuf, ReasonCell
    <3> QED  BY <1>1, <3>1, <3>2, <3>3
  <2>3. CASE i = o + r + 1
    <3>1. i - o = r + 1
      BY <1>2, <2>3
    <3> QED  BY <2>3, <3>1, <1>0, <1>1, <1>2 DEF sprintf, ReasonBuf, ReasonCell
  <2>4. CASE i = o + r + 2
    BY <2>4, <1>0, <1>1, <1>2 DEF sprintf, ReasonBuf, ReasonCell
  <2> QED  BY <1>0, <1>2, <2>1, <2>2, <2>3, <2>4
<1>4. sprintf(o, s) = [i \in 1 .. BufLen |-> sprintf(o, s)[i]]
  BY DEF sprintf
<1> QED  BY <1>3, <1>4 DEF ReasonBuf, s, o


LEMMA ListLen ==
    ASSUME NEW u \in Nat, u + TimeLen + 3 <= BufLen
    PROVE  strlen(ListBuf(u)) = u + TimeLen + 2
<1> DEFINE s == Cells("url", u) \o <<Tab>> \o Time \o <<Newline>>
           n == u + TimeLen + 2
<1>0. TimeLen \in Nat /\ BufLen \in Nat /\ n \in Nat /\ n < BufLen
  BY Lengths
<1>1. /\ Len(s) = n
      /\ \A i \in 1 .. u : s[i] = <<"url", i>>
      /\ s[u + 1] = Tab
      /\ \A i \in 1 .. TimeLen : s[u + 1 + i] = <<"time", i>>
      /\ s[n] = Newline
  BY ListLine
<1>2. ListBuf(u) = [i \in 1 .. BufLen |-> IF i <= Len(s) THEN s[i] ELSE NUL]
  BY DEF ListBuf
<1> HIDE DEF s
<1>3. ASSUME NEW i \in 1 .. n
      PROVE  s[i] # NUL
  <2>1. CASE i <= u
    <3>1. "url" \in Names /\ i \in Nat
      BY <1>0 DEF Names
    <3>2. i \in 1 .. u
      BY <1>0, <2>1
    <3>3. s[i] = <<"url", i>>
      BY <1>1, <3>2
    <3> QED  BY <3>1, <3>3, NoNuls
  <2>2. CASE i = u + 1
    BY <1>1, <2>2, NoNuls
  <2>3. CASE u + 1 < i /\ i < n
    <3>1. i - (u + 1) \in 1 .. TimeLen /\ i = u + 1 + (i - (u + 1))
      BY <1>0, <2>3
    <3>2. s[i] = <<"time", i - (u + 1)>>
      BY <1>1, <3>1
    <3>3. "time" \in Names /\ i - (u + 1) \in Nat
      BY <1>0, <3>1 DEF Names
    <3> QED  BY <3>2, <3>3, NoNuls
  <2>4. CASE i = n
    BY <1>1, <2>4, NoNuls
  <2> QED  BY <1>0, <2>1, <2>2, <2>3, <2>4
<1>4. ListBuf(u)[n + 1] = NUL /\ \A i \in 1 .. n : ListBuf(u)[i] # NUL
  BY <1>0, <1>1, <1>2, <1>3
<1> QED  BY <1>0, <1>4, StrlenIs

\* The cells of the line of fail.list.
LEMMA FailCells ==
    ASSUME NEW u \in Nat, NEW r \in Nat, u + TimeLen + 3 <= BufLen, u + r + r + 4 <= BufLen
    PROVE  /\ \A i \in 1 .. u : ReasonBuf(u, r)[i] = <<"url", i>>
           /\ ReasonBuf(u, r)[u + 1] = Tab
           /\ \A i \in 1 .. TimeLen :
                 i <= r + 1 \/ r > TimeLen => ReasonBuf(u, r)[u + 1 + i] = <<"time", i>>
           /\ r > TimeLen => ReasonBuf(u, r)[u + TimeLen + 3] = NUL
           /\ r >= TimeLen => ReasonBuf(u, r)[u + TimeLen + 2] = Tab
           /\ \A i \in 1 .. r : ReasonBuf(u, r)[u + r + 2 + i] = <<"reason", i>>
           /\ ReasonBuf(u, r)[u + r + r + 3] = Newline
           /\ ReasonBuf(u, r)[u + r + r + 4] = NUL
<1>0. TimeLen \in Nat /\ BufLen \in Nat
  BY Lengths
<1>1. \A i \in 1 .. u : ReasonBuf(u, r)[i] = <<"url", i>>
  BY <1>0 DEF ReasonBuf, TimeBuf, UrlCell
<1>2. ReasonBuf(u, r)[u + 1] = Tab
  BY <1>0 DEF ReasonBuf, TimeBuf, UrlCell
<1>3. ASSUME NEW i \in 1 .. TimeLen, i <= r + 1 \/ r > TimeLen
      PROVE  ReasonBuf(u, r)[u + 1 + i] = <<"time", i>>
  <2>1. (u + 1 + i) - (u + 1) = i /\ u + 1 + i \in 1 .. BufLen
    BY <1>0
  <2>2. TimeCell(u, u + 1 + i) = <<"time", i>>
    BY <1>0, <2>1 DEF TimeCell
  <2>3. TimeBuf(u)[u + 1 + i] = TimeCell(u, u + 1 + i)
    BY <1>0, <2>1 DEF TimeBuf
  <2>4. ReasonBuf(u, r)[u + 1 + i] = TimeBuf(u)[u + 1 + i]
    BY <1>0, <1>3, <2>1 DEF ReasonBuf
  <2> QED  BY <2>2, <2>3, <2>4
<1>4. r > TimeLen => ReasonBuf(u, r)[u + TimeLen + 3] = NUL
  BY <1>0 DEF ReasonBuf, TimeBuf
<1>5. r >= TimeLen => ReasonBuf(u, r)[u + TimeLen + 2] = Tab
  BY <1>0 DEF ReasonBuf, TimeBuf, TimeCell
<1>6. ASSUME NEW i \in 1 .. r
      PROVE  ReasonBuf(u, r)[u + r + 2 + i] = <<"reason", i>>
  <2>1. (u + r + 2 + i) - (u + r + 2) = i /\ u + r + 2 + i \in 1 .. BufLen
    BY <1>0
  <2>2. ReasonCell(u, r, u + r + 2 + i) = <<"reason", i>>
    BY <2>1 DEF ReasonCell
  <2> QED  BY <2>1, <2>2 DEF ReasonBuf
<1>7. ReasonBuf(u, r)[u + r + r + 3] = Newline
  BY <1>0 DEF ReasonBuf, ReasonCell
<1>8. ReasonBuf(u, r)[u + r + r + 4] = NUL
  BY <1>0 DEF ReasonBuf, ReasonCell
<1> QED  BY <1>1, <1>2, <1>3, <1>4, <1>5, <1>6, <1>7, <1>8, Zenon

LEMMA FailStrlen ==
    ASSUME NEW u \in Nat, NEW r \in Nat, u + TimeLen + 3 <= BufLen, u + r + r + 4 <= BufLen
    PROVE  /\ strlen(ReasonBuf(u, r)) = FailLen(u, r)
           /\ \A i \in 1 .. FailLen(u, r) : ReasonBuf(u, r)[i] \in Cell
<1> DEFINE b == ReasonBuf(u, r)
           n == FailLen(u, r)
<1>0. TimeLen \in Nat /\ BufLen \in Nat /\ n \in Nat /\ n < BufLen
  BY Lengths DEF FailLen
<1>1. /\ \A i \in 1 .. u : b[i] = <<"url", i>>
      /\ b[u + 1] = Tab
      /\ \A i \in 1 .. TimeLen : i <= r + 1 \/ r > TimeLen => b[u + 1 + i] = <<"time", i>>
      /\ r > TimeLen => b[u + TimeLen + 3] = NUL
      /\ r >= TimeLen => b[u + TimeLen + 2] = Tab
      /\ \A i \in 1 .. r : b[u + r + 2 + i] = <<"reason", i>>
      /\ b[u + r + r + 3] = Newline
      /\ b[u + r + r + 4] = NUL
  BY FailCells
<1> HIDE DEF b
<1>2. Tab \in Cell /\ Newline \in Cell
  BY DEF Cell, Tab, Newline, Names
<1>3. \A name \in Names, i \in Nat : <<name, i>> \in Cell
  BY DEF Cell
<1>4. "url" \in Names /\ "time" \in Names /\ "reason" \in Names
  BY DEF Names
<1>5. ASSUME NEW i \in 1 .. n
      PROVE  b[i] \in Cell
  <2>1. CASE i <= u
    <3>1. i \in 1 .. u /\ i \in Nat
      BY <1>0, <2>1
    <3>2. b[i] = <<"url", i>>
      BY <1>1, <3>1
    <3> QED  BY <1>3, <1>4, <3>1, <3>2
  <2>2. CASE i = u + 1
    BY <1>1, <1>2, <2>2
  <2>3. CASE u + 1 < i /\ i <= u + TimeLen + 1 /\ (i <= u + r + 2 \/ r > TimeLen)
    <3> DEFINE j == i - (u + 1)
    <3>1. j \in 1 .. TimeLen /\ j \in Nat /\ i = u + 1 + j /\ (j <= r + 1 \/ r > TimeLen)
      BY <1>0, <2>3
    <3> HIDE DEF j
    <3>2. b[i] = <<"time", j>>
      BY <1>1, <3>1
    <3> QED  BY <1>3, <1>4, <3>1, <3>2
  <2>4. CASE i = u + TimeLen + 2 /\ r >= TimeLen
    BY <1>1, <1>2, <2>4
  <2>5. CASE r <= TimeLen /\ u + r + 2 < i /\ i <= u + r + r + 2
    <3> DEFINE j == i - (u + r + 2)
    <3>1. j \in 1 .. r /\ j \in Nat /\ i = u + r + 2 + j
      BY <1>0, <2>5
    <3> HIDE DEF j
    <3>2. b[i] = <<"reason", j>>
      BY <1>1, <3>1
    <3> QED  BY <1>3, <1>4, <3>1, <3>2
  <2>6. CASE r <= TimeLen /\ i = u + r + r + 3
    BY <1>1, <1>2, <2>6
  <2> QED  BY <1>0, <2>1, <2>2, <2>3, <2>4, <2>5, <2>6 DEF FailLen
<1>6. b[n + 1] = NUL
  BY <1>0, <1>1 DEF FailLen
<1>7. NUL \notin Cell
  BY DEF NUL, Cell, Names
<1>8. strlen(b) = n
  <2> HIDE DEF n
  <2> QED  BY <1>0, <1>5, <1>6, <1>7, StrlenIs
<1> QED  BY <1>5, <1>8 DEF b


\* How far a thread that is alone has printed its line, and what it is about to
\* write.
Printed ==
    \A t \in Threads, u \in UrlLens \cup {0}, r \in ReasonLens \cup {0} :
        undisturbed[t] /\ url[t] = u /\ reason[t] = r =>
            /\ pc[t] \in {"reason", "lock", "args", "write"} => u + TimeLen + 3 <= BufLen
            /\ kind = "list" /\ pc[t] \in {"args", "write"} => m_buf = ListBuf(u)
            /\ kind = "list" /\ pc[t] = "write" =>
                  arg[t][1] = m_fd /\ arg[t][2] = u + TimeLen + 2
            /\ kind = "fail" /\ pc[t] = "url" => m_buf = Blank
            /\ kind = "fail" /\ pc[t] = "time" => m_buf = UrlBuf(u)
            /\ kind = "fail" /\ pc[t] = "reason" => m_buf = TimeBuf(u)
            /\ kind = "fail" /\ pc[t] \in {"lock", "args", "write"} =>
                  m_buf = ReasonBuf(u, r) /\ u + r + r + 4 <= BufLen
            /\ kind = "fail" /\ pc[t] = "write" => arg[t][2] = FailLen(u, r)

LEMMA NextPrinted == Sound /\ Alone /\ Printed /\ [Next]_vars => Printed'
<1> SUFFICES ASSUME Sound, Alone, Printed, [Next]_vars PROVE Printed'
  OBVIOUS
<1>0. TypeOK
  BY DEF Sound
\* A step of t concerns nobody but t: an undisturbed thread is alone inside.
<1>00. ASSUME NEW t \in Threads, pc[t] # "out", NEW s \in Threads, undisturbed[s]
       PROVE  s = t
  BY <1>00 DEF Alone
<1>1. ASSUME NEW t \in Threads, CrawlStep(t)
      PROVE  Printed'
  <2>1. CASE append(t)
    <3>1. \A s \in Threads : undisturbed'[s] => s = t
      <4>1. CASE m_mutex = Free
        <5>1. \A s \in Threads : ~undisturbed[s]
          BY <2>1, <4>1, ThreadsAssumption DEF append, Alone, Free
        <5> QED  BY <2>1, <1>0, <4>1, <5>1 DEF append, TypeOK
      <4>2. CASE m_mutex # Free
        BY <2>1, <4>2 DEF append
      <4> QED  BY <4>1, <4>2
    <3>2. pc'[t] = "format"
      BY <2>1, <1>0 DEF append, Step, TypeOK
    <3> QED  BY <3>1, <3>2 DEF Printed
  <2>2. CASE FormatLine(t)
    <3>1. \A s \in Threads : undisturbed'[s] => s = t /\ undisturbed[s]
      BY <2>2, <1>00 DEF FormatLine, Step
    <3>2. pc'[t] = "args" /\ kind # "fail" /\ UNCHANGED <<kind, url, reason>>
      BY <2>2, <1>0 DEF FormatLine, Step, TypeOK, Alone, callVars
    <3>3. ASSUME NEW u \in UrlLens \cup {0}, url[t] = u
          PROVE  m_buf' = ListBuf(u) /\ u + TimeLen + 3 <= BufLen
      <4> DEFINE s == Cells("url", u) \o <<Tab>> \o Time \o <<Newline>>
      <4>1. ListText(t) = s
        BY <3>3 DEF ListText, Url
      <4>2. m_buf' = ListBuf(u)
        BY <2>2, <4>1 DEF FormatLine, ListBuf
      <4>3. u \in Nat /\ TimeLen \in Nat /\ BufLen \in Nat /\ Len(s) = u + TimeLen + 2
        BY Lengths, ListLine
      <4>4. 0 + Len(s) < BufLen
        BY <2>2, <4>1 DEF FormatLine, Fits
      <4> HIDE DEF s
      <4> QED  BY <4>2, <4>3, <4>4
    <3> QED  BY <3>1, <3>2, <3>3 DEF Printed
  <2>3. CASE append_error(t)
    <3>1. \A s \in Threads : undisturbed'[s] => s = t
      BY <2>3 DEF append_error
    <3>2. pc'[t] = "url" /\ m_buf' = Blank
      BY <2>3, <1>0 DEF append_error, Step, TypeOK
    <3> QED  BY <3>1, <3>2 DEF Printed
  <2>4. CASE FormatUrl(t)
    <3>1. \A s \in Threads : undisturbed'[s] => s = t /\ undisturbed[s]
      BY <2>4, <1>00 DEF FormatUrl, Step
    <3>2. pc[t] = "url" /\ pc'[t] = "time" /\ UNCHANGED <<kind, url, reason>>
      BY <2>4, <1>0 DEF FormatUrl, Step, TypeOK, callVars
    <3>3. ASSUME NEW u \in UrlLens \cup {0}, url[t] = u, m_buf = Blank
          PROVE  m_buf' = UrlBuf(u)
      BY <2>4, <3>3, PrintUrl, Lengths DEF FormatUrl, Url, UrlText
    <3> QED  BY <3>1, <3>2, <3>3 DEF Printed
  <2>5. CASE FormatTime(t)
    <3>1. \A s \in Threads : undisturbed'[s] => s = t /\ undisturbed[s]
      BY <2>5, <1>00 DEF FormatTime, Step
    <3>2. pc[t] = "time" /\ pc'[t] = "reason" /\ UNCHANGED <<kind, url, reason>>
      BY <2>5, <1>0 DEF FormatTime, Step, TypeOK, callVars
    <3>3. ASSUME NEW u \in UrlLens \cup {0}, url[t] = u, m_buf = UrlBuf(u)
          PROVE  m_buf' = TimeBuf(u)
      BY <2>5, <3>3, PrintTime, Lengths DEF FormatTime, TimeText
    <3>4. ASSUME NEW u \in UrlLens \cup {0}, url[t] = u
          PROVE  u + TimeLen + 3 <= BufLen
      <4>1. u + 1 + Len(TimeText) < BufLen
        BY <2>5, <3>4 DEF FormatTime, Fits
      <4>2. u \in Nat /\ TimeLen \in Nat /\ BufLen \in Nat /\ Len(TimeText) = TimeLen + 1
        BY Lengths, TimeAndTab DEF TimeText
      <4> QED  BY <4>1, <4>2
    <3> QED  BY <3>1, <3>2, <3>3, <3>4 DEF Printed
  <2>6. CASE FormatReason(t)
    <3>1. \A s \in Threads : undisturbed'[s] => s = t /\ undisturbed[s]
      BY <2>6, <1>00 DEF FormatReason, Step
    <3>2. pc[t] = "reason" /\ pc'[t] = "lock" /\ UNCHANGED <<kind, url, reason>>
      BY <2>6, <1>0 DEF FormatReason, Step, TypeOK, callVars
    <3>3. ASSUME NEW u \in UrlLens \cup {0}, NEW r \in ReasonLens \cup {0},
                 url[t] = u, reason[t] = r, m_buf = TimeBuf(u)
          PROVE  m_buf' = ReasonBuf(u, r)
      <4>1. m_buf' = sprintf(u + 1 + r + 1, Cells("reason", r) \o <<Newline>>)
        BY <2>6, <3>3 DEF FormatReason, ReasonOffset, Reason, ReasonText
      <4> QED  BY <3>3, <4>1, PrintReason, Lengths
    <3>4. ASSUME NEW u \in UrlLens \cup {0}, NEW r \in ReasonLens \cup {0},
                 url[t] = u, reason[t] = r
          PROVE  u + r + r + 4 <= BufLen
      <4> DEFINE s == Cells("reason", r) \o <<Newline>>
      <4>1. u + 1 + r + 1 + Len(s) < BufLen
        BY <2>6, <3>4 DEF FormatReason, ReasonOffset, Reason, ReasonText, Fits
      <4>2. u \in Nat /\ r \in Nat /\ BufLen \in Nat /\ Len(s) = r + 1
        BY Lengths, ReasonAndNewline
      <4> HIDE DEF s
      <4> QED  BY <4>1, <4>2
    <3> QED  BY <3>1, <3>2, <3>3, <3>4 DEF Printed
  <2>7. CASE LockLate(t)
    <3>1. \A s \in Threads : undisturbed'[s] => s = t /\ undisturbed[s]
      BY <2>7, <1>00 DEF LockLate, Step
    <3>2. pc[t] = "lock" /\ pc'[t] = "args" /\ UNCHANGED <<kind, url, reason, m_buf>>
      BY <2>7, <1>0 DEF LockLate, Step, TypeOK, callVars
    <3>3. undisturbed[t] => kind # "list"
      BY <2>7, ThreadsAssumption DEF LockLate, Lock, Alone, Free, Destroyed
    <3> QED  BY <3>1, <3>2, <3>3 DEF Printed
  <2>8. CASE Arguments(t)
    <3>1. \A s \in Threads : undisturbed'[s] => s = t /\ undisturbed[s]
      BY <2>8, <1>00 DEF Arguments, Step
    <3>2. pc[t] = "args" /\ pc'[t] = "write" /\ UNCHANGED <<kind, url, reason, m_buf, m_fd>>
      BY <2>8, <1>0 DEF Arguments, Step, TypeOK, fdVars
    <3>3. arg'[t][1] = m_fd /\ arg'[t][2] = strlen(m_buf)
      BY <2>8, <1>0 DEF Arguments, TypeOK
    <3>4. ASSUME NEW u \in UrlLens \cup {0}, m_buf = ListBuf(u), u + TimeLen + 3 <= BufLen
          PROVE  arg'[t][2] = u + TimeLen + 2
      BY <3>3, <3>4, ListLen, Lengths
    <3>5. ASSUME NEW u \in UrlLens \cup {0}, NEW r \in ReasonLens \cup {0},
                 m_buf = ReasonBuf(u, r), u + TimeLen + 3 <= BufLen,
                 u + r + r + 4 <= BufLen
          PROVE  arg'[t][2] = FailLen(u, r)
      BY <3>3, <3>5, FailStrlen, Lengths
    <3> QED  BY <3>1, <3>2, <3>3, <3>4, <3>5 DEF Printed
  <2>9. CASE Write(t)
    <3>1. \A s \in Threads : ~undisturbed'[s]
      BY <2>9, <1>0, <1>00 DEF Write, Step, TypeOK
    <3> QED  BY <3>1 DEF Printed
  <2>10. CASE Overrun(t)
    BY <2>10 DEF Overrun, fdVars, callVars, Printed
  <2> QED  BY <1>1, <2>1, <2>2, <2>3, <2>4, <2>5, <2>6, <2>7, <2>8, <2>9, <2>10 DEF CrawlStep
<1>2. CASE Close
  BY <1>2 DEF Close, Printed
<1>3. CASE Forget
  <2>1. \A t \in Threads : ~undisturbed'[t]
    BY <1>3 DEF Forget, Alone
  <2> QED  BY <2>1 DEF Printed
<1>4. CASE Open
  BY <1>4 DEF Open, Printed
<1>5. CASE InitMutex
  BY <1>5 DEF InitMutex, Printed
<1>6. CASE OtherOpen
  BY <1>6 DEF OtherOpen, callVars, Printed
<1>7. CASE OtherClose
  BY <1>7 DEF OtherClose, callVars, Printed
<1>8. CASE UNCHANGED vars
  BY <1>8 DEF vars, Printed
<1> QED  BY <1>1, <1>2, <1>3, <1>4, <1>5, <1>6, <1>7, <1>8 DEF Next


Inductive == Sound /\ FdIsTheLists /\ Alone /\ Printed

LEMMA AlwaysInductive == Spec => []Inductive
<1>1. Init => Alone /\ Printed
  BY DEF Init, Alone, Printed
<1>2. Init => FdIsTheLists
  <2>1. Min(Fds) \in Fds
    BY FdsTypes, MinExists
  <2> QED  BY <2>1 DEF Init, FdIsTheLists
<1>3. Init => Inductive
  BY InitSound, <1>1, <1>2 DEF Inductive
<1>4. Inductive /\ [Next]_vars => Inductive'
  BY NextSound, NextFd, NextAlone, NextPrinted DEF Inductive
<1> QED  BY <1>3, <1>4, PTL DEF Spec

-----------------------------------------------------------------------------
(* The lines *)

\* The beginning of a buffer, cell by cell.
LEMMA Beginning ==
    ASSUME NEW b, NEW n \in Nat, n <= BufLen,
           b = [i \in 1 .. BufLen |-> b[i]], \A i \in 1 .. n : b[i] \in Cell
    PROVE  /\ SubSeq(b, 1, n) \in Seq(Cell) /\ Len(SubSeq(b, 1, n)) = n
           /\ \A i \in 1 .. n : SubSeq(b, 1, n)[i] = b[i]
<1>1. BufLen \in Nat
  BY Lengths
<1>2. SubSeq(b, 1, n) = [i \in 1 .. n |-> b[i]]
  BY <1>1
<1>3. SubSeq(b, 1, n) \in [1 .. n -> Cell]
  BY <1>2
<1> QED  BY <1>2, <1>3

LEMMA PrefixOf ==
    ASSUME NEW s \in Seq(Cell), NEW t \in Seq(Cell), Len(s) <= Len(t),
           \A i \in 1 .. Len(s) : s[i] = t[i]
    PROVE  IsPrefix(s, t)
<1>1. SubSeq(s, 1, Len(s)) = SubSeq(t, 1, Len(s))
  OBVIOUS
<1> QED  BY <1>1 DEF IsPrefix

\* The line of a list, whole.
LEMMA ListLineIs ==
    ASSUME NEW u \in Nat, u + TimeLen + 3 <= BufLen
    PROVE  SubSeq(ListBuf(u), 1, u + TimeLen + 2)
              = Cells("url", u) \o <<Tab>> \o Time \o <<Newline>>
<1> DEFINE s == Cells("url", u) \o <<Tab>> \o Time \o <<Newline>>
           n == u + TimeLen + 2
           b == ListBuf(u)
<1>1. TimeLen \in Nat /\ BufLen \in Nat /\ n \in Nat /\ n <= BufLen
  BY Lengths
<1>2. s \in Seq(Cell) /\ Len(s) = n
  BY ListLine
<1>3. b = [i \in 1 .. BufLen |-> IF i <= Len(s) THEN s[i] ELSE NUL]
  BY DEF ListBuf
<1> HIDE DEF s, n, b
<1>4. (\A i \in 1 .. n : b[i] = s[i]) /\ \A i \in 1 .. n : b[i] \in Cell
  BY <1>1, <1>2, <1>3
<1>5. b = [i \in 1 .. BufLen |-> b[i]]
  BY <1>3
<1>6. /\ SubSeq(b, 1, n) \in Seq(Cell) /\ Len(SubSeq(b, 1, n)) = n
      /\ \A i \in 1 .. n : SubSeq(b, 1, n)[i] = b[i]
  BY <1>1, <1>4, <1>5, Beginning
<1>7. SubSeq(b, 1, n) = s
  BY <1>2, <1>4, <1>6
<1> QED  BY <1>7 DEF s, n, b

(* A line of cate.list or item.list is whole, and goes to the list of the   *)
(* round, whatever the other threads append, unless the output was closed   *)
(* or opened while its thread or one it met was inside.                     *)
THEOREM UrlOutputListLineWhole == Spec => []ListLineWhole
<1>1. Inductive => ListLineWhole
  <2> SUFFICES ASSUME Inductive, NEW t \in Threads,
                      kind = "list", pc[t] = "write", undisturbed[t]
               PROVE  /\ arg[t][1] = -1 \/ files[arg[t][1]] = round
                      /\ Line(t) = Url(t) \o <<Tab>> \o Time \o <<Newline>>
    BY DEF ListLineWhole, ListText
  <2>1. PICK u \in UrlLens \cup {0} : url[t] = u
    BY DEF Inductive, Sound, TypeOK
  <2>2. PICK r \in ReasonLens \cup {0} : reason[t] = r
    BY DEF Inductive, Sound, TypeOK
  <2>3. /\ m_buf = ListBuf(u) /\ arg[t][1] = m_fd /\ arg[t][2] = u + TimeLen + 2
        /\ u + TimeLen + 3 <= BufLen
    BY <2>1, <2>2 DEF Inductive, Printed
  <2>4. m_fd = -1 \/ files[m_fd] = round
    BY DEF Inductive, FdIsTheLists, Alone
  <2>5. Line(t) = Cells("url", u) \o <<Tab>> \o Time \o <<Newline>>
    BY <2>3, ListLineIs, Lengths DEF Line
  <2> QED  BY <2>1, <2>3, <2>4, <2>5 DEF Url
<1> QED  BY <1>1, AlwaysInductive, PTL

LEMMA LastCell ==
    ASSUME NEW s \in Seq(Cell), NEW t \in Seq(Cell), Len(s) > 0, IsSuffix(s, t)
    PROVE  Len(t) > 0 /\ s[Len(s)] = t[Len(t)]
<1>1. Len(Reverse(s)) = Len(s) /\ Reverse(s)[1] = s[Len(s)]
  BY DEF Reverse
<1>2. Len(Reverse(t)) = Len(t) /\ (Len(t) > 0 => Reverse(t)[1] = t[Len(t)])
  BY DEF Reverse
<1>3. Reverse(s) \in Seq(Cell) /\ Reverse(t) \in Seq(Cell)
  BY DEF Reverse
<1>4. /\ Len(Reverse(s)) <= Len(Reverse(t))
      /\ SubSeq(Reverse(s), 1, Len(Reverse(s))) = SubSeq(Reverse(t), 1, Len(Reverse(s)))
  BY DEF IsSuffix, IsPrefix
<1>5. SubSeq(Reverse(s), 1, Len(s))[1] = Reverse(s)[1]
  BY <1>1, <1>3
<1>6. SubSeq(Reverse(t), 1, Len(s))[1] = Reverse(t)[1]
  BY <1>1, <1>2, <1>3, <1>4
<1> QED  BY <1>1, <1>2, <1>4, <1>5, <1>6

LEMMA SuffixOf ==
    ASSUME NEW s \in Seq(Cell), NEW t \in Seq(Cell), Len(s) <= Len(t),
           \A i \in 1 .. Len(s) : s[i] = t[Len(t) - Len(s) + i]
    PROVE  IsSuffix(s, t)
<1>1. Reverse(s) \in Seq(Cell) /\ Reverse(t) \in Seq(Cell)
  BY DEF Reverse
<1>2. Len(Reverse(s)) = Len(s) /\ Len(Reverse(t)) = Len(t)
  BY DEF Reverse
<1>3. ASSUME NEW i \in 1 .. Len(s)
      PROVE  Reverse(s)[i] = Reverse(t)[i]
  <2> DEFINE j == (Len(s) - i) + 1
  <2>1. j \in 1 .. Len(s) /\ Len(t) - Len(s) + j = (Len(t) - i) + 1
    OBVIOUS
  <2>2. s[j] = t[Len(t) - Len(s) + j]
    BY <2>1
  <2>3. Reverse(s)[i] = s[j]
    BY DEF Reverse
  <2>4. i \in 1 .. Len(t)
    OBVIOUS
  <2>5. Reverse(t)[i] = t[(Len(t) - i) + 1]
    BY <2>4 DEF Reverse
  <2> HIDE DEF j
  <2> QED  BY <2>1, <2>2, <2>3, <2>5
<1> DEFINE s1 == Reverse(s)  t1 == Reverse(t)
<1>4. s1 \in Seq(Cell) /\ t1 \in Seq(Cell) /\ Len(s1) <= Len(t1)
  BY <1>1, <1>2
<1>5. \A i \in 1 .. Len(s1) : s1[i] = t1[i]
  BY <1>2, <1>3
<1> HIDE DEF s1, t1
<1>6. IsPrefix(s1, t1)
  BY <1>4, <1>5, PrefixOf
<1> QED  BY <1>6 DEF s1, t1, IsSuffix


\* The line of fail.list that a thread prints alone.
LEMMA FailLine ==
    ASSUME NEW u \in Nat, NEW r \in Nat, u + TimeLen + 3 <= BufLen, u + r + r + 4 <= BufLen
    PROVE  LET l == SubSeq(ReasonBuf(u, r), 1, FailLen(u, r))
           IN  /\ IsPrefix(Cells("url", u) \o <<Tab>>, l)
               /\ r >= TimeLen - 1 => IsPrefix(Cells("url", u) \o <<Tab>> \o Time, l)
               /\ r <= TimeLen <=> IsSuffix(Cells("reason", r) \o <<Newline>>, l)
<1> DEFINE b == ReasonBuf(u, r)
           n == FailLen(u, r)
           l == SubSeq(b, 1, n)
           p == Cells("url", u) \o <<Tab>>
           q == Cells("url", u) \o <<Tab>> \o Time
           s == Cells("reason", r) \o <<Newline>>
<1>0. TimeLen \in Nat /\ BufLen \in Nat /\ n \in Nat /\ n <= BufLen
  BY Lengths DEF FailLen
<1>1. /\ \A i \in 1 .. u : b[i] = <<"url", i>>
      /\ b[u + 1] = Tab
      /\ \A i \in 1 .. TimeLen : i <= r + 1 \/ r > TimeLen => b[u + 1 + i] = <<"time", i>>
      /\ r > TimeLen => b[u + TimeLen + 3] = NUL
      /\ r >= TimeLen => b[u + TimeLen + 2] = Tab
      /\ \A i \in 1 .. r : b[u + r + 2 + i] = <<"reason", i>>
      /\ b[u + r + r + 3] = Newline
      /\ b[u + r + r + 4] = NUL
  BY FailCells
<1>2. \A i \in 1 .. n : b[i] \in Cell
  BY FailStrlen
<1>3. b = [i \in 1 .. BufLen |-> b[i]]
  BY DEF ReasonBuf
<1>5. /\ p \in Seq(Cell) /\ Len(p) = u + 1
      /\ \A i \in 1 .. u : p[i] = <<"url", i>>
      /\ p[u + 1] = Tab
  BY UrlAndTab
<1>6. /\ q \in Seq(Cell) /\ Len(q) = u + TimeLen + 1
      /\ \A i \in 1 .. u : q[i] = <<"url", i>>
      /\ q[u + 1] = Tab
      /\ \A i \in 1 .. TimeLen : q[u + 1 + i] = <<"time", i>>
  BY UrlAndTime
<1>7. /\ s \in Seq(Cell) /\ Len(s) = r + 1
      /\ \A i \in 1 .. r : s[i] = <<"reason", i>>
      /\ s[r + 1] = Newline
  BY ReasonAndNewline
<1>8. n = IF r <= TimeLen THEN u + r + r + 3 ELSE u + TimeLen + 2
  BY DEF FailLen
<1> HIDE DEF b, n, p, q, s
<1>9. l \in Seq(Cell) /\ Len(l) = n /\ \A i \in 1 .. n : l[i] = b[i]
  BY <1>0, <1>2, <1>3, Beginning
<1> HIDE DEF l
<1>10. IsPrefix(p, l)
  <2>1. Len(p) <= Len(l)
    BY <1>0, <1>5, <1>8, <1>9
  <2>2. ASSUME NEW i \in 1 .. Len(p)
        PROVE  p[i] = l[i]
    <3>1. i \in 1 .. n /\ (i \in 1 .. u \/ i = u + 1)
      BY <1>0, <1>5, <1>8
    <3> QED  BY <1>1, <1>5, <1>9, <3>1
  <2> QED  BY <1>5, <1>9, <2>1, <2>2, PrefixOf
<1>11. ASSUME r >= TimeLen - 1
       PROVE  IsPrefix(q, l)
  <2>1. Len(q) <= Len(l)
    BY <1>0, <1>6, <1>8, <1>9, <1>11
  <2>2. ASSUME NEW i \in 1 .. Len(q)
        PROVE  q[i] = l[i]
    <3>1. i \in 1 .. n
      BY <1>0, <1>6, <1>9, <2>1
    <3>2. CASE i \in 1 .. u \/ i = u + 1
      BY <1>1, <1>6, <1>9, <3>1, <3>2
    <3>3. CASE i > u + 1
      <4> DEFINE j == i - (u + 1)
      <4>1. j \in 1 .. TimeLen /\ i = u + 1 + j /\ j <= r + 1
        BY <1>0, <1>6, <1>11, <3>3
      <4> HIDE DEF j
      <4>2. q[i] = <<"time", j>> /\ b[i] = <<"time", j>>
        BY <1>1, <1>6, <4>1
      <4> QED  BY <1>9, <3>1, <4>2
    <3> QED  BY <1>0, <1>6, <3>2, <3>3
  <2> QED  BY <1>6, <1>9, <2>1, <2>2, PrefixOf
<1>12. ASSUME r <= TimeLen
       PROVE  IsSuffix(s, l)
  <2>1. n = u + r + r + 3 /\ Len(s) <= Len(l) /\ Len(l) - Len(s) = u + r + 2
    BY <1>0, <1>7, <1>8, <1>9, <1>12
  <2>2. ASSUME NEW i \in 1 .. Len(s)
        PROVE  s[i] = l[Len(l) - Len(s) + i]
    <3>1. u + r + 2 + i \in 1 .. n
      BY <1>7, <2>1
    <3>2. l[u + r + 2 + i] = b[u + r + 2 + i]
      BY <1>9, <3>1
    <3>3. CASE i \in 1 .. r
      BY <1>1, <1>7, <2>1, <3>2, <3>3
    <3>4. CASE i = r + 1
      <4>1. u + r + 2 + i = u + r + r + 3
        BY <3>4
      <4> QED  BY <1>1, <1>7, <2>1, <3>2, <3>4, <4>1
    <3> QED  BY <1>7, <3>3, <3>4
  <2> QED  BY <1>7, <1>9, <2>1, <2>2, SuffixOf
<1>13. ASSUME r > TimeLen, IsSuffix(s, l)
       PROVE  FALSE
  <2>1. n = u + TimeLen + 2 /\ n \in 1 .. n
    BY <1>0, <1>8, <1>13
  <2>2. l[Len(l)] = Tab
    BY <1>0, <1>1, <1>9, <1>13, <2>1
  <2>3. s[Len(s)] = l[Len(l)]
    BY <1>7, <1>9, <1>13, LastCell
  <2> QED  BY <1>7, <2>2, <2>3, NoNuls
<1>14. r <= TimeLen <=> IsSuffix(s, l)
  BY <1>0, <1>12, <1>13
<1> QED  BY <1>10, <1>11, <1>14 DEF b, n, p, q, s, l

(* A line of fail.list whose thread met no other in append_error: the URL   *)
(* and the tab, then the time, of which a short reason hides the end, and   *)
(* the reason with the end of the line exactly if it is no longer than the  *)
(* time.                                                                    *)
THEOREM UrlOutputFailLineAlone == Spec => []FailLineAlone
<1>1. Inductive => FailLineAlone
  <2> SUFFICES ASSUME Inductive, NEW t \in Threads,
                      kind = "fail", pc[t] = "write", undisturbed[t]
               PROVE  /\ IsPrefix(Url(t) \o <<Tab>>, Line(t))
                      /\ reason[t] >= TimeLen - 1 =>
                            IsPrefix(Url(t) \o <<Tab>> \o Time, Line(t))
                      /\ reason[t] <= TimeLen <=>
                            IsSuffix(Reason(t) \o <<Newline>>, Line(t))
    BY DEF FailLineAlone, UrlText, ReasonText
  <2>1. PICK u \in UrlLens \cup {0} : url[t] = u
    BY DEF Inductive, Sound, TypeOK
  <2>2. PICK r \in ReasonLens \cup {0} : reason[t] = r
    BY DEF Inductive, Sound, TypeOK
  <2>3. /\ m_buf = ReasonBuf(u, r) /\ arg[t][2] = FailLen(u, r)
        /\ u + TimeLen + 3 <= BufLen /\ u + r + r + 4 <= BufLen
    BY <2>1, <2>2 DEF Inductive, Printed
  <2>4. Line(t) = SubSeq(ReasonBuf(u, r), 1, FailLen(u, r))
    BY <2>3 DEF Line
  <2>5. u \in Nat /\ r \in Nat /\ u + TimeLen + 3 <= BufLen /\ u + r + r + 4 <= BufLen
    BY <2>3, Lengths
  <2> QED  BY <2>1, <2>2, <2>4, <2>5, FailLine DEF Url, Reason
<1> QED  BY <1>1, AlwaysInductive, PTL
=============================================================================
