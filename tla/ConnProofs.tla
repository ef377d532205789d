------------------------------ MODULE ConnProofs ------------------------------
(***************************************************************************)
(* Theorems about the parser of Conn: what a recursive function over the   *)
(* units of a request computes, for every sequence of units.  Induction is *)
(* carried out on sets: a set of naturals that holds 0 and the successor of*)
(* each of its members holds them all.                                     *)
(***************************************************************************)
EXTENDS Conn, SequenceTheorems, WellFoundedInduction, TLAPS

-----------------------------------------------------------------------------
(* Induction                                                               *)

(* Every nonempty set of naturals has a least element.                     *)
LEMMA LeastNumber ==
  ASSUME NEW T \in SUBSET Nat, T # {}
  PROVE  \E n \in T : \A m \in T : n <= m
<1> DEFINE R == OpToRel(<, Nat)
<1>1. IsWellFoundedOn(R, Nat)
  BY NatLessThanWellFounded
<1>2. \A m, n \in Nat : m < n => <<m, n>> \in R
  BY DEF OpToRel
<1> HIDE DEF R
<1>3. \E n \in T : \A m \in T : ~(<<m, n>> \in R)
  BY <1>1, WFMin
<1>4. PICK n \in T : \A m \in T : ~(<<m, n>> \in R)
  BY <1>3
<1>5. \A m \in T : ~(m < n)
  BY <1>2, <1>4
<1>6. T \subseteq Int
  OBVIOUS
<1> QED
  BY <1>5, <1>6

(* Induction over the naturals, for a set instead of a predicate.          *)
LEMMA SetInduction ==
  ASSUME NEW S, 0 \in S, \A n \in Nat : n \in S => n + 1 \in S
  PROVE  Nat \subseteq S
<1> SUFFICES ASSUME Nat \ S # {} PROVE FALSE
  OBVIOUS
<1>1. PICK n \in Nat \ S : \A m \in Nat \ S : n <= m
  BY LeastNumber
<1>2. n # 0 /\ n - 1 \in Nat /\ n - 1 \in S
  BY <1>1
<1> QED
  BY <1>1, <1>2

-----------------------------------------------------------------------------
(* The states of the parser                                                *)

ParserInit(rq) == [req |-> rq, line |-> << >>, used |-> 0, status |-> 0]

(* g holds the parser's states after 0, 1, .. n units of lines.            *)
Parses(g, rq, lines, n) ==
  /\ DOMAIN g = 0 .. n
  /\ g = [k \in 0 .. n |-> IF k = 0 THEN ParserInit(rq) ELSE ParseUnit(g[k - 1], lines[k])]

(* The recursion of req_parse over the units has a solution of each length.*)
LEMMA ParsesExists ==
  ASSUME NEW rq, NEW lines, NEW n \in Nat
  PROVE  \E g : Parses(g, rq, lines, n)
<1> DEFINE S == {k \in Nat : \E g : Parses(g, rq, lines, k)}
<1>1. 0 \in S
  <2> DEFINE g == [k \in 0 .. 0 |-> ParserInit(rq)]
  <2>1. Parses(g, rq, lines, 0)
    BY DEF Parses
  <2> QED
    BY <2>1
<1>2. ASSUME NEW k \in Nat, k \in S PROVE k + 1 \in S
  <2>1. PICK g : Parses(g, rq, lines, k)
    BY <1>2
  <2> DEFINE h == [j \in 0 .. k + 1 |->
                     IF j = k + 1 THEN ParseUnit(g[k], lines[k + 1]) ELSE g[j]]
  <2>2. \A j \in 0 .. k : h[j] = g[j]
    OBVIOUS
  <2>3. \A j \in 0 .. k : g[j] = IF j = 0 THEN ParserInit(rq) ELSE ParseUnit(g[j - 1], lines[j])
    BY <2>1 DEF Parses
  <2>4. \A j \in 0 .. k + 1 :
          h[j] = IF j = 0 THEN ParserInit(rq) ELSE ParseUnit(h[j - 1], lines[j])
    <3> SUFFICES ASSUME NEW j \in 0 .. k + 1
                 PROVE  h[j] = IF j = 0 THEN ParserInit(rq) ELSE ParseUnit(h[j - 1], lines[j])
      OBVIOUS
    <3>1. CASE j = k + 1
      <4>1. h[j - 1] = g[k] /\ h[j] = ParseUnit(g[k], lines[k + 1])
        BY <3>1
      <4> QED
        BY <3>1, <4>1
    <3>2. CASE j # k + 1
      <4>1. j \in 0 .. k /\ (j # 0 => j - 1 \in 0 .. k)
        BY <3>2
      <4> HIDE DEF h
      <4> QED
        BY <2>2, <2>3, <4>1
    <3> QED
      BY <3>1, <3>2
  <2>5. DOMAIN h = 0 .. k + 1 /\ h = [j \in 0 .. k + 1 |-> h[j]]
    OBVIOUS
  <2> HIDE DEF h
  <2>6. Parses(h, rq, lines, k + 1)
    BY <2>4, <2>5 DEF Parses
  <2> QED
    BY <2>6
<1> HIDE DEF S
<1>3. Nat \subseteq S
  BY <1>1, <1>2, SetInduction
<1> QED
  BY <1>3 DEF S

(* ParserStates: the first state, and each state from the one before it.   *)
LEMMA ParserStatesFacts ==
  ASSUME NEW rq, NEW lines, Len(lines) \in Nat
  PROVE  /\ ParserStates(rq, lines)[0] = ParserInit(rq)
         /\ \A n \in 1 .. Len(lines) :
              ParserStates(rq, lines)[n] =
                ParseUnit(ParserStates(rq, lines)[n - 1], lines[n])
<1> DEFINE N == Len(lines)
           F(g) == [k \in 0 .. N |-> IF k = 0 THEN ParserInit(rq)
                                     ELSE ParseUnit(g[k - 1], lines[k])]
           st == ParserStates(rq, lines)
<1>1. st = CHOOSE g : g = F(g)
  BY DEF ParserStates, ParserInit
<1>2. PICK g : Parses(g, rq, lines, N)
  BY ParsesExists
<1>3. g = F(g)
  BY <1>2 DEF Parses
<1>4. st = F(st)
  BY <1>1, <1>3
<1> HIDE DEF st
<1>5. \A k \in 0 .. N : st[k] = IF k = 0 THEN ParserInit(rq)
                                ELSE ParseUnit(st[k - 1], lines[k])
  BY <1>4
<1> QED
  BY <1>5 DEF st

-----------------------------------------------------------------------------
(* What the parser keeps                                                   *)

(* Once its first line is read, a request names a path, and is dynamic if  *)
(* and only if that path is below /cgi/.                                   *)
Located(rq) == rq.uri \in Uri /\ (rq.type = "DYNAMIC" <=> rq.uri \in CgiUri)

InHeader(rq) == rq.phase \in {"START", "HEADER"}

(* What is left of a body is not negative while the body is read.          *)
ReqOK(rq) ==
  /\ rq \in ReqType
  /\ rq.phase \in {"HEADER", "BODY", "DONE"} => Located(rq)
  /\ rq.phase = "BODY" => rq.rsize \in Nat

(* The parser's state s after n units: what it read is counted in used and *)
(* in the line, and the status tells whether the request was refused.      *)
ParserStatus == {0, 400, 411, 501}
ParserType ==
  [req: ReqType, line: Seq(InUnit), used: Nat, status: ParserStatus]

ParserOK(s, n) ==
  /\ s \in ParserType
  /\ ReqOK(s.req) /\ s.req.phase # "DONE"
  /\ s.used <= n
  /\ InHeader(s.req) => s.used + Len(s.line) = n
  /\ s.status # 0 <=> s.req.phase = "ABORT"

(* atoi gives an integer for every number of digits, after its overflow too.*)
LEMMA AtoiInt == ASSUME NEW n \in Nat PROVE Atoi(n) \in Int
<1> DEFINE m == 2 * INT_HALF
           low == n % m
<1>1. m \in Nat \ {0}
  BY ConnAssumption
<1> HIDE DEF m
<1>2. low \in Int
  BY <1>1
<1>3. Atoi(n) \in {low, low - m}
  BY DEF Atoi, m
<1> HIDE DEF low
<1> QED
  BY <1>1, <1>2, <1>3

(* A refusal keeps all but the phase and the status.                       *)
LEMMA RefuseFacts ==
  ASSUME NEW s \in ParserType, NEW status \in ParserStatus
  PROVE  /\ Refuse(s, status) \in ParserType
         /\ Refuse(s, status).req.phase = "ABORT"
         /\ Refuse(s, status).status = status
         /\ Refuse(s, status).line = s.line /\ Refuse(s, status).used = s.used
<1> DEFINE r == [s.req EXCEPT !.phase = "ABORT"]
<1>1. s.req \in ReqType
  BY DEF ParserType
<1>2. r \in ReqType /\ r.phase = "ABORT"
  BY <1>1 DEF ReqType
<1>3. Refuse(s, status) = [s EXCEPT !.req = r, !.status = status]
  BY DEF Refuse, ParserType
<1> HIDE DEF r
<1> QED
  BY <1>2, <1>3 DEF ParserType

(* A line of the header leaves a request the parser goes on with or a      *)
(* refusal; nothing of the line itself is counted yet.                     *)
LEMMA ParseLineFacts ==
  ASSUME NEW s, NEW n \in Nat, ParserOK(s, n), InHeader(s.req)
  PROVE  LET t == ParseLine(s)
         IN /\ t \in ParserType /\ t.line = s.line /\ t.used = s.used
            /\ ReqOK(t.req) /\ t.req.phase \in {"HEADER", "BODY", "ABORT"}
            /\ t.status # 0 <=> t.req.phase = "ABORT"
<1> DEFINE rq == s.req
           t == ParseLine(s)
           Good == /\ t \in ParserType /\ t.line = s.line /\ t.used = s.used
                   /\ ReqOK(t.req) /\ t.req.phase \in {"HEADER", "BODY", "ABORT"}
                   /\ t.status # 0 <=> t.req.phase = "ABORT"
<1>1. /\ s \in ParserType /\ s.line \in Seq(InUnit)
      /\ rq \in ReqType /\ s.status = 0 /\ rq.phase \in {"START", "HEADER"}
      /\ rq.phase = "HEADER" => Located(rq)
  BY DEF ParserOK, ReqOK, InHeader, ParserType
<1>2. ASSUME s.line # << >> PROVE s.line[1] \in InUnit
  BY <1>1, <1>2
<1>3. ASSUME NEW r \in ParserType, r.line = s.line, r.used = s.used,
             NEW status \in ParserStatus \ {0}, t = Refuse(r, status)
      PROVE  Good
  <2>1. /\ t \in ParserType /\ t.req.phase = "ABORT" /\ t.status = status
        /\ t.line = s.line /\ t.used = s.used
    BY <1>3, RefuseFacts
  <2>2. t.req \in ReqType
    BY <2>1 DEF ParserType
  <2> QED
    BY <1>3, <2>1, <2>2 DEF ReqOK
<1>0. {400, 411, 501} \subseteq ParserStatus \ {0}
  BY DEF ParserStatus
<1>4. ASSUME NEW r \in ReqType, t = [s EXCEPT !.req = r], Located(r),
             r.phase \in {"HEADER", "BODY"}, r.phase = "BODY" => r.rsize \in Nat
      PROVE  Good
  BY <1>1, <1>4 DEF ReqOK, ParserType
<1>5. CASE rq.phase = "START"
  <2>1. t = StartLine(s)
    BY <1>5 DEF ParseLine
  <2>2. CASE s.line = << >> \/ s.line[1].k # "start" \/ s.line[1].method = "OTHER"
    <3>1. StartLine(s) \in {Refuse(s, 400), Refuse(s, 501)}
      BY <2>2 DEF StartLine
    <3> QED
      BY <1>0, <1>1, <1>3, <2>1, <3>1
  <2>3. CASE ~(s.line = << >> \/ s.line[1].k # "start" \/ s.line[1].method = "OTHER")
    <3> DEFINE m == s.line[1].method
               u == s.line[1].uri
               ty == IF u \in CgiUri THEN "DYNAMIC" ELSE "STATIC"
               named == [s EXCEPT !.req.method = m, !.req.uri = u, !.req.type = ty]
    <3>1. m \in Methods /\ u \in Uri
      BY <1>2, <2>3 DEF InUnit, LineText, LF, BodyUnit
    <3>2. StartLine(s) = IF Len(s.line) > 1 THEN Refuse(named, 400)
                         ELSE [named EXCEPT !.req.phase = "HEADER"]
      BY <2>3 DEF StartLine
    <3>3. ty \in {"STATIC", "DYNAMIC"} /\ (ty = "DYNAMIC" <=> u \in CgiUri)
      OBVIOUS
    <3> HIDE DEF m, u, ty
    <3> DEFINE r == [rq EXCEPT !.method = m, !.uri = u, !.type = ty]
               h == [r EXCEPT !.phase = "HEADER"]
    <3>4. r \in ReqType /\ h \in ReqType /\ Located(h) /\ h.phase = "HEADER"
      BY <1>1, <3>1, <3>3 DEF ReqType, Located
    <3>5. named = [s EXCEPT !.req = r]
      BY <1>1 DEF ParserType
    <3>6. [named EXCEPT !.req.phase = "HEADER"] = [s EXCEPT !.req = h]
      BY <1>1, <3>5 DEF ParserType
    <3>7. named \in ParserType /\ named.line = s.line /\ named.used = s.used
      BY <1>1, <3>4, <3>5 DEF ParserType
    <3> HIDE DEF named, r, h
    <3>8. CASE t = Refuse(named, 400)
      BY <1>0, <1>3, <3>7, <3>8
    <3>9. CASE t = [s EXCEPT !.req = h]
      BY <1>4, <3>4, <3>9
    <3> QED
      BY <2>1, <3>2, <3>6, <3>8, <3>9
  <2> QED
    BY <2>2, <2>3
<1>6. CASE rq.phase = "HEADER" /\ s.line = << >>
  <2>1. t = BlankLine(s)
    BY <1>6 DEF ParseLine
  <2> DEFINE a == [rq EXCEPT !.phase = "BODY", !.rsize = rq.clen]
             b == [rq EXCEPT !.phase = "BODY", !.clen = 0, !.rsize = 0]
  <2>2. ASSUME NEW x \in Int, NEW y \in Int
        PROVE  LET q == [rq EXCEPT !.phase = "BODY", !.clen = x, !.rsize = y]
               IN /\ q \in ReqType /\ Located(q) /\ q.phase = "BODY" /\ q.rsize = y
                  /\ [s EXCEPT !.req.phase = "BODY", !.req.clen = x, !.req.rsize = y]
                       = [s EXCEPT !.req = q]
    <3> DEFINE q == [rq EXCEPT !.phase = "BODY", !.clen = x, !.rsize = y]
    <3>1. q \in ReqType
      BY <1>1 DEF ReqType
    <3>2. q.uri = rq.uri /\ q.type = rq.type /\ q.phase = "BODY" /\ q.rsize = y
      BY <1>1 DEF ReqType
    <3>3. [s EXCEPT !.req.phase = "BODY", !.req.clen = x, !.req.rsize = y]
            = [s EXCEPT !.req = q]
      BY <1>1 DEF ParserType
    <3> QED
      BY <1>1, <1>6, <3>1, <3>2, <3>3 DEF Located
  <2>3. /\ a \in ReqType /\ Located(a) /\ a.phase = "BODY" /\ a.rsize = s.req.clen
        /\ [s EXCEPT !.req.phase = "BODY", !.req.rsize = s.req.clen] = [s EXCEPT !.req = a]
    <3>1. a \in ReqType
      BY <1>1 DEF ReqType
    <3>2. a.uri = rq.uri /\ a.type = rq.type /\ a.phase = "BODY" /\ a.rsize = rq.clen
      BY <1>1 DEF ReqType
    <3>3. [s EXCEPT !.req.phase = "BODY", !.req.rsize = s.req.clen] = [s EXCEPT !.req = a]
      BY <1>1 DEF ParserType
    <3> QED
      BY <1>1, <1>6, <3>1, <3>2, <3>3 DEF Located
  <2>4. /\ b \in ReqType /\ Located(b) /\ b.phase = "BODY" /\ b.rsize \in Nat
        /\ [s EXCEPT !.req.phase = "BODY", !.req.clen = 0, !.req.rsize = 0]
             = [s EXCEPT !.req = b]
    <3>1. 0 \in Int /\ 0 \in Nat
      OBVIOUS
    <3> QED
      BY <2>2, <3>1
  <2>5. \/ BlankLine(s) = [s EXCEPT !.req = a] /\ s.req.clen >= 0
        \/ BlankLine(s) \in {[s EXCEPT !.req = b], Refuse(s, 411)}
    BY <2>3, <2>4 DEF BlankLine
  <2>6. s.req.clen \in Int
    BY <1>1 DEF ReqType
  <2>7. CASE BlankLine(s) = [s EXCEPT !.req = a] /\ s.req.clen >= 0
    <3>1. a.rsize \in Nat
      BY <2>3, <2>6, <2>7
    <3> HIDE DEF a
    <3> QED
      BY <1>4, <2>1, <2>3, <2>7, <3>1
  <2>8. CASE BlankLine(s) \in {[s EXCEPT !.req = b], Refuse(s, 411)}
    <3> HIDE DEF b
    <3> QED
      BY <1>0, <1>1, <1>3, <1>4, <2>1, <2>4, <2>8
  <2> QED
    BY <2>5, <2>7, <2>8
<1>7. CASE rq.phase = "HEADER" /\ s.line # << >>
  <2>1. t = FieldLine(s)
    BY <1>7 DEF ParseLine
  <2> DEFINE a == [rq EXCEPT !.alive = FALSE]
             b == [rq EXCEPT !.clen = Atoi(s.line[1].n)]
  <2>2. a \in ReqType /\ Located(a) /\ a.phase = "HEADER"
    BY <1>1, <1>7 DEF ReqType, Located
  <2>3. CASE s.line[1].k = "clen"
    <3>1. s.line[1].n \in Nat
      BY <1>2, <1>7, <2>3 DEF InUnit, LineText, LF, BodyUnit
    <3>2. Atoi(s.line[1].n) \in Int
      BY <3>1, AtoiInt
    <3>3. b \in ReqType /\ Located(b) /\ b.phase = "HEADER"
      BY <1>1, <1>7, <3>2 DEF ReqType, Located
    <3>4. FieldLine(s) = [s EXCEPT !.req = b]
      BY <1>1, <2>3 DEF FieldLine, ParserType
    <3> HIDE DEF b
    <3> QED
      BY <1>4, <2>1, <3>3, <3>4
  <2>4. CASE s.line[1].k # "clen"
    <3>1. FieldLine(s) \in {[s EXCEPT !.req = a], [s EXCEPT !.req = rq], Refuse(s, 400)}
      BY <1>1, <2>4 DEF FieldLine, ParserType
    <3> HIDE DEF a
    <3> QED
      BY <1>0, <1>1, <1>3, <1>4, <1>7, <2>1, <2>2, <3>1
  <2> QED
    BY <2>3, <2>4
<1> QED
  BY <1>1, <1>5, <1>6, <1>7

(* One more unit.  After an end of line no part of a line is left over.    *)
LEMMA ParseUnitFacts ==
  ASSUME NEW s, NEW n \in Nat, ParserOK(s, n), NEW u \in InUnit
  PROVE  /\ ParserOK(ParseUnit(s, u), n + 1)
         /\ u = LF /\ InHeader(ParseUnit(s, u).req) => ParseUnit(s, u).line = << >>
<1> DEFINE t == ParseUnit(s, u)
<1>0. s \in ParserType /\ s.used \in Nat /\ s.line \in Seq(InUnit)
  BY DEF ParserOK, ParserType
<1>1. CASE ~InHeader(s.req)
  <2>1. t = s
    BY <1>1 DEF ParseUnit, InHeader
  <2> QED
    BY <1>0, <1>1, <2>1 DEF ParserOK
<1>2. CASE InHeader(s.req) /\ u # LF
  <2> DEFINE l == Append(s.line, u)
  <2>1. t = [s EXCEPT !.line = l]
    BY <1>2 DEF ParseUnit, InHeader
  <2>2. l \in Seq(InUnit) /\ Len(l) = Len(s.line) + 1 /\ Len(s.line) \in Nat
    BY <1>0
  <2> HIDE DEF l, t
  <2>3. /\ t \in ParserType /\ t.line = l /\ t.req = s.req
        /\ t.used = s.used /\ t.status = s.status
    BY <1>0, <2>1, <2>2 DEF ParserType
  <2>4. /\ ReqOK(s.req) /\ s.req.phase # "DONE" /\ s.used <= n
        /\ InHeader(s.req) => s.used + Len(s.line) = n
        /\ s.status # 0 <=> s.req.phase = "ABORT"
    BY DEF ParserOK
  <2>5. s.used <= n + 1 /\ (InHeader(s.req) => s.used + Len(l) = n + 1)
    <3> DEFINE a == s.used
               k == Len(s.line)
    <3>1. a \in Nat /\ k \in Nat /\ a <= n
      BY <1>0, <2>2, <2>4
    <3>2. Len(l) = k + 1 /\ (InHeader(s.req) => a + k = n)
      BY <2>2, <2>4
    <3> HIDE DEF a, k
    <3>3. a <= n + 1 /\ (InHeader(s.req) => a + Len(l) = n + 1)
      BY <3>1, <3>2
    <3> QED
      BY <3>3 DEF a
  <2>6. t.used <= n + 1 /\ (InHeader(t.req) => t.used + Len(t.line) = n + 1)
    BY <2>3, <2>5
  <2>7. ParserOK(t, n + 1)
    BY <2>3, <2>4, <2>6 DEF ParserOK
  <2> QED
    BY <1>2, <2>7 DEF t
<1>3. CASE InHeader(s.req) /\ u = LF
  <2> DEFINE v == ParseLine(s)
  <2>1. t = [v EXCEPT !.line = << >>, !.used = @ + Len(s.line) + 1]
    BY <1>3 DEF ParseUnit, InHeader
  <2>2. /\ v \in ParserType /\ v.line = s.line /\ v.used = s.used
        /\ ReqOK(v.req) /\ v.req.phase \in {"HEADER", "BODY", "ABORT"}
        /\ v.status # 0 <=> v.req.phase = "ABORT"
    BY <1>3, ParseLineFacts
  <2> HIDE DEF v
  <2>3. Len(s.line) \in Nat /\ s.used + Len(s.line) = n
    BY <1>0, <1>3 DEF ParserOK
  <2> DEFINE m == v.used + Len(s.line) + 1
             none == << >>
  <2>4. t = [v EXCEPT !.line = none, !.used = m]
    BY <2>1, <2>2 DEF ParserType
  <2>5. m = n + 1 /\ m \in Nat
    BY <1>0, <2>2, <2>3
  <2>6. none \in Seq(InUnit) /\ Len(none) = 0
    OBVIOUS
  <2> HIDE DEF t, m, none
  <2>7. /\ t \in ParserType /\ t.req = v.req /\ t.line = none /\ t.used = m
        /\ t.status = v.status
    BY <2>2, <2>4, <2>5, <2>6 DEF ParserType
  <2>8. t.used <= n + 1 /\ t.used + Len(t.line) = n + 1
    BY <2>5, <2>6, <2>7
  <2>9. t.req.phase # "DONE"
    BY <2>2, <2>7
  <2>10. ParserOK(t, n + 1)
    BY <2>2, <2>7, <2>8, <2>9 DEF ParserOK
  <2>11. t.line = << >>
    BY <2>7 DEF none
  <2> QED
    BY <2>10, <2>11 DEF t
<1> QED
  BY <1>1, <1>2, <1>3

(* The state req_parse ends with.  When the units end with an end of line, *)
(* no part of a line is left over.                                         *)
LEMMA ReqParseFacts ==
  ASSUME NEW rq, ReqOK(rq), InHeader(rq), NEW lines \in Seq(InUnit)
  PROVE  LET s == ReqParse(rq, lines)
             n == Len(lines)
         IN /\ ParserOK(s, n)
            /\ n # 0 /\ lines[n] = LF /\ InHeader(s.req) => s.line = << >>
<1> DEFINE N == Len(lines)
           st == ParserStates(rq, lines)
           S == {n \in Nat : n <= N => ParserOK(st[n], n)}
<1>1. N \in Nat /\ \A n \in 1 .. N : lines[n] \in InUnit
  OBVIOUS
<1>2. /\ st[0] = ParserInit(rq)
      /\ \A n \in 1 .. N : st[n] = ParseUnit(st[n - 1], lines[n])
  BY <1>1, ParserStatesFacts
<1> HIDE DEF st, N
<1>3. 0 \in S
  <2>1. << >> \in Seq(InUnit) /\ Len(<< >>) = 0 /\ 0 \in ParserStatus
    BY DEF ParserStatus
  <2>2. /\ rq \in ReqType /\ rq.phase \notin {"DONE", "ABORT"}
    BY DEF ReqOK, InHeader
  <2>3. ParserInit(rq) \in ParserType
    BY <2>1, <2>2 DEF ParserInit, ParserType
  <2>4. ParserOK(ParserInit(rq), 0)
    BY <2>1, <2>2, <2>3 DEF ParserInit, ParserOK
  <2> QED
    BY <1>2, <2>4
<1>4. ASSUME NEW n \in Nat, n \in S PROVE n + 1 \in S
  <2> SUFFICES ASSUME n + 1 <= N PROVE ParserOK(st[n + 1], n + 1)
    OBVIOUS
  <2>1. n <= N /\ n + 1 \in 1 .. N /\ (n + 1) - 1 = n
    BY <1>1
  <2>2. ParserOK(st[n], n) /\ lines[n + 1] \in InUnit
    BY <1>1, <1>4, <2>1
  <2>3. st[n + 1] = ParseUnit(st[n], lines[n + 1])
    BY <1>2, <2>1
  <2> QED
    BY <2>2, <2>3, ParseUnitFacts
<1> HIDE DEF S
<1>5. \A n \in 0 .. N : ParserOK(st[n], n)
  <2>1. Nat \subseteq S
    BY <1>3, <1>4, SetInduction
  <2> QED
    BY <1>1, <2>1 DEF S
<1>6. ASSUME N # 0, lines[N] = LF, InHeader(st[N].req) PROVE st[N].line = << >>
  <2>1. N - 1 \in 0 .. N /\ N - 1 \in Nat /\ N \in 1 .. N
    BY <1>1, <1>6
  <2>2. st[N] = ParseUnit(st[N - 1], lines[N]) /\ ParserOK(st[N - 1], N - 1)
    BY <1>2, <1>5, <2>1
  <2>3. lines[N] \in InUnit
    BY <1>1, <2>1
  <2> QED
    BY <1>6, <2>1, <2>2, <2>3, ParseUnitFacts
<1>7. ReqParse(rq, lines) = st[N] /\ ParserOK(st[N], N)
  BY <1>1, <1>5 DEF ReqParse, st, N
<1> QED
  BY <1>6, <1>7 DEF N

-----------------------------------------------------------------------------
(* cn_parse_req                                                            *)

(* A buffer that holds received units, within its capacity.                *)
BufOK(b) ==
  /\ b \in [p: Nat, rest: Seq(InUnit)]
  /\ BufSz(b) <= BUFSZ

(* No end of line among the first n units, in the whole of the buffer.     *)
LineFreeUpTo(b, n) == \A i \in 1 .. n : b.rest[i] # LF
LineFree(b) == LineFreeUpTo(b, Len(b.rest))

(* Every nonempty set of numbers with an upper bound has a largest one.    *)
LEMMA LargestNumber ==
  ASSUME NEW n \in Nat, NEW T \in SUBSET (1 .. n), T # {}
  PROVE  \E m \in T : \A k \in T : k <= m
<1> DEFINE D == {d \in Nat : n - d \in T}
<1>1. PICK t \in T : TRUE
  OBVIOUS
<1>2. n - t \in Nat /\ n - (n - t) = t
  BY <1>1
<1>3. D \in SUBSET Nat /\ n - t \in D
  BY <1>1, <1>2
<1> HIDE DEF D
<1>4. PICK d \in D : \A e \in D : d <= e
  BY <1>3, LeastNumber
<1>5. d \in Nat /\ n - d \in T
  BY <1>4 DEF D
<1>6. ASSUME NEW k \in T PROVE k <= n - d
  <2>1. k \in Nat /\ n - k \in Nat /\ n - (n - k) = k
    BY <1>6
  <2>2. n - k \in D
    BY <1>6, <2>1 DEF D
  <2>3. d <= n - k
    BY <1>4, <2>2
  <2> QED
    BY <1>5, <2>1, <2>3
<1> QED
  BY <1>5, <1>6

(* The last end of line among the units received last, if there is one.    *)
LEMMA LinesEndFacts ==
  ASSUME NEW b, BufOK(b), NEW from \in Nat, b.p <= from, from <= BufSz(b),
         LineFreeUpTo(b, from - b.p)
  PROVE  LET end == LinesEnd(b, from)
         IN /\ end \in 0 .. Len(b.rest)
            /\ end # 0 => b.rest[end] = LF
            /\ \A i \in end + 1 .. Len(b.rest) : b.rest[i] # LF
<1> DEFINE n == Len(b.rest)
           k == from - b.p
           E == {i \in k + 1 .. n : b.rest[i] = LF}
           end == LinesEnd(b, from)
<1>1. b.p \in Nat /\ n \in Nat /\ k \in Nat
  BY DEF BufOK
<1>2. end = IF E = {} THEN 0 ELSE CHOOSE i \in E : \A j \in E : j <= i
  BY DEF LinesEnd
<1>3. \A i \in 1 .. k : b.rest[i] # LF
  BY DEF LineFreeUpTo
<1> HIDE DEF n, k, end
<1>4. CASE E = {}
  <2>1. end = 0
    BY <1>2, <1>4
  <2>2. \A i \in 1 .. n : i \in 1 .. k \/ i \in k + 1 .. n
    BY <1>1
  <2>3. \A i \in 1 .. n : b.rest[i] # LF
    BY <1>3, <1>4, <2>2
  <2> QED
    BY <1>1, <2>1, <2>3 DEF n, end
<1>5. CASE E # {}
  <2>1. E \in SUBSET (1 .. n)
    BY <1>1
  <2>2. \E i \in E : \A j \in E : j <= i
    BY <1>1, <1>5, <2>1, LargestNumber
  <2>3. end \in E /\ \A j \in E : j <= end
    BY <1>2, <1>5, <2>2
  <2>4. ASSUME NEW i \in end + 1 .. n PROVE b.rest[i] # LF
    <3>1. i \in k + 1 .. n /\ ~(i <= end)
      BY <1>1, <2>3
    <3> QED
      BY <2>3, <3>1
  <2>5. end \in 0 .. n /\ b.rest[end] = LF
    BY <1>1, <2>1, <2>3
  <2> QED
    BY <2>4, <2>5 DEF n, end
<1> QED
  BY <1>4, <1>5

(* Moving data_p on keeps what the buffer holds beyond it.                 *)
LEMMA AdvanceFacts ==
  ASSUME NEW b, BufOK(b), NEW n \in 0 .. Len(b.rest)
  PROVE  /\ BufOK(Advance(b, n))
         /\ Len(Advance(b, n).rest) = Len(b.rest) - n
         /\ \A i \in 1 .. Len(b.rest) - n : Advance(b, n).rest[i] = b.rest[n + i]
<1> DEFINE m == Len(b.rest)
           t == SubSeq(b.rest, n + 1, m)
           q == b.p + n
<1>1. /\ b.p \in Nat /\ m \in Nat /\ b.rest \in Seq(InUnit) /\ n <= m
      /\ b.p + m <= BUFSZ
  BY DEF BufOK, BufSz
<1>2. /\ t \in Seq(InUnit) /\ Len(t) = m - n
      /\ \A i \in 1 .. m - n : t[i] = b.rest[n + i]
  <2>1. n + 1 \in 1 .. m + 1 /\ m \in n .. m /\ m - (n + 1) + 1 = m - n
    BY <1>1
  <2>2. /\ t \in Seq(InUnit)
        /\ Len(t) = IF n + 1 <= m THEN m - (n + 1) + 1 ELSE 0
        /\ \A i \in 1 .. m - (n + 1) + 1 : t[i] = b.rest[n + 1 + i - 1]
    BY <1>1, <2>1, SubSeqProperties
  <2>3. Len(t) = m - n
    BY <1>1, <2>2
  <2>4. ASSUME NEW i \in 1 .. m - n PROVE t[i] = b.rest[n + i]
    <3>1. n + 1 + i - 1 = n + i
      BY <1>1
    <3> QED
      BY <2>1, <2>2, <3>1
  <2> QED
    BY <2>2, <2>3, <2>4
<1>3. Advance(b, n) = [p |-> q, rest |-> t] /\ q \in Nat
  BY <1>1 DEF Advance
<1> HIDE DEF t
<1>4. q + Len(t) <= BUFSZ
  BY <1>1, <1>2
<1> HIDE DEF q
<1> DEFINE a == Advance(b, n)
<1>5. a \in [p: Nat, rest: Seq(InUnit)] /\ a.p = q /\ a.rest = t
  BY <1>2, <1>3
<1> HIDE DEF a
<1>6. BufOK(a)
  BY <1>4, <1>5 DEF BufOK, BufSz
<1> QED
  BY <1>2, <1>5, <1>6 DEF a

(* ParseHeader: either half of the buffer may be empty, but an end of line *)
(* is left in it only if it is part of the body.                           *)
HeaderOK(h) ==
  /\ ReqOK(h.req) /\ h.req.phase # "DONE"
  /\ BufOK(h.buf)
  /\ h.status \in ParserStatus
  /\ h.status # 0 <=> h.req.phase = "ABORT"
  /\ InHeader(h.req) => LineFree(h.buf)

(* One call of req_parse on the lines up to the last end of line keeps     *)
(* request and buffer well formed and leaves no line behind.               *)
LEMMA ParseHeaderFacts ==
  ASSUME NEW rq, ReqOK(rq), rq.phase \in {"START", "HEADER", "BODY"},
         NEW b, BufOK(b), NEW from \in Nat, b.p <= from, from <= BufSz(b),
         InHeader(rq) => LineFreeUpTo(b, from - b.p)
  PROVE  HeaderOK(ParseHeader(rq, b, from))
<1> DEFINE end == LinesEnd(b, from)
           l == SubSeq(b.rest, 1, end)
           s == ReqParse(rq, l)
           h == ParseHeader(rq, b, from)
<1>1. b.rest \in Seq(InUnit) /\ Len(b.rest) \in Nat
  BY DEF BufOK
<1>2. CASE ~InHeader(rq) \/ end = 0
  <2>1. h = [req |-> rq, buf |-> b, status |-> 0]
    BY <1>2 DEF ParseHeader, InHeader
  <2>2. h.req = rq /\ h.buf = b /\ h.status = 0
    BY <2>1
  <2>3. InHeader(rq) => LineFree(b)
    <3> SUFFICES ASSUME InHeader(rq) PROVE LineFree(b)
      OBVIOUS
    <3>1. \A i \in end + 1 .. Len(b.rest) : b.rest[i] # LF
      BY LinesEndFacts
    <3>2. end = 0
      BY <1>2
    <3> QED
      BY <3>1, <3>2 DEF LineFree, LineFreeUpTo
  <2>4. 0 \in ParserStatus
    BY DEF ParserStatus
  <2> HIDE DEF h
  <2>5. HeaderOK(h)
    BY <2>2, <2>3, <2>4 DEF HeaderOK, InHeader
  <2> QED
    BY <2>5 DEF h
<1>3. CASE InHeader(rq) /\ end # 0
  <2> DEFINE n == IF s.status # 0 THEN end ELSE s.used
  <2>1. /\ end \in 1 .. Len(b.rest) /\ b.rest[end] = LF
        /\ \A i \in end + 1 .. Len(b.rest) : b.rest[i] # LF
    BY <1>1, <1>3, LinesEndFacts
  <2> HIDE DEF end
  <2>2. l \in Seq(InUnit) /\ Len(l) = end /\ l[end] = LF
    BY <1>1, <2>1
  <2>3. /\ ParserOK(s, end)
        /\ InHeader(s.req) => s.line = << >>
    BY <1>3, <2>1, <2>2, ReqParseFacts
  <2>4. h.req = s.req /\ h.status = s.status /\ h.buf = Advance(b, n)
    <3>1. h = [req |-> s.req, status |-> s.status, buf |-> Advance(b, n)]
      BY <1>3 DEF ParseHeader, InHeader, end
    <3> QED
      BY <3>1
  <2> HIDE DEF h, s, l
  <2>5. /\ s.used \in Nat /\ s.used <= end /\ s.status \in ParserStatus
        /\ ReqOK(s.req) /\ s.req.phase # "DONE"
        /\ s.status # 0 <=> s.req.phase = "ABORT"
    BY <2>3 DEF ParserOK, ParserType
  <2>6. n \in 0 .. Len(b.rest)
    BY <1>1, <2>1, <2>5
  <2>7. InHeader(s.req) => n = end
    <3> SUFFICES ASSUME InHeader(s.req) PROVE n = end
      OBVIOUS
    <3>1. Len(s.line) = 0 /\ s.used + Len(s.line) = end
      BY <2>3 DEF ParserOK
    <3> QED
      BY <2>5, <3>1
  <2> HIDE DEF n
  <2>8. BufOK(Advance(b, n))
    BY <2>6, AdvanceFacts
  <2>9. ASSUME InHeader(s.req) PROVE LineFree(Advance(b, n))
    <3> DEFINE a == Advance(b, n)
    <3>1. /\ Len(a.rest) = Len(b.rest) - n
          /\ \A i \in 1 .. Len(b.rest) - n : a.rest[i] = b.rest[n + i]
      BY <2>6, AdvanceFacts
    <3> HIDE DEF a
    <3>2. ASSUME NEW i \in 1 .. Len(b.rest) - n PROVE a.rest[i] # LF
      <4>1. n + i \in end + 1 .. Len(b.rest)
        BY <1>1, <2>1, <2>7, <2>9
      <4> QED
        BY <2>1, <3>1, <4>1
    <3>3. LineFree(a)
      BY <3>1, <3>2 DEF LineFree, LineFreeUpTo
    <3> QED
      BY <3>3 DEF a
  <2>10. HeaderOK(h)
    BY <2>4, <2>5, <2>8, <2>9 DEF HeaderOK
  <2> QED
    BY <2>10 DEF h
<1> QED
  BY <1>2, <1>3

(* ParseReq, on a connection that still reads its request: what is due for *)
(* the next request is kept within the capacity of last_buf.               *)
ParsedOK(r) ==
  /\ ReqOK(r.req)
  /\ BufOK(r.buf)
  /\ r.last \in Seq(InUnit) /\ Len(r.last) <= BUFSZ
  /\ r.status \in ParserStatus
  /\ r.status # 0 <=> r.req.phase = "ABORT"
  /\ InHeader(r.req) => LineFree(r.buf)

(* An empty buffer, and one that holds the units kept for the next request.*)
LEMMA NewBufFacts ==
  /\ BufOK(NewBuf)
  /\ \A units \in Seq(InUnit) : Len(units) <= BUFSZ => BufOK(BufOf(units))
  /\ \A units : BufOf(units).p = 0 /\ BufOf(units).rest = units
<1>1. \A units : BufOf(units).p = 0 /\ BufOf(units).rest = units
  BY DEF BufOf
<1>2. \A units \in Seq(InUnit) : BufOf(units) \in [p: Nat, rest: Seq(InUnit)]
  BY DEF BufOf
<1>3. ASSUME NEW units \in Seq(InUnit), Len(units) <= BUFSZ PROVE BufOK(BufOf(units))
  <2>1. 0 + Len(units) <= BUFSZ
    BY <1>3
  <2> QED
    BY <1>1, <1>2, <2>1 DEF BufOK, BufSz
<1>4. << >> \in Seq(InUnit) /\ Len(<< >>) <= BUFSZ
  BY ConnAssumption
<1> QED
  BY <1>1, <1>3, <1>4 DEF NewBuf

(* The body is counted, and cut off where it ends.                         *)
LEMMA ParseBodyFacts ==
  ASSUME NEW rq, ReqOK(rq), rq.phase = "BODY", NEW b, BufOK(b),
         NEW last \in Seq(InUnit), Len(last) <= BUFSZ
  PROVE  /\ ParsedOK(ParseBody(rq, b, last))
         /\ ParseBody(rq, b, last).req.phase \in {"BODY", "DONE"}
         /\ ParseBody(rq, b, last).req.type = rq.type
<1> DEFINE m == Len(b.rest)
           left == rq.rsize - m
           over == IF left < 0 THEN -left ELSE 0
           cut == m - over
           ph == IF left <= 0 THEN "DONE" ELSE "BODY"
           q == [rq EXCEPT !.rsize = left, !.phase = ph]
           more == SubSeq(b.rest, cut + 1, m)
           part == SubSeq(b.rest, 1, cut)
           r == ParseBody(rq, b, last)
<1>1. /\ b \in [p: Nat, rest: Seq(InUnit)] /\ b.p \in Nat /\ b.rest \in Seq(InUnit)
      /\ m \in Nat /\ b.p + m <= BUFSZ /\ BUFSZ \in Nat
  BY ConnAssumption DEF BufOK, BufSz
<1>2. rq \in ReqType /\ Located(rq) /\ rq.rsize \in Nat
  BY DEF ReqOK
<1>3. /\ left \in Int /\ cut \in 0 .. m /\ (left < 0 => m - cut = -left)
  BY <1>1, <1>2
<1>4. /\ r.req = q /\ r.status = 0
      /\ r.last \in {more, last}
      /\ r.buf \in {NewBuf, [b EXCEPT !.rest = part]}
  BY DEF ParseBody
<1>5. ph \in {"BODY", "DONE"} /\ (ph = "BODY" => left \in Nat)
  BY <1>3
<1> HIDE DEF r, ph, left, cut, m
<1>6. /\ q \in ReqType /\ q.uri = rq.uri /\ q.type = rq.type
      /\ q.phase = ph /\ q.rsize = left
  BY <1>2, <1>3, <1>5 DEF ReqType
<1>7. ReqOK(q)
  BY <1>2, <1>5, <1>6 DEF ReqOK, Located
<1>8. more \in Seq(InUnit) /\ Len(more) <= BUFSZ
  <2>1. \A i \in cut + 1 .. m : b.rest[i] \in InUnit
    BY <1>1, <1>3 DEF m
  <2>2. cut + 1 \in Int /\ m \in Int
    BY <1>1, <1>3
  <2>3. more \in Seq(InUnit) /\ Len(more) = IF cut + 1 <= m THEN m - (cut + 1) + 1 ELSE 0
    BY <2>1, <2>2, SubSeqProperties
  <2> QED
    BY <1>1, <1>3, <2>3
<1>9. part \in Seq(InUnit) /\ Len(part) <= m /\ Len(part) \in Nat
  <2>1. \A i \in 1 .. cut : b.rest[i] \in InUnit
    BY <1>1, <1>3 DEF m
  <2>2. 1 \in Int /\ cut \in Int
    BY <1>3
  <2>3. part \in Seq(InUnit) /\ Len(part) = IF 1 <= cut THEN cut - 1 + 1 ELSE 0
    BY <2>1, <2>2, SubSeqProperties
  <2> QED
    BY <1>3, <2>3
<1> HIDE DEF more, part
<1>10. BufOK([b EXCEPT !.rest = part])
  <2> DEFINE d == [b EXCEPT !.rest = part]
  <2>1. d \in [p: Nat, rest: Seq(InUnit)] /\ d.p = b.p /\ d.rest = part
    BY <1>1, <1>9
  <2>2. b.p + Len(part) <= BUFSZ
    BY <1>1, <1>9
  <2> HIDE DEF d
  <2>3. BufOK(d)
    BY <2>1, <2>2 DEF BufOK, BufSz
  <2> QED
    BY <2>3 DEF d
<1>11. BufOK(NewBuf)
  BY NewBufFacts
<1>12. 0 \in ParserStatus
  BY DEF ParserStatus
<1> HIDE DEF q
<1>13. ParsedOK(r)
  BY <1>4, <1>5, <1>6, <1>7, <1>8, <1>10, <1>11, <1>12 DEF ParsedOK, InHeader
<1> QED
  BY <1>4, <1>5, <1>6, <1>13 DEF r

(* The same of all of cn_parse_req: the header, then the body that came with*)
(* it, and what exceeds it in last_buf.                                    *)
LEMMA ParseReqFacts ==
  ASSUME NEW rq, ReqOK(rq), rq.phase \in {"START", "HEADER", "BODY"},
         NEW b, BufOK(b), NEW from \in Nat, b.p <= from, from <= BufSz(b),
         InHeader(rq) => LineFreeUpTo(b, from - b.p),
         NEW last \in Seq(InUnit), Len(last) <= BUFSZ
  PROVE  /\ ParsedOK(ParseReq(rq, b, last, from))
         /\ rq.phase = "BODY" => /\ ParseReq(rq, b, last, from).req.type = rq.type
                                 /\ ParseReq(rq, b, last, from).req.phase \in {"BODY", "DONE"}
<1> DEFINE h == ParseHeader(rq, b, from)
           r == ParseReq(rq, b, last, from)
<1>1. HeaderOK(h)
  BY ParseHeaderFacts
<1>2. r = IF h.status = 0 /\ h.req.phase = "BODY" THEN ParseBody(h.req, h.buf, last)
          ELSE [req |-> h.req, buf |-> h.buf, last |-> last, status |-> h.status]
  BY DEF ParseReq
<1> HIDE DEF h, r
<1>0. rq.phase = "BODY" => h.req = rq /\ h.status = 0
  BY DEF ParseHeader, h
<1>3. CASE h.status = 0 /\ h.req.phase = "BODY"
  <2>1. r = ParseBody(h.req, h.buf, last)
    BY <1>2, <1>3
  <2>2. ReqOK(h.req) /\ BufOK(h.buf)
    BY <1>1 DEF HeaderOK
  <2>3. ParsedOK(r) /\ r.req.type = h.req.type /\ r.req.phase \in {"BODY", "DONE"}
    BY <1>3, <2>1, <2>2, ParseBodyFacts
  <2> QED
    BY <1>0, <2>3 DEF r
<1>4. CASE ~(h.status = 0 /\ h.req.phase = "BODY")
  <2>1. r.req = h.req /\ r.buf = h.buf /\ r.last = last /\ r.status = h.status
    BY <1>2, <1>4
  <2>2. ParsedOK(r)
    BY <1>1, <2>1 DEF HeaderOK, ParsedOK
  <2> QED
    BY <1>0, <1>4, <2>2 DEF r
<1> QED
  BY <1>3, <1>4

-----------------------------------------------------------------------------
(* Cuts of the stream                                                      *)

(* The parser does not look at the number of units read before.            *)
LEMMA ParseLineAlike ==
  ASSUME NEW s \in ParserType, NEW t \in ParserType,
         s.req = t.req, s.line = t.line, s.status = t.status
  PROVE  /\ ParseLine(s).req = ParseLine(t).req
         /\ ParseLine(s).status = ParseLine(t).status
<1>1. \A status : /\ Refuse(s, status).req = Refuse(t, status).req
                  /\ Refuse(s, status).status = Refuse(t, status).status
  BY DEF Refuse, ParserType
<1>2. StartLine(s).req = StartLine(t).req /\ StartLine(s).status = StartLine(t).status
  BY <1>1 DEF StartLine, Refuse, ParserType
<1>3. BlankLine(s).req = BlankLine(t).req /\ BlankLine(s).status = BlankLine(t).status
  BY <1>1 DEF BlankLine, ParserType
<1>4. FieldLine(s).req = FieldLine(t).req /\ FieldLine(s).status = FieldLine(t).status
  BY <1>1 DEF FieldLine, ParserType
<1> QED
  BY <1>2, <1>3, <1>4 DEF ParseLine

(* A state that differs from s in m more units counted.                    *)
Ahead(s, m) ==
  [req |-> s.req, line |-> s.line, used |-> m + s.used, status |-> s.status]

(* A parser that has consumed m more units has the same request, line and  *)
(* status.                                                                 *)
LEMMA AheadFacts ==
  ASSUME NEW s \in ParserType, NEW m \in Nat
  PROVE  /\ Ahead(s, m) \in ParserType
         /\ Ahead(s, m).req = s.req /\ Ahead(s, m).line = s.line
         /\ Ahead(s, m).used = m + s.used /\ Ahead(s, m).status = s.status
<1> DEFINE k == m + s.used
<1>1. s.used \in Nat
  BY DEF ParserType
<1>2. k \in Nat
  BY <1>1
<1>3. Ahead(s, m) = [req |-> s.req, line |-> s.line, used |-> k, status |-> s.status]
  BY DEF Ahead
<1> HIDE DEF k
<1>4. /\ Ahead(s, m) \in ParserType
      /\ Ahead(s, m).req = s.req /\ Ahead(s, m).line = s.line
      /\ Ahead(s, m).used = k /\ Ahead(s, m).status = s.status
  BY <1>2, <1>3 DEF ParserType
<1> QED
  BY <1>4 DEF k

(* A state of the parser is its four fields.                               *)
LEMMA SameParser ==
  ASSUME NEW s \in ParserType, NEW t \in ParserType,
         s.req = t.req, s.line = t.line, s.used = t.used, s.status = t.status
  PROVE  s = t
BY DEF ParserType

(* What a unit does to the parser does not depend on how much it has       *)
(* consumed before.                                                        *)
LEMMA ParseUnitAhead ==
  ASSUME NEW s, NEW n \in Nat, ParserOK(s, n), NEW u \in InUnit, NEW m \in Nat
  PROVE  ParseUnit(Ahead(s, m), u) = Ahead(ParseUnit(s, u), m)
<1> DEFINE t == Ahead(s, m)
           a == ParseUnit(s, u)
           b == ParseUnit(t, u)
<1>1. /\ s \in ParserType /\ s.used \in Nat /\ s.line \in Seq(InUnit)
      /\ Len(s.line) \in Nat
  BY DEF ParserOK, ParserType
<1>2. /\ t \in ParserType /\ t.req = s.req /\ t.line = s.line
      /\ t.used = m + s.used /\ t.status = s.status
  BY <1>1, AheadFacts
<1> HIDE DEF t
<1>3. CASE ~InHeader(s.req)
  BY <1>2, <1>3 DEF ParseUnit, InHeader, t
<1>4. CASE InHeader(s.req) /\ u # LF
  <2> DEFINE l == Append(s.line, u)
  <2>1. a = [s EXCEPT !.line = l] /\ b = [t EXCEPT !.line = l]
    BY <1>2, <1>4 DEF ParseUnit, InHeader
  <2>2. l \in Seq(InUnit)
    BY <1>1
  <2> HIDE DEF l, a, b
  <2>3. /\ a \in ParserType /\ a.req = s.req /\ a.line = l /\ a.used = s.used
        /\ a.status = s.status
    BY <1>1, <2>1, <2>2 DEF ParserType
  <2>4. /\ b \in ParserType /\ b.req = t.req /\ b.line = l /\ b.used = t.used
        /\ b.status = t.status
    BY <1>2, <2>1, <2>2 DEF ParserType
  <2>5. b = Ahead(a, m)
    BY <1>2, <2>3, <2>4, AheadFacts, SameParser
  <2> QED
    BY <2>5 DEF a, b, t
<1>5. CASE InHeader(s.req) /\ u = LF
  <2> DEFINE v == ParseLine(s)
             w == ParseLine(t)
             none == << >>
             i == s.used + Len(s.line) + 1
             j == t.used + Len(s.line) + 1
  <2>1. /\ v \in ParserType /\ v.line = s.line /\ v.used = s.used
    BY <1>5, ParseLineFacts
  <2>2. ParserOK(t, m + n)
    <3>1. /\ ReqOK(s.req) /\ s.req.phase # "DONE" /\ s.used <= n
          /\ s.used + Len(s.line) = n
          /\ s.status # 0 <=> s.req.phase = "ABORT"
      BY <1>5 DEF ParserOK
    <3>2. t.used <= m + n /\ t.used + Len(t.line) = m + n
      BY <1>1, <1>2, <3>1
    <3> QED
      BY <1>2, <3>1, <3>2 DEF ParserOK
  <2>3. w \in ParserType /\ w.line = t.line /\ w.used = t.used
    <3>1. m + n \in Nat
      OBVIOUS
    <3> QED
      BY <1>2, <1>5, <2>2, <3>1, ParseLineFacts
  <2>4. w.req = v.req /\ w.status = v.status
    BY <1>1, <1>2, ParseLineAlike
  <2> HIDE DEF v, w
  <2>5. a = [v EXCEPT !.line = none, !.used = i] /\ b = [w EXCEPT !.line = none, !.used = j]
    BY <1>2, <1>5, <2>1, <2>3 DEF ParseUnit, InHeader, ParserType, v, w
  <2>6. i \in Nat /\ j = m + i /\ j \in Nat /\ none \in Seq(InUnit)
    BY <1>1, <1>2
  <2> HIDE DEF a, b, i, j, none
  <2>7. /\ a \in ParserType /\ a.req = v.req /\ a.line = none /\ a.used = i
        /\ a.status = v.status
    BY <2>1, <2>5, <2>6 DEF ParserType
  <2>8. /\ b \in ParserType /\ b.req = w.req /\ b.line = none /\ b.used = j
        /\ b.status = w.status
    BY <2>3, <2>5, <2>6 DEF ParserType
  <2>9. b = Ahead(a, m)
    <3>1. /\ Ahead(a, m) \in ParserType
          /\ Ahead(a, m).req = a.req /\ Ahead(a, m).line = a.line
          /\ Ahead(a, m).used = m + a.used /\ Ahead(a, m).status = a.status
      BY <2>7, AheadFacts
    <3>2. m + a.used = j
      BY <2>6, <2>7
    <3> QED
      BY <2>4, <2>7, <2>8, <3>1, <3>2, SameParser
  <2> QED
    BY <2>9 DEF a, b, t
<1> QED
  BY <1>3, <1>4, <1>5

(* What req_parse makes of the header lines that have arrived, and later of*)
(* those that follow, is what it makes of all of them at once: cn_parse_req*)
(* may be called after any whole line, however the network cuts the stream.*)
THEOREM LinesParsedInParts ==
  ASSUME NEW rq, ReqOK(rq), InHeader(rq), NEW l1 \in Seq(InUnit), NEW l2 \in Seq(InUnit),
         Len(l1) # 0, l1[Len(l1)] = LF, InHeader(ReqParse(rq, l1).req)
  PROVE  LET part == ReqParse(ReqParse(rq, l1).req, l2)
             all == ReqParse(rq, l1 \o l2)
         IN /\ all.req = part.req /\ all.status = part.status
            /\ all.used = Len(l1) + part.used
<1> DEFINE n1 == Len(l1)
           n2 == Len(l2)
           l == l1 \o l2
           mid == ReqParse(rq, l1)
           st1 == ParserStates(rq, l1)
           st2 == ParserStates(mid.req, l2)
           st == ParserStates(rq, l)
           A == {k \in Nat : k <= n1 => st[k] = st1[k]}
           B == {k \in Nat : k <= n2 => /\ ParserOK(st2[k], k)
                                        /\ st[n1 + k] = Ahead(st2[k], n1)}
<1>1. /\ n1 \in Nat \ {0} /\ n2 \in Nat /\ l \in Seq(InUnit) /\ Len(l) = n1 + n2
      /\ \A i \in 1 .. n1 : l[i] = l1[i]
      /\ \A i \in 1 .. n2 : l[n1 + i] = l2[i] /\ l2[i] \in InUnit
  BY ConcatProperties
<1>2. /\ st1[0] = ParserInit(rq)
      /\ \A n \in 1 .. n1 : st1[n] = ParseUnit(st1[n - 1], l1[n])
  BY <1>1, ParserStatesFacts
<1>3. /\ st2[0] = ParserInit(mid.req)
      /\ \A n \in 1 .. n2 : st2[n] = ParseUnit(st2[n - 1], l2[n])
  BY <1>1, ParserStatesFacts
<1>4. /\ st[0] = ParserInit(rq)
      /\ \A n \in 1 .. n1 + n2 : st[n] = ParseUnit(st[n - 1], l[n])
  <2>1. Len(l) \in Nat
    BY <1>1
  <2> HIDE DEF l
  <2>2. /\ st[0] = ParserInit(rq)
        /\ \A n \in 1 .. Len(l) : st[n] = ParseUnit(st[n - 1], l[n])
    BY <2>1, ParserStatesFacts
  <2> QED
    BY <1>1, <2>2
<1>5. /\ ParserOK(mid, n1) /\ mid.line = << >> /\ InHeader(mid.req)
      /\ ReqOK(mid.req) /\ mid = st1[n1]
  BY ReqParseFacts DEF ReqParse, ParserOK
<1>6. /\ ReqParse(mid.req, l2) = st2[n2] /\ ReqParse(rq, l) = st[n1 + n2]
  BY <1>1 DEF ReqParse
<1> HIDE DEF n1, n2, l, mid, st1, st2, st
(* The first part is parsed alike.                                         *)
<1>7. n1 \in A
  <2>1. 0 \in A
    BY <1>2, <1>4
  <2>2. ASSUME NEW k \in Nat, k \in A PROVE k + 1 \in A
    <3> SUFFICES ASSUME k + 1 <= n1 PROVE st[k + 1] = st1[k + 1]
      OBVIOUS
    <3>1. k + 1 \in 1 .. n1 /\ k + 1 \in 1 .. n1 + n2 /\ (k + 1) - 1 = k /\ k <= n1
      BY <1>1
    <3>2. /\ st1[k + 1] = ParseUnit(st1[k], l1[k + 1])
          /\ st[k + 1] = ParseUnit(st[k], l[k + 1])
      BY <1>2, <1>4, <3>1
    <3> QED
      BY <1>1, <2>2, <3>1, <3>2
  <2> HIDE DEF A
  <2> QED
    BY <1>1, <2>1, <2>2, SetInduction
<1>8. st[n1] = mid
  BY <1>1, <1>5, <1>7
(* From there on the two differ in the units counted only.                 *)
<1>9. n2 \in B
  <2>1. 0 \in B
    <3>1. ReqOK(mid.req) /\ mid.used = n1 /\ mid.status = 0 /\ mid \in ParserType
      <4>1. Len(mid.line) = 0 /\ mid.used + Len(mid.line) = n1 /\ mid.used \in Nat
        BY <1>5 DEF ParserOK, ParserType
      <4>2. mid.status = 0
        BY <1>5 DEF ParserOK, InHeader
      <4> QED
        BY <1>5, <4>1, <4>2 DEF ParserOK
    <3>2. << >> \in Seq(InUnit) /\ Len(<< >>) = 0 /\ 0 \in ParserStatus
      BY DEF ParserStatus
    <3>3. mid.req \in ReqType /\ mid.req.phase \notin {"DONE", "ABORT"}
      BY <1>5 DEF ReqOK, InHeader
    <3>4. ParserInit(mid.req) \in ParserType
      BY <3>2, <3>3 DEF ParserInit, ParserType
    <3>5. ParserOK(ParserInit(mid.req), 0)
      BY <1>5, <3>2, <3>3, <3>4 DEF ParserInit, ParserOK
    <3>6. mid = [req |-> mid.req, line |-> << >>, used |-> n1, status |-> 0]
      BY <1>5, <3>1 DEF ParserType
    <3>7. Ahead(ParserInit(mid.req), n1) = [req |-> mid.req, line |-> << >>,
                                        used |-> n1 + 0, status |-> 0]
      BY DEF Ahead, ParserInit
    <3>8. n1 + 0 = n1
      BY <1>1
    <3> QED
      BY <1>3, <1>8, <3>5, <3>6, <3>7, <3>8
  <2>2. ASSUME NEW k \in Nat, k \in B PROVE k + 1 \in B
    <3> SUFFICES ASSUME k + 1 <= n2
                 PROVE  /\ ParserOK(st2[k + 1], k + 1)
                        /\ st[n1 + (k + 1)] = Ahead(st2[k + 1], n1)
      OBVIOUS
    <3>1. /\ k + 1 \in 1 .. n2 /\ (k + 1) - 1 = k /\ k <= n2
          /\ n1 + (k + 1) \in 1 .. n1 + n2 /\ (n1 + (k + 1)) - 1 = n1 + k
      BY <1>1
    <3> DEFINE u == l2[k + 1]
               s == st2[k]
    <3>2. /\ st2[k + 1] = ParseUnit(s, u) /\ u \in InUnit
          /\ st[n1 + (k + 1)] = ParseUnit(st[n1 + k], u)
      BY <1>1, <1>3, <1>4, <3>1
    <3>3. ParserOK(s, k) /\ st[n1 + k] = Ahead(s, n1)
      BY <2>2, <3>1
    <3> HIDE DEF u, s
    <3>4. ParserOK(ParseUnit(s, u), k + 1)
      BY <3>2, <3>3, ParseUnitFacts
    <3>5. ParseUnit(Ahead(s, n1), u) = Ahead(ParseUnit(s, u), n1)
      BY <1>1, <3>2, <3>3, ParseUnitAhead
    <3> QED
      BY <3>2, <3>3, <3>4, <3>5
  <2> HIDE DEF B
  <2> QED
    BY <1>1, <2>1, <2>2, SetInduction
<1>10. st[n1 + n2] = Ahead(st2[n2], n1)
  BY <1>1, <1>9
<1> QED
  BY <1>6, <1>10 DEF Ahead, mid, n1, l
=============================================================================
