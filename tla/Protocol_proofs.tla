---------------------------- MODULE Protocol_proofs ----------------------------
(***************************************************************************)
(* Lemmas about Protocol: what validate_request makes of any faults of a   *)
(* request, and handle_command of every exception.                         *)
(***************************************************************************)
EXTENDS Protocol, TLAPS
LOCAL INSTANCE FiniteSetsExt

\* The first of a few is one of them and comes first.
LEMMA MinIsFirst ==
    ASSUME NEW S \in SUBSET (1..8), S # {}
    PROVE  Min(S) \in S /\ \A i \in S : Min(S) <= i
<1>1. ASSUME NEW m \in S, \A i \in S : m <= i
      PROVE  Min(S) \in S /\ \A i \in S : Min(S) <= i
  BY <1>1 DEF Min
<1>2. \E m \in S : \A i \in S : m <= i
  <2>. SUFFICES ASSUME \A m \in S : \E i \in S : i < m PROVE FALSE
    OBVIOUS
  <2>1. 1 \notin S
    OBVIOUS
  <2>2. 2 \notin S
    BY <2>1
  <2>3. 3 \notin S
    BY <2>1, <2>2
  <2>4. 4 \notin S
    BY <2>1, <2>2, <2>3
  <2>5. 5 \notin S
    BY <2>1, <2>2, <2>3, <2>4
  <2>6. 6 \notin S
    BY <2>1, <2>2, <2>3, <2>4, <2>5
  <2>7. 7 \notin S
    BY <2>1, <2>2, <2>3, <2>4, <2>5, <2>6
  <2>8. 8 \notin S
    BY <2>1, <2>2, <2>3, <2>4, <2>5, <2>6, <2>7
  <2>9. PICK k \in S : k \in {1, 2, 3, 4, 5, 6, 7, 8}
    <3>1. PICK k \in S : TRUE
      OBVIOUS
    <3>2. k \in 1..8
      BY <3>1
    <3>. QED
      BY <3>1, <3>2
  <2>. QED
    BY <2>1, <2>2, <2>3, <2>4, <2>5, <2>6, <2>7, <2>8, <2>9
<1>. QED
  BY <1>1, <1>2

-------------------------------------------------------------------------------
(* The except clauses *)

Exceptions == DOMAIN ClassesOf

Fitting(exc) == {i \in DOMAIN Clauses : Clauses[i].of \in {exc} \cup ClassesOf[exc]}

\* An exception is answered by the first clause that fits it.
LEMMA ClauseIs ==
    ASSUME NEW exc, NEW i \in 1..5, i \in Fitting(exc), \A j \in Fitting(exc) : i <= j,
           exc # "UnsupportedAction"
    PROVE  Caught(exc) = Answer(Clauses[i].code, Clauses[i].retryable)
<1>1. Fitting(exc) \in SUBSET (1..8)
  BY DEF Fitting, Clauses
<1>2. Min(Fitting(exc)) = i
  <2>1. Min(Fitting(exc)) \in Fitting(exc) /\ Min(Fitting(exc)) <= i
    BY <1>1, MinIsFirst
  <2>. QED
    BY <1>1, <2>1
<1>. QED
  BY <1>2 DEF Caught, Fitting

\* Only a ProtocolError is told to be an invalid request.
LEMMA CaughtIs ==
    ASSUME NEW exc \in Exceptions
    PROVE  Caught(exc).code = "invalid_request" <=> exc = "ProtocolError"
<1>1. CASE exc = "ProtocolError"
  <2>1. Fitting(exc) = {1}
    BY <1>1 DEF Fitting, Clauses, ClassesOf
  <2>2. Caught(exc) = Answer("invalid_request", FALSE)
    <3>1. Caught(exc) = Answer(Clauses[1].code, Clauses[1].retryable)
      BY <1>1, <2>1, ClauseIs
    <3>. QED
      BY <3>1 DEF Clauses
  <2>. QED
    BY <1>1, <2>2 DEF Answer
<1>2. CASE exc = "UnsupportedAction"
  <2>1. 1 \in Fitting(exc)
    BY <1>2 DEF Fitting, Clauses, ClassesOf
  <2>2. Caught(exc) = Answer("unsupported_action", FALSE)
    BY <1>2, <2>1 DEF Caught, Fitting
  <2>. QED
    BY <1>2, <2>2 DEF Answer
<1>3. CASE exc = "NotImplementedError"
  <2>1. Fitting(exc) = {2, 5}
    BY <1>3 DEF Fitting, Clauses, ClassesOf
  <2>2. Caught(exc) = Answer("not_implemented", FALSE)
    <3>1. Caught(exc) = Answer(Clauses[2].code, Clauses[2].retryable)
      BY <1>3, <2>1, ClauseIs
    <3>. QED
      BY <3>1 DEF Clauses
  <2>. QED
    BY <1>3, <2>2 DEF Answer
<1>4. CASE exc = "TapNotReadyError"
  <2>1. Fitting(exc) = {3, 5}
    BY <1>4 DEF Fitting, Clauses, ClassesOf
  <2>2. Caught(exc) = Answer("not_ready", TRUE)
    <3>1. Caught(exc) = Answer(Clauses[3].code, Clauses[3].retryable)
      BY <1>4, <2>1, ClauseIs
    <3>. QED
      BY <3>1 DEF Clauses
  <2>. QED
    BY <1>4, <2>2 DEF Answer
<1>5. CASE exc = "TimeoutError"
  <2>1. Fitting(exc) = {4}
    BY <1>5 DEF Fitting, Clauses, ClassesOf
  <2>2. Caught(exc) = Answer("timeout", TRUE)
    <3>1. Caught(exc) = Answer(Clauses[4].code, Clauses[4].retryable)
      BY <1>5, <2>1, ClauseIs
    <3>. QED
      BY <3>1 DEF Clauses
  <2>. QED
    BY <1>5, <2>2 DEF Answer
<1>6. CASE exc = "RuntimeError"
  <2>1. Fitting(exc) = {5}
    BY <1>6 DEF Fitting, Clauses, ClassesOf
  <2>2. Caught(exc) = Answer("internal_error", FALSE)
    <3>1. Caught(exc) = Answer(Clauses[5].code, Clauses[5].retryable)
      BY <1>6, <2>1, ClauseIs
    <3>. QED
      BY <3>1 DEF Clauses
  <2>. QED
    BY <1>6, <2>2 DEF Answer
<1>7. CASE exc \in {"ValueError", "OverflowError", "OtherError"}
  <2>1. Fitting(exc) = {}
    BY <1>7 DEF Fitting, Clauses, ClassesOf
  <2>2. Caught(exc) = Answer("internal_error", TRUE)
    BY <2>1 DEF Caught, Fitting
  <2>. QED
    BY <1>7, <2>2 DEF Answer
<1>. QED
  BY <1>1, <1>2, <1>3, <1>4, <1>5, <1>6, <1>7 DEF Exceptions, ClassesOf

-------------------------------------------------------------------------------
(* Validation *)

\* Faults that the code does not turn into a ProtocolError.
Escapes(f, w) ==
    \/ f = "symbol" /\ w = "malformed"
    \/ f = "price" /\ w = "huge"
    \/ f \in {"after_id", "limit", "max_age_ms"} /\ w = "infinite"

\* Faults that no check looks for.
Passes(f, w) ==
    \/ f \in {"after_id", "limit", "max_age_ms"} /\ w = "fraction"
    \/ f \in {"volume", "after_id", "max_age_ms"} /\ w = "huge"
    \/ f = "local_only" /\ w = "no_boolean"

\* A check that raises a ProtocolError or fails for escaping faults only.
Good(check) ==
    /\ check.raises \in {"ProtocolError", "ValueError", "OverflowError"}
    /\ check.raises # "ProtocolError" => \A f, w : <<f, w>> \in check.on => Escapes(f, w)

Proper(checks) ==
    /\ \E S : checks \in Seq(S)
    /\ \A i \in DOMAIN checks : Good(checks[i])

\* One of the checks fails for a fault.
Finds(checks, f, w) == \E i \in DOMAIN checks : <<f, w>> \in checks[i].on

\* The two kinds of checks.
LEMMA RefusesGood ==
    ASSUME NEW fields, NEW faults
    PROVE  /\ Good(Refuses(fields, faults))
           /\ \A f, w : <<f, w>> \in Refuses(fields, faults).on <=> f \in fields /\ w \in faults
BY DEF Good, Refuses, Raises

\* A check that lets an exception pass finds faults that escape.
LEMMA RaisesGood ==
    ASSUME NEW exc \in {"ValueError", "OverflowError"}, NEW fields, NEW faults,
           \A f \in fields : \A w \in faults : Escapes(f, w)
    PROVE  /\ Good(Raises(exc, fields, faults))
           /\ \A f, w : <<f, w>> \in Raises(exc, fields, faults).on <=> f \in fields /\ w \in faults
BY DEF Good, Raises

\* Checks one after the other.
LEMMA OneCheck ==
    ASSUME NEW c, Good(c)
    PROVE  /\ Proper(<<c>>) /\ Len(<<c>>) = 1
           /\ \A f, w : Finds(<<c>>, f, w) <=> <<f, w>> \in c.on
<1>1. <<c>> \in Seq({c}) /\ Len(<<c>>) = 1 /\ DOMAIN <<c>> = {1} /\ <<c>>[1] = c
  OBVIOUS
<1>. DEFINE checks == <<c>>
<1>. HIDE DEF checks
<1>2. Proper(checks) /\ Len(checks) = 1 /\ \A f, w : Finds(checks, f, w) <=> <<f, w>> \in c.on
  <2>1. checks \in Seq({c}) /\ Len(checks) = 1 /\ DOMAIN checks = {1} /\ checks[1] = c
    BY <1>1 DEF checks
  <2>. QED
    BY <2>1 DEF Proper, Finds
<1>. QED
  BY <1>2 DEF checks

\* Two lists of checks, one after the other, find what either finds.
LEMMA Joined ==
    ASSUME NEW s, NEW t, Proper(s), Proper(t)
    PROVE  /\ Proper(s \o t) /\ Len(s \o t) = Len(s) + Len(t)
           /\ \A f, w : Finds(s \o t, f, w) <=> Finds(s, f, w) \/ Finds(t, f, w)
<1>1. PICK S, T : s \in Seq(S) /\ t \in Seq(T)
  BY DEF Proper
<1>2. s \in Seq(S \cup T) /\ t \in Seq(S \cup T)
  BY <1>1
<1>3. /\ s \o t \in Seq(S \cup T) /\ Len(s \o t) = Len(s) + Len(t)
      /\ \A i \in DOMAIN s : i \in DOMAIN (s \o t) /\ (s \o t)[i] = s[i]
      /\ \A i \in DOMAIN t : Len(s) + i \in DOMAIN (s \o t) /\ (s \o t)[Len(s) + i] = t[i]
      /\ \A i \in DOMAIN (s \o t) :
            i \in DOMAIN s \/ (i - Len(s) \in DOMAIN t /\ (s \o t)[i] = t[i - Len(s)])
  BY <1>2
<1>4. Proper(s \o t)
  BY <1>3 DEF Proper
<1>5. ASSUME NEW f, NEW w
      PROVE  Finds(s \o t, f, w) <=> Finds(s, f, w) \/ Finds(t, f, w)
  <2>1. ASSUME Finds(s, f, w) PROVE Finds(s \o t, f, w)
    BY <1>3, <2>1 DEF Finds
  <2>2. ASSUME Finds(t, f, w) PROVE Finds(s \o t, f, w)
    BY <1>3, <2>2 DEF Finds
  <2>3. ASSUME Finds(s \o t, f, w) PROVE Finds(s, f, w) \/ Finds(t, f, w)
    BY <1>3, <2>3 DEF Finds
  <2>. QED
    BY <2>1, <2>2, <2>3
<1>. QED
  BY <1>3, <1>4, <1>5

\* Two checks find what either finds.
LEMMA TwoChecks ==
    ASSUME NEW c, NEW d,
           Good(c), Good(d)
    PROVE  /\ Proper(<<c, d>>) /\ Len(<<c, d>>) = 2
           /\ \A f, w : Finds(<<c, d>>, f, w) <=>
                 <<f, w>> \in c.on \/ <<f, w>> \in d.on
<1>. DEFINE checks == <<c, d>>
<1>1. /\ checks \in Seq({c, d}) /\ Len(checks) = 2 /\ DOMAIN checks = 1..2
      /\ checks[1] = c /\ checks[2] = d
  OBVIOUS
<1>. HIDE DEF checks
<1>2. 1..2 = {1, 2}
  OBVIOUS
<1>3. Proper(checks)
  BY <1>1, <1>2 DEF Proper
<1>4. ASSUME NEW f, NEW w
      PROVE  Finds(checks, f, w) <=>
                <<f, w>> \in c.on \/ <<f, w>> \in d.on
  BY <1>1, <1>2 DEF Finds
<1>. QED
  BY <1>1, <1>3, <1>4 DEF checks

\* Six checks find what any of them finds.
LEMMA SixChecks ==
    ASSUME NEW a, NEW b, NEW c, NEW d, NEW e, NEW g,
           Good(a), Good(b), Good(c), Good(d), Good(e), Good(g)
    PROVE  /\ Proper(<<a, b, c, d, e, g>>) /\ Len(<<a, b, c, d, e, g>>) = 6
           /\ \A f, w : Finds(<<a, b, c, d, e, g>>, f, w) <=>
                 \/ <<f, w>> \in a.on \/ <<f, w>> \in b.on \/ <<f, w>> \in c.on
                 \/ <<f, w>> \in d.on \/ <<f, w>> \in e.on \/ <<f, w>> \in g.on
<1>. DEFINE checks == <<a, b, c, d, e, g>>
<1>1. /\ checks \in Seq({a, b, c, d, e, g}) /\ Len(checks) = 6 /\ DOMAIN checks = 1..6
      /\ checks[1] = a /\ checks[2] = b /\ checks[3] = c /\ checks[4] = d /\ checks[5] = e /\ checks[6] = g
  OBVIOUS
<1>. HIDE DEF checks
<1>2. 1..6 = {1, 2, 3, 4, 5, 6}
  OBVIOUS
<1>3. Proper(checks)
  BY <1>1, <1>2 DEF Proper
<1>4. ASSUME NEW f, NEW w
      PROVE  Finds(checks, f, w) <=>
                \/ <<f, w>> \in a.on \/ <<f, w>> \in b.on \/ <<f, w>> \in c.on
                \/ <<f, w>> \in d.on \/ <<f, w>> \in e.on \/ <<f, w>> \in g.on
  BY <1>1, <1>2 DEF Finds
<1>. QED
  BY <1>1, <1>3, <1>4 DEF checks


-------------------------------------------------------------------------------
(* The checks of the actions find every fault of their fields but those    *)
(* that pass                                                               *)

\* The client and strategy ids: missing, no text, or blank.
LEMMA IdentityFinds ==
    /\ Proper(IdentityChecks) /\ Len(IdentityChecks) = 2
    /\ \A f, w : Finds(IdentityChecks, f, w) <=>
          f \in Id /\ w \in {"missing", "nontext", "blank"}
<1>. DEFINE c == Refuses(Id, {"missing"})
            d == Refuses(Id, {"nontext", "blank"})
<1>1. /\ Good(c) /\ \A f, w : <<f, w>> \in c.on <=> f \in Id /\ w \in {"missing"}
      /\ Good(d) /\ \A f, w : <<f, w>> \in d.on <=> f \in Id /\ w \in {"nontext", "blank"}
  BY RefusesGood
<1>2. IdentityChecks = <<c, d>>
  BY DEF IdentityChecks
<1>. HIDE DEF c, d
<1>. QED
  BY <1>1, <1>2, TwoChecks

\* A list of symbols.
LEMMA SymbolsFinds ==
    /\ Proper(SymbolsChecks) /\ Len(SymbolsChecks) = 3
    /\ \A f \in Id \cup {"symbols"} : \A w \in FaultsOf[f] :
          Finds(SymbolsChecks, f, w) <=> ~Passes(f, w)
<1>. DEFINE c == Refuses({"symbols"}, {"missing", "no_list", "malformed", "empty"})
            s == <<c>>
<1>1. /\ Good(c)
      /\ \A f, w : <<f, w>> \in c.on <=>
            f \in {"symbols"} /\ w \in {"missing", "no_list", "malformed", "empty"}
  BY RefusesGood
<1>2. SymbolsChecks = IdentityChecks \o s
  BY DEF SymbolsChecks
<1>. HIDE DEF c
<1>3. Proper(s) /\ Len(s) = 1 /\ \A f, w : Finds(s, f, w) <=> <<f, w>> \in c.on
  BY <1>1, OneCheck
<1>. HIDE DEF s
<1>4. /\ Proper(SymbolsChecks) /\ Len(SymbolsChecks) = Len(IdentityChecks) + Len(s)
      /\ \A f, w : Finds(SymbolsChecks, f, w) <=> Finds(IdentityChecks, f, w) \/ Finds(s, f, w)
  BY <1>2, <1>3, IdentityFinds, Joined
<1>5. FaultsOf["identity"] = {"missing", "nontext", "blank"}
      /\ FaultsOf["symbols"] = {"missing", "no_list", "malformed", "empty"}
  BY DEF FaultsOf
<1>6. Len(SymbolsChecks) = 3
  BY <1>3, <1>4, IdentityFinds
<1>. QED
  BY <1>1, <1>3, <1>4, <1>5, <1>6, IdentityFinds DEF Id, Passes

\* An order: a malformed symbol and a huge price escape, a huge volume passes.
LEMMA PlaceOrderFinds ==
    /\ Proper(PlaceOrderChecks) /\ Len(PlaceOrderChecks) = 8
    /\ \A f \in Id \cup OrderFields : \A w \in FaultsOf[f] :
          Finds(PlaceOrderChecks, f, w) <=> ~Passes(f, w)
<1>. DEFINE c1 == Refuses(OrderFields, {"missing"})
            c2 == Raises("ValueError", {"symbol"}, {"malformed"})
            c3 == Refuses({"price", "direction"}, {"boolean", "unknown", "no_number"})
            c4 == Raises("OverflowError", {"price"}, {"huge"})
            c5 == Refuses({"volume"}, {"boolean", "no_number", "infinite", "fraction"})
            c6 == Refuses({"price", "volume"}, {"infinite", "not_positive"})
            s  == <<c1, c2, c3, c4, c5, c6>>
<1>1. Good(c1) /\ \A f, w : <<f, w>> \in c1.on <=> f \in OrderFields /\ w \in {"missing"}
  BY RefusesGood
<1>2. Good(c2) /\ \A f, w : <<f, w>> \in c2.on <=> f \in {"symbol"} /\ w \in {"malformed"}
  BY RaisesGood DEF Escapes
<1>3. Good(c3) /\ \A f, w : <<f, w>> \in c3.on <=>
         f \in {"price", "direction"} /\ w \in {"boolean", "unknown", "no_number"}
  BY RefusesGood
<1>4. Good(c4) /\ \A f, w : <<f, w>> \in c4.on <=> f \in {"price"} /\ w \in {"huge"}
  BY RaisesGood DEF Escapes
<1>5. Good(c5) /\ \A f, w : <<f, w>> \in c5.on <=>
         f \in {"volume"} /\ w \in {"boolean", "no_number", "infinite", "fraction"}
  BY RefusesGood
<1>6. Good(c6) /\ \A f, w : <<f, w>> \in c6.on <=>
         f \in {"price", "volume"} /\ w \in {"infinite", "not_positive"}
  BY RefusesGood
<1>7. PlaceOrderChecks = IdentityChecks \o s
  BY DEF PlaceOrderChecks
<1>. HIDE DEF c1, c2, c3, c4, c5, c6
<1>8. /\ Proper(s) /\ Len(s) = 6
      /\ \A f, w : Finds(s, f, w) <=>
            \/ <<f, w>> \in c1.on \/ <<f, w>> \in c2.on \/ <<f, w>> \in c3.on
            \/ <<f, w>> \in c4.on \/ <<f, w>> \in c5.on \/ <<f, w>> \in c6.on
  BY <1>1, <1>2, <1>3, <1>4, <1>5, <1>6, SixChecks
<1>. HIDE DEF s
<1>9. /\ Proper(PlaceOrderChecks) /\ Len(PlaceOrderChecks) = Len(IdentityChecks) + Len(s)
      /\ \A f, w : Finds(PlaceOrderChecks, f, w) <=> Finds(IdentityChecks, f, w) \/ Finds(s, f, w)
  BY <1>7, <1>8, IdentityFinds, Joined
<1>10. /\ FaultsOf["identity"] = {"missing", "nontext", "blank"}
       /\ FaultsOf["symbol"] = {"missing", "malformed"}
       /\ FaultsOf["direction"] = {"missing", "unknown"}
       /\ FaultsOf["price"] = {"missing", "boolean", "no_number", "infinite", "not_positive", "huge"}
       /\ FaultsOf["volume"] = {"missing", "boolean", "no_number", "infinite", "fraction", "not_positive",
                                 "huge"}
  BY DEF FaultsOf
<1>11. \A w \in FaultsOf["identity"] : Finds(PlaceOrderChecks, "identity", w) <=> ~Passes("identity", w)
  BY <1>9, <1>10, IdentityFinds DEF Id, Passes
<1>12. \A w \in FaultsOf["symbol"] : Finds(PlaceOrderChecks, "symbol", w) <=> ~Passes("symbol", w)
  BY <1>1, <1>2, <1>8, <1>9, <1>10 DEF OrderFields, Passes
<1>13. \A w \in FaultsOf["direction"] : Finds(PlaceOrderChecks, "direction", w) <=> ~Passes("direction", w)
  BY <1>1, <1>3, <1>8, <1>9, <1>10 DEF OrderFields, Passes
<1>14. \A w \in FaultsOf["price"] : Finds(PlaceOrderChecks, "price", w) <=> ~Passes("price", w)
  <2>1. Finds(s, "price", "missing")
    BY <1>1, <1>8 DEF OrderFields
  <2>2. \A w \in {"boolean", "no_number"} : Finds(s, "price", w)
    BY <1>3, <1>8
  <2>3. Finds(s, "price", "huge")
    BY <1>4, <1>8
  <2>4. \A w \in {"infinite", "not_positive"} : Finds(s, "price", w)
    BY <1>6, <1>8
  <2>. QED
    BY <1>9, <1>10, <2>1, <2>2, <2>3, <2>4 DEF Passes
<1>15. \A w \in FaultsOf["volume"] : Finds(PlaceOrderChecks, "volume", w) <=> ~Passes("volume", w)
  <2>1. Finds(s, "volume", "missing")
    BY <1>1, <1>8 DEF OrderFields
  <2>2. \A w \in {"boolean", "no_number", "infinite", "fraction"} : Finds(s, "volume", w)
    BY <1>5, <1>8
  <2>3. Finds(s, "volume", "not_positive")
    BY <1>6, <1>8
  <2>4. ~Finds(s, "volume", "huge") /\ ~Finds(IdentityChecks, "volume", "huge")
    <3>1. /\ <<"volume", "huge">> \notin c1.on /\ <<"volume", "huge">> \notin c2.on
          /\ <<"volume", "huge">> \notin c3.on /\ <<"volume", "huge">> \notin c4.on
          /\ <<"volume", "huge">> \notin c5.on /\ <<"volume", "huge">> \notin c6.on
      BY <1>1, <1>2, <1>3, <1>4, <1>5, <1>6
    <3>2. ~Finds(IdentityChecks, "volume", "huge")
      BY IdentityFinds DEF Id
    <3>. QED
      BY <1>8, <3>1, <3>2
  <2>. QED
    BY <1>9, <1>10, <2>1, <2>2, <2>3, <2>4 DEF Passes
<1>16. Len(PlaceOrderChecks) = 8
  BY <1>8, <1>9, IdentityFinds
<1>. QED
  BY <1>9, <1>16, <1>11, <1>12, <1>13, <1>14, <1>15 DEF Id, OrderFields

\* A number: an infinite one escapes.
LEMMA NumberFinds ==
    ASSUME NEW field \in {"after_id", "limit", "max_age_ms"}
    PROVE  /\ Proper(NumberChecks(field)) /\ Len(NumberChecks(field)) = 2
           /\ \A f, w : Finds(NumberChecks(field), f, w) <=>
                 f = field /\ w \in {"boolean", "no_number", "infinite"}
<1>. DEFINE c == Refuses({field}, {"boolean", "no_number"})
            d == Raises("OverflowError", {field}, {"infinite"})
<1>1. Good(c) /\ \A f, w : <<f, w>> \in c.on <=> f \in {field} /\ w \in {"boolean", "no_number"}
  BY RefusesGood
<1>2. Good(d) /\ \A f, w : <<f, w>> \in d.on <=> f \in {field} /\ w \in {"infinite"}
  BY RaisesGood DEF Escapes
<1>3. NumberChecks(field) = <<c, d>>
  BY DEF NumberChecks
<1>. HIDE DEF c, d
<1>4. /\ Proper(<<c, d>>) /\ Len(<<c, d>>) = 2
      /\ \A f, w : Finds(<<c, d>>, f, w) <=> <<f, w>> \in c.on \/ <<f, w>> \in d.on
  <2>1. Good(c) /\ Good(d)
    BY <1>1, <1>2
  <2>. QED
    BY <2>1, TwoChecks
<1>5. ASSUME NEW f, NEW w
      PROVE  Finds(NumberChecks(field), f, w) <=>
                f = field /\ w \in {"boolean", "no_number", "infinite"}
  <2>1. Finds(NumberChecks(field), f, w) <=> <<f, w>> \in c.on \/ <<f, w>> \in d.on
    BY <1>3, <1>4
  <2>2. /\ <<f, w>> \in c.on <=> f \in {field} /\ w \in {"boolean", "no_number"}
        /\ <<f, w>> \in d.on <=> f \in {field} /\ w \in {"infinite"}
    BY <1>1, <1>2
  <2>. QED
    BY <2>1, <2>2
<1>. QED
  BY <1>3, <1>4, <1>5

\* A page of trades.
LEMMA TradesFinds ==
    /\ Proper(TradesChecks) /\ Len(TradesChecks) = 7
    /\ \A f \in Id \cup {"after_id", "limit"} : \A w \in FaultsOf[f] :
          Finds(TradesChecks, f, w) <=> ~Passes(f, w)
<1>. DEFINE c == Refuses({"after_id", "limit"}, {"negative", "not_positive", "excessive"})
            s == <<c>>
            m == NumberChecks("after_id")
            n == NumberChecks("limit")
            p == IdentityChecks \o m
            q == p \o n
<1>1. /\ Good(c)
      /\ \A f, w : <<f, w>> \in c.on <=>
            f \in {"after_id", "limit"} /\ w \in {"negative", "not_positive", "excessive"}
  BY RefusesGood
<1>2. TradesChecks = q \o s
  BY DEF TradesChecks
<1>3. /\ Proper(m) /\ Len(m) = 2
      /\ \A f, w : Finds(m, f, w) <=> f = "after_id" /\ w \in {"boolean", "no_number", "infinite"}
      /\ Proper(n) /\ Len(n) = 2
      /\ \A f, w : Finds(n, f, w) <=> f = "limit" /\ w \in {"boolean", "no_number", "infinite"}
  BY NumberFinds
<1>. HIDE DEF c, m, n
<1>4. Proper(s) /\ Len(s) = 1 /\ \A f, w : Finds(s, f, w) <=> <<f, w>> \in c.on
  BY <1>1, OneCheck
<1>5. /\ Proper(p) /\ Len(p) = Len(IdentityChecks) + Len(m)
      /\ \A f, w : Finds(p, f, w) <=> Finds(IdentityChecks, f, w) \/ Finds(m, f, w)
  BY <1>3, IdentityFinds, Joined
<1>. HIDE DEF s, p
<1>6. /\ Proper(q) /\ Len(q) = Len(p) + Len(n)
      /\ \A f, w : Finds(q, f, w) <=> Finds(p, f, w) \/ Finds(n, f, w)
  BY <1>3, <1>5, Joined
<1>. HIDE DEF q
<1>7. /\ Proper(TradesChecks) /\ Len(TradesChecks) = Len(q) + Len(s)
      /\ \A f, w : Finds(TradesChecks, f, w) <=> Finds(q, f, w) \/ Finds(s, f, w)
  BY <1>2, <1>4, <1>6, Joined
<1>8. Len(TradesChecks) = 7
  BY <1>3, <1>4, <1>5, <1>6, <1>7, IdentityFinds
<1>9. ASSUME NEW f, NEW w
      PROVE  Finds(TradesChecks, f, w) <=>
                \/ f \in Id /\ w \in {"missing", "nontext", "blank"}
                \/ f \in {"after_id", "limit"} /\ w \in {"boolean", "no_number", "infinite"}
                \/ f \in {"after_id", "limit"} /\ w \in {"negative", "not_positive", "excessive"}
  <2>1. Finds(TradesChecks, f, w) <=>
           Finds(IdentityChecks, f, w) \/ Finds(m, f, w) \/ Finds(n, f, w) \/ <<f, w>> \in c.on
    BY <1>4, <1>5, <1>6, <1>7
  <2>2. /\ Finds(m, f, w) <=> f = "after_id" /\ w \in {"boolean", "no_number", "infinite"}
        /\ Finds(n, f, w) <=> f = "limit" /\ w \in {"boolean", "no_number", "infinite"}
        /\ <<f, w>> \in c.on <=>
               f \in {"after_id", "limit"} /\ w \in {"negative", "not_positive", "excessive"}
        /\ Finds(IdentityChecks, f, w) <=> f \in Id /\ w \in {"missing", "nontext", "blank"}
    BY <1>1, <1>3, IdentityFinds
  <2>. QED
    BY <2>1, <2>2
<1>10. /\ FaultsOf["identity"] = {"missing", "nontext", "blank"}
       /\ FaultsOf["after_id"] = {"boolean", "no_number", "infinite", "fraction", "negative", "huge"}
       /\ FaultsOf["limit"] =
            {"boolean", "no_number", "infinite", "fraction", "not_positive", "excessive"}
  BY DEF FaultsOf
<1>. QED
  BY <1>7, <1>8, <1>9, <1>10 DEF Id, Passes

\* A query.
LEMMA QueryFinds ==
    /\ Proper(QueryChecks) /\ Len(QueryChecks) = 4
    /\ \A f \in QueryFields \cup {"local_only"} : \A w \in FaultsOf[f] :
          Finds(QueryChecks, f, w) <=> ~Passes(f, w)
<1>. DEFINE c == Refuses({"force_refresh"}, {"no_boolean"})
            d == Refuses({"max_age_ms"}, {"negative"})
            s == <<c>>
            t == <<d>>
            n == NumberChecks("max_age_ms")
            p == s \o n
<1>1. /\ Good(c) /\ \A f, w : <<f, w>> \in c.on <=> f \in {"force_refresh"} /\ w \in {"no_boolean"}
      /\ Good(d) /\ \A f, w : <<f, w>> \in d.on <=> f \in {"max_age_ms"} /\ w \in {"negative"}
  BY RefusesGood
<1>2. QueryChecks = p \o t
  BY DEF QueryChecks
<1>3. /\ Proper(n) /\ Len(n) = 2
      /\ \A f, w : Finds(n, f, w) <=> f = "max_age_ms" /\ w \in {"boolean", "no_number", "infinite"}
  BY NumberFinds
<1>. HIDE DEF c, d, n
<1>4. /\ Proper(s) /\ Len(s) = 1 /\ \A f, w : Finds(s, f, w) <=> <<f, w>> \in c.on
      /\ Proper(t) /\ Len(t) = 1 /\ \A f, w : Finds(t, f, w) <=> <<f, w>> \in d.on
  BY <1>1, OneCheck
<1>. HIDE DEF s, t
<1>5. /\ Proper(p) /\ Len(p) = Len(s) + Len(n)
      /\ \A f, w : Finds(p, f, w) <=> Finds(s, f, w) \/ Finds(n, f, w)
  BY <1>3, <1>4, Joined
<1>. HIDE DEF p
<1>6. /\ Proper(QueryChecks) /\ Len(QueryChecks) = Len(p) + Len(t)
      /\ \A f, w : Finds(QueryChecks, f, w) <=> Finds(p, f, w) \/ Finds(t, f, w)
  BY <1>2, <1>4, <1>5, Joined
<1>7. Len(QueryChecks) = 4
  BY <1>3, <1>4, <1>5, <1>6
<1>8. /\ FaultsOf["force_refresh"] = {"no_boolean"}
      /\ FaultsOf["max_age_ms"] =
           {"boolean", "no_number", "infinite", "fraction", "negative", "huge"}
      /\ FaultsOf["local_only"] = {"no_boolean"}
  BY DEF FaultsOf
<1>9. ASSUME NEW f, NEW w
      PROVE  Finds(QueryChecks, f, w) <=>
                \/ f = "force_refresh" /\ w = "no_boolean"
                \/ f = "max_age_ms" /\ w \in {"boolean", "no_number", "infinite", "negative"}
  <2>1. Finds(QueryChecks, f, w) <=> <<f, w>> \in c.on \/ Finds(n, f, w) \/ <<f, w>> \in d.on
    BY <1>4, <1>5, <1>6
  <2>2. /\ Finds(n, f, w) <=> f = "max_age_ms" /\ w \in {"boolean", "no_number", "infinite"}
        /\ <<f, w>> \in c.on <=> f \in {"force_refresh"} /\ w \in {"no_boolean"}
        /\ <<f, w>> \in d.on <=> f \in {"max_age_ms"} /\ w \in {"negative"}
    BY <1>1, <1>3
  <2>. QED
    BY <2>1, <2>2
<1>. QED
  BY <1>6, <1>7, <1>8, <1>9 DEF QueryFields, Passes

\* The checks of every action are proper, and for every fault of its fields one
\* fails, but for those that pass.
LEMMA ChecksFind ==
    ASSUME NEW a \in Actions
    PROVE  /\ Proper(Checks(a)) /\ Len(Checks(a)) \in 0..8
           /\ \A f \in FieldsOf[a] : \A w \in FaultsOf[f] : Finds(Checks(a), f, w) <=> ~Passes(f, w)
<1>1. CASE a \in {"subscribe_market_data", "unsubscribe_market_data"}
  <2>1. Checks(a) = SymbolsChecks
    BY <1>1 DEF Checks
  <2>2. FieldsOf[a] = Id \cup {"symbols"}
    BY <1>1 DEF FieldsOf
  <2>. QED
    BY <2>1, <2>2, SymbolsFinds
<1>2. CASE a = "place_order"
  <2>1. Checks(a) = PlaceOrderChecks
    BY <1>2 DEF Checks
  <2>2. FieldsOf[a] = Id \cup OrderFields
    BY <1>2 DEF FieldsOf
  <2>. QED
    BY <2>1, <2>2, PlaceOrderFinds
<1>3. CASE a \in {"cancel_order", "get_trade_cursor"}
  <2>1. Checks(a) = IdentityChecks
    BY <1>3 DEF Checks
  <2>2. FieldsOf[a] = Id /\ FaultsOf["identity"] = {"missing", "nontext", "blank"}
    BY <1>3 DEF FieldsOf, FaultsOf
  <2>. QED
    BY <2>1, <2>2, IdentityFinds DEF Id, Passes
<1>4. CASE a = "get_trades"
  <2>1. Checks(a) = TradesChecks
    BY <1>4 DEF Checks
  <2>2. FieldsOf[a] = Id \cup {"after_id", "limit"}
    BY <1>4 DEF FieldsOf
  <2>. QED
    BY <2>1, <2>2, TradesFinds
<1>5. CASE a = "get_local_orders"
  <2>1. Checks(a) = IdentityChecks \o QueryChecks
    BY <1>5 DEF Checks
  <2>2. /\ FieldsOf[a] = Id \cup QueryFields \cup {"local_only"}
        /\ FaultsOf["identity"] = {"missing", "nontext", "blank"}
    BY <1>5 DEF FieldsOf, FaultsOf
  <2>3. /\ Proper(Checks(a)) /\ Len(Checks(a)) = Len(IdentityChecks) + Len(QueryChecks)
        /\ \A f, w : Finds(Checks(a), f, w) <=> Finds(IdentityChecks, f, w) \/ Finds(QueryChecks, f, w)
    <3>1. Proper(IdentityChecks) /\ Proper(QueryChecks)
      BY IdentityFinds, QueryFinds
    <3>. QED
      BY <2>1, <3>1, Joined
  <2>4. Len(Checks(a)) = 6
    BY <2>3, IdentityFinds, QueryFinds
  <2>. QED
    <3>1. \A w \in FaultsOf["identity"] :
             Finds(Checks(a), "identity", w) /\ ~Passes("identity", w)
      BY <2>2, <2>3, IdentityFinds DEF Id, Passes
    <3>2. \A f \in QueryFields \cup {"local_only"} : f \notin Id
      BY DEF QueryFields, Id
    <3>3. \A f \in QueryFields \cup {"local_only"} : \A w \in FaultsOf[f] :
             Finds(Checks(a), f, w) <=> ~Passes(f, w)
      BY <2>3, <3>2, IdentityFinds, QueryFinds
    <3>. QED
      <4>1. \A f \in FieldsOf[a] : f = "identity" \/ f \in QueryFields \cup {"local_only"}
        BY <2>2 DEF Id
      <4>2. \A f \in FieldsOf[a] : \A w \in FaultsOf[f] : Finds(Checks(a), f, w) <=> ~Passes(f, w)
        BY <3>1, <3>3, <4>1
      <4>3. Len(Checks(a)) \in 0..8
        BY <2>4
      <4>. QED
        BY <2>3, <4>2, <4>3
<1>6. CASE a \in {"get_account", "get_positions", "get_orders"}
  <2>1. Checks(a) = QueryChecks
    BY <1>6 DEF Checks
  <2>2. FieldsOf[a] \subseteq QueryFields \cup {"local_only"}
    BY <1>6 DEF FieldsOf
  <2>. QED
    BY <2>1, <2>2, QueryFinds
<1>7. CASE a \in {"ping", "status"}
  <2>1. Checks(a) = <<>>
    BY <1>7 DEF Checks
  <2>2. FieldsOf[a] = {}
    BY <1>7 DEF FieldsOf
  <2>3. Proper(<<>>) /\ Len(<<>>) = 0
    <3>1. <<>> \in Seq({})
      OBVIOUS
    <3>. QED
      BY <3>1 DEF Proper
  <2>. QED
    BY <2>1, <2>2, <2>3
<1>. QED
  BY <1>1, <1>2, <1>3, <1>4, <1>5, <1>6, <1>7 DEF Actions, FieldsOf

\* However many fields of a request are wrong, and in whatever way:
\* validate_request raises something exactly if one of the faults does not
\* pass, and a ProtocolError unless one of them escapes.
LEMMA ValidationIs ==
    ASSUME NEW a \in Actions, NEW faults,
           \A x \in faults : \E f \in FieldsOf[a] : \E w \in FaultsOf[f] : x = <<f, w>>
    PROVE  /\ Validation(a, faults) \in {"none", "ProtocolError", "ValueError", "OverflowError"}
           /\ Validation(a, faults) = "none" <=> \A f, w : <<f, w>> \in faults => Passes(f, w)
           /\ (\A f, w : <<f, w>> \in faults => ~Escapes(f, w)) =>
                 Validation(a, faults) \in {"none", "ProtocolError"}
<1>. DEFINE failed == {i \in DOMAIN Checks(a) : Checks(a)[i].on \cap faults # {}}
<1>1. /\ Proper(Checks(a)) /\ Len(Checks(a)) \in 0..8
      /\ \A f \in FieldsOf[a] : \A w \in FaultsOf[f] : Finds(Checks(a), f, w) <=> ~Passes(f, w)
  BY ChecksFind
<1>2. failed \in SUBSET (1..8)
  <2>1. DOMAIN Checks(a) = 1..Len(Checks(a))
    BY <1>1 DEF Proper
  <2>. QED
    BY <1>1, <2>1
<1>3. ASSUME NEW f, NEW w, <<f, w>> \in faults, ~Passes(f, w)
      PROVE  failed # {}
  <2>1. PICK g \in FieldsOf[a] : \E v \in FaultsOf[g] : <<f, w>> = <<g, v>>
    BY <1>3
  <2>2. g = f /\ w \in FaultsOf[f]
    BY <2>1
  <2>3. PICK i \in DOMAIN Checks(a) : <<f, w>> \in Checks(a)[i].on
    BY <1>1, <1>3, <2>1, <2>2 DEF Finds
  <2>. QED
    BY <1>3, <2>3
<1>4. ASSUME NEW i \in failed
      PROVE  \E f, w : <<f, w>> \in Checks(a)[i].on /\ <<f, w>> \in faults /\ ~Passes(f, w)
  <2>1. PICK x \in Checks(a)[i].on \cap faults : TRUE
    OBVIOUS
  <2>2. PICK f \in FieldsOf[a] : \E w \in FaultsOf[f] : x = <<f, w>>
    BY <2>1
  <2>3. PICK w \in FaultsOf[f] : x = <<f, w>>
    BY <2>2
  <2>4. Finds(Checks(a), f, w)
    BY <2>1, <2>3 DEF Finds
  <2>5. ~Passes(f, w)
    BY <1>1, <2>4
  <2>. QED
    BY <2>1, <2>3, <2>5
<1>5. failed = {} => Validation(a, faults) = "none"
  BY DEF Validation
<1>6. ASSUME failed # {}
      PROVE  \E i \in failed : Validation(a, faults) = Checks(a)[i].raises
  <2>1. Min(failed) \in failed
    BY <1>2, <1>6, MinIsFirst
  <2>2. Validation(a, faults) = Checks(a)[Min(failed)].raises
    BY <1>6 DEF Validation
  <2>. QED
    BY <2>1, <2>2
<1>7. ASSUME NEW i \in failed
      PROVE  /\ Checks(a)[i].raises \in {"ProtocolError", "ValueError", "OverflowError"}
             /\ (\A f, w : <<f, w>> \in faults => ~Escapes(f, w)) =>
                   Checks(a)[i].raises = "ProtocolError"
  <2>1. Good(Checks(a)[i])
    BY <1>1 DEF Proper
  <2>. QED
    BY <1>4, <2>1 DEF Good
<1>. HIDE DEF failed
<1>8. CASE failed = {}
  BY <1>3, <1>5, <1>8
<1>9. CASE failed # {}
  <2>1. PICK i \in failed : Validation(a, faults) = Checks(a)[i].raises
    BY <1>6, <1>9
  <2>2. \E f, w : <<f, w>> \in faults /\ ~Passes(f, w)
    BY <1>4, <2>1
  <2>3. Validation(a, faults) # "none"
    BY <1>7, <2>1
  <2>. QED
    BY <1>7, <2>1, <2>2, <2>3
<1>. QED
  BY <1>8, <1>9
===============================================================================
