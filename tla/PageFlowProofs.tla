---------------------------- MODULE PageFlowProofs ----------------------------
(***************************************************************************)
(* Proofs about PageFlow, for any tabs, first requests, passwords and      *)
(* number of troubles: first what the pages read out of a URL, then that   *)
(* every exchange keeps a tab on its way.                                  *)
(***************************************************************************)
EXTENDS PageFlow, SequenceTheorems, TLAPS

USE DEF URL

\* The words of the server are parts of URLs.
LEMMA ServerParts ==
  {LoginPath, ConfirmPath, "/", "callback", "?", "&", "%3F", "%26", "then=",
   "error=", "refused", "weak", "notFirst", "expired"} \subseteq Part
BY DEF Part

-----------------------------------------------------------------------------
(***************************************************************************)
(* Reading a parameter.                                                    *)
(***************************************************************************)
LEMMA MinIs ==
  ASSUME NEW I \in SUBSET Int, NEW k \in I, \A j \in I : k <= j
  PROVE  I # {} /\ Min(I) = k
<1>1. \A x \in I : (\A y \in I : x <= y) => x = k
  OBVIOUS
<1> QED BY <1>1, Zenon DEF Min

\* The first place of a word in a URL.
LEMMA PlaceIs ==
  ASSUME NEW url \in URL, NEW word, NEW j \in Nat \ {0},
         NEW k \in j..Len(url), url[k] = word,
         \A i \in j..(k - 1) : url[i] # word
  PROVE  Place(word, url, j) = k
<1> DEFINE I == {i \in j..Len(url) : url[i] = word}
<1>1. I \in SUBSET Int /\ k \in I /\ \A i \in I : k <= i
  OBVIOUS
<1>2. I # {} /\ Min(I) = k
  <2> HIDE DEF I
  <2> QED BY <1>1, MinIs
<1> QED BY <1>2, Zenon DEF Place, SelectInSubSeq

LEMMA NoPlace ==
  ASSUME NEW url \in URL, NEW word, NEW j \in Nat \ {0},
         \A i \in j..Len(url) : url[i] # word
  PROVE  Place(word, url, j) = 0
<1>1. {i \in j..Len(url) : url[i] = word} = {}
  OBVIOUS
<1> QED BY <1>1, Zenon DEF Place, SelectInSubSeq

\* The value of a parameter goes from its name to the next bare & or the end
\* of the URL; a URL without the name has none.
LEMMA ValueIs ==
  ASSUME NEW url \in URL, NEW param, NEW from \in 2..(Len(url) + 1),
         url[from - 1] = param, \A i \in 1..(from - 2) : url[i] # param,
         NEW to \in (from - 1)..Len(url), to < Len(url) => url[to + 1] = "&",
         \A i \in from..to : url[i] # "&"
  PROVE  Value(url, param) = Unescape(SubSeq(url, from, to))
<1> DEFINE end == Place("&", url, from)
<1>1. /\ Len(url) \in Nat /\ from - 1 \in 1..Len(url) /\ from \in Nat \ {0}
      /\ (from - 1) - 1 = from - 2 /\ (from - 1) + 1 = from
  OBVIOUS
<1>2. Place(param, url, 1) = from - 1
  BY <1>1, PlaceIs
<1>3. Value(url, param) =
        Unescape(SubSeq(url, from, IF end = 0 THEN Len(url) ELSE end - 1))
  BY <1>1, <1>2 DEF Value
<1>4. CASE to < Len(url)
  <2>1. to + 1 \in from..Len(url) /\ (to + 1) - 1 = to
    BY <1>1, <1>4
  <2>2. end = to + 1
    BY <1>1, <1>4, <2>1, PlaceIs
  <2> QED BY <1>1, <1>3, <2>1, <2>2
<1>5. CASE to = Len(url)
  <2>1. end = 0
    BY <1>1, <1>5, NoPlace
  <2> QED BY <1>3, <1>5, <2>1
<1> QED BY <1>1, <1>4, <1>5

LEMMA ValueMissing ==
  ASSUME NEW url \in URL, NEW param,
         \A i \in 1..Len(url) : url[i] # param
  PROVE  Value(url, param) = <<>>
<1>1. Place(param, url, 1) = 0
  BY NoPlace
<1> QED BY <1>1 DEF Value

-----------------------------------------------------------------------------
(***************************************************************************)
(* Escaping.                                                               *)
(***************************************************************************)
LEMMA ReplaceAllIs ==
  ASSUME NEW S, NEW s \in Seq(S), NEW old, NEW new \in S
  PROVE  /\ ReplaceAll(s, old, new) \in Seq(S)
         /\ Len(ReplaceAll(s, old, new)) = Len(s)
         /\ \A i \in 1..Len(s) :
              ReplaceAll(s, old, new)[i] = IF s[i] = old THEN new ELSE s[i]
<1>1. Len(s) \in Nat /\ \A i \in 1..Len(s) : s[i] \in S
  OBVIOUS
<1>2. ReplaceAll(s, old, new) \in [1..Len(s) -> S]
  BY <1>1 DEF ReplaceAll
<1> QED BY <1>1, <1>2 DEF ReplaceAll

\* A first request that carries no escapes of its own.
Plain(then) ==
  then \in URL /\ \A i \in 1..Len(then) : then[i] \notin {"error=", "%3F", "%26"}

\* An escaped request has no & that could end it, and unescapes to itself.
LEMMA EscapeIs ==
  ASSUME NEW then, Plain(then)
  PROVE  /\ Escape(then) \in URL
         /\ Len(Escape(then)) = Len(then)
         /\ \A i \in 1..Len(then) : Escape(then)[i] \notin {"&", "error="}
         /\ Unescape(Escape(then)) = then
<1> DEFINE a == ReplaceAll(then, "?", "%3F")
           b == ReplaceAll(a, "&", "%26")
           c == ReplaceAll(b, "%3F", "?")
           d == ReplaceAll(c, "%26", "&")
<1>1. then \in URL
  BY DEF Plain
<1>2. /\ a \in URL /\ Len(a) = Len(then)
      /\ \A i \in 1..Len(then) : a[i] = IF then[i] = "?" THEN "%3F" ELSE then[i]
  BY <1>1, ServerParts, ReplaceAllIs
<1> HIDE DEF a
<1>3. /\ b \in URL /\ Len(b) = Len(then)
      /\ \A i \in 1..Len(then) : b[i] = IF a[i] = "&" THEN "%26" ELSE a[i]
  BY <1>2, ServerParts, ReplaceAllIs
<1> HIDE DEF b
<1>4. /\ c \in URL /\ Len(c) = Len(then)
      /\ \A i \in 1..Len(then) : c[i] = IF b[i] = "%3F" THEN "?" ELSE b[i]
  BY <1>3, ServerParts, ReplaceAllIs
<1> HIDE DEF c
<1>5. /\ d \in URL /\ Len(d) = Len(then)
      /\ \A i \in 1..Len(then) : d[i] = IF c[i] = "%26" THEN "&" ELSE c[i]
  BY <1>4, ServerParts, ReplaceAllIs
<1> HIDE DEF d
<1>6. Escape(then) = b /\ Unescape(b) = d
  BY DEF Escape, Unescape, a, b, c, d
<1>7. \A i \in 1..Len(then) : b[i] \notin {"&", "error="} /\ d[i] = then[i]
  BY <1>2, <1>3, <1>4, <1>5 DEF Plain
<1>8. d = then
  BY <1>1, <1>5, <1>7, SeqEqual
<1> QED BY <1>3, <1>6, <1>7, <1>8

\* A word that is no escape unescapes to itself.
LEMMA UnescapeWord ==
  ASSUME NEW w \in Part, w \notin {"%3F", "%26"}
  PROVE  Unescape(<<w>>) = <<w>>
<1> DEFINE s == <<w>>
<1>1. s \in Seq(Part) /\ Len(s) = 1 /\ s[1] = w /\ 1 \in 1..Len(s)
  OBVIOUS
<1> HIDE DEF s
<1>2. ASSUME NEW old \in {"%3F", "%26"}, NEW new \in {"?", "&"}
      PROVE  ReplaceAll(s, old, new) = s
  <2>1. /\ ReplaceAll(s, old, new) \in Seq(Part)
        /\ Len(ReplaceAll(s, old, new)) = 1
        /\ ReplaceAll(s, old, new)[1] = w
    BY <1>1, ServerParts, ReplaceAllIs
  <2> QED BY <1>1, <2>1, SeqEqual
<1> QED BY <1>2 DEF Unescape, s

-----------------------------------------------------------------------------
(***************************************************************************)
(* The forms get back what authorize and the refusals put into their URLs. *)
(***************************************************************************)
Path == {LoginPath, ConfirmPath}

LEMMA ConcatIs ==
  ASSUME NEW u \in URL, NEW v \in URL
  PROVE  /\ u \o v \in URL /\ Len(u \o v) = Len(u) + Len(v)
         /\ \A i \in 1..Len(u) : (u \o v)[i] = u[i]
         /\ \A i \in (Len(u) + 1)..(Len(u) + Len(v)) : (u \o v)[i] = v[i - Len(u)]
<1>1. Len(u) \in Nat /\ Len(v) \in Nat
  OBVIOUS
<1> QED BY <1>1, ConcatProperties

\* The URL of a form up to the end of its then parameter.
LEMMA BuildRedirectShape ==
  ASSUME NEW path \in Path, NEW then, Plain(then)
  PROVE  LET url == BuildRedirectURL(path, then) IN
         /\ url \in URL /\ Len(url) = 3 + Len(then)
         /\ url[1] = path /\ url[2] = "?" /\ url[3] = "then="
         /\ \A i \in 4..Len(url) : url[i] \notin {"&", "error="}
         /\ \A i \in 4..Len(url) : url[i] = Escape(then)[i - 3]
<1> DEFINE esc == Escape(then)
           head == <<path, "?", "then=">>
           url == BuildRedirectURL(path, then)
<1>1. /\ esc \in URL /\ Len(esc) = Len(then) /\ Len(then) \in Nat
      /\ \A i \in 1..Len(then) : esc[i] \notin {"&", "error="}
  BY EscapeIs DEF Plain
<1>2. /\ head \in URL /\ Len(head) = 3
      /\ head[1] = path /\ head[2] = "?" /\ head[3] = "then="
  BY ServerParts DEF Path, LoginPath, ConfirmPath
<1>3. url = head \o esc
  BY DEF BuildRedirectURL
<1> HIDE DEF esc, head, url
<1>4. /\ url \in URL /\ Len(url) = Len(head) + Len(esc)
      /\ \A i \in 1..Len(head) : url[i] = head[i]
      /\ \A i \in (Len(head) + 1)..(Len(head) + Len(esc)) : url[i] = esc[i - Len(head)]
  BY <1>1, <1>2, <1>3, ConcatIs
<1>5. url[1] = path /\ url[2] = "?" /\ url[3] = "then=" /\ Len(url) = 3 + Len(then)
  BY <1>1, <1>2, <1>4
<1>6. \A i \in 4..Len(url) : url[i] = esc[i - 3] /\ i - 3 \in 1..Len(then)
  BY <1>1, <1>2, <1>4
<1>7. \A i \in 4..Len(url) : url[i] \notin {"&", "error="}
  BY <1>1, <1>6
<1> QED BY <1>4, <1>5, <1>6, <1>7 DEF url, esc

\* No path is a word of a query.
LEMMA PathApart == \A path \in Path : path \notin {"then=", "error=", "&"}
BY DEF Path, LoginPath, ConfirmPath

\* The then parameter is found whole, whatever follows its end.
LEMMA ThenIs ==
  ASSUME NEW path \in Path, NEW then, Plain(then), NEW url \in URL,
         NEW n \in Nat, n = 3 + Len(then), n <= Len(url),
         \A i \in 1..n : url[i] = BuildRedirectURL(path, then)[i],
         n < Len(url) => url[n + 1] = "&"
  PROVE  QueryThen(url) = then
<1> DEFINE b == BuildRedirectURL(path, then)
<1>1. /\ Escape(then) \in URL /\ Len(Escape(then)) = Len(then) /\ Len(then) \in Nat
      /\ Unescape(Escape(then)) = then
  BY EscapeIs DEF Plain
<1>2. /\ Len(b) = n /\ b[1] = path /\ b[2] = "?" /\ b[3] = "then="
      /\ \A i \in 4..Len(b) : b[i] \notin {"&", "error="}
      /\ \A i \in 4..Len(b) : b[i] = Escape(then)[i - 3]
  BY BuildRedirectShape
<1> HIDE DEF b
<1>3. /\ url[1] = path /\ url[2] = "?" /\ url[3] = "then="
      /\ \A i \in 4..n : url[i] # "&" /\ url[i] = Escape(then)[i - 3]
  BY <1>1, <1>2 DEF b
<1>4. QueryThen(url) = Unescape(SubSeq(url, 4, n))
  <2>1. /\ 4 \in 2..(Len(url) + 1) /\ n \in (4 - 1)..Len(url)
        /\ url[4 - 1] = "then="
    BY <1>1, <1>3
  <2>2. \A i \in 1..(4 - 2) : url[i] # "then="
    BY <1>3, PathApart
  <2> QED BY <1>3, <2>1, <2>2, ValueIs DEF QueryThen
<1>5. SubSeq(url, 4, n) = Escape(then)
  <2>1. \A i \in 4..n : url[i] \in Part
    BY <1>1
  <2>2. /\ SubSeq(url, 4, n) \in URL /\ Len(SubSeq(url, 4, n)) = Len(then)
        /\ \A i \in 1..Len(then) : SubSeq(url, 4, n)[i] = url[4 + i - 1]
    BY <1>1, <2>1, SubSeqProperties
  <2>3. \A i \in 1..Len(then) : 4 + i - 1 \in 4..n /\ (4 + i - 1) - 3 = i
    BY <1>1
  <2> QED BY <1>1, <1>3, <2>2, <2>3, SeqEqual
<1> QED BY <1>1, <1>4, <1>5

LEMMA BuildRedirectIs ==
  ASSUME NEW path \in Path, NEW then, Plain(then)
  PROVE  LET url == BuildRedirectURL(path, then) IN
         /\ url \in URL /\ Len(url) >= 3 /\ url[1] = path
         /\ QueryThen(url) = then /\ QueryError(url) = <<>>
<1> DEFINE url == BuildRedirectURL(path, then)
<1>1. Len(then) \in Nat
  BY DEF Plain
<1>2. /\ url \in URL /\ Len(url) = 3 + Len(then)
      /\ url[1] = path /\ url[2] = "?" /\ url[3] = "then="
      /\ \A i \in 4..Len(url) : url[i] \notin {"&", "error="}
  BY BuildRedirectShape
<1>3. QueryThen(url) = then
  BY <1>1, <1>2, ThenIs
<1> HIDE DEF url
<1>4. \A i \in 1..Len(url) : i = 1 \/ i = 2 \/ i = 3 \/ i \in 4..Len(url)
  BY <1>1, <1>2
<1>5. \A i \in 1..Len(url) : url[i] # "error="
  BY <1>1, <1>2, <1>4, PathApart
<1>6. QueryError(url) = <<>>
  BY <1>2, <1>5, ValueMissing DEF QueryError
<1> QED BY <1>1, <1>2, <1>3, <1>6 DEF url

LEMMA WithErrorIs ==
  ASSUME NEW path \in Path, NEW then, Plain(then),
         NEW error \in {"refused", "notFirst", "expired", "weak"}
  PROVE  LET url == WithError(path, error, then) IN
         /\ url \in URL /\ Len(url) >= 3 /\ url[1] = path
         /\ QueryThen(url) = then /\ QueryError(url) = <<error>>
<1> DEFINE b == BuildRedirectURL(path, then)
           tail == <<"&", "error=", error>>
           url == WithError(path, error, then)
           n == 3 + Len(then)
<1>1. Len(then) \in Nat /\ n \in Nat /\ n >= 3
  BY DEF Plain
<1>2. /\ b \in URL /\ Len(b) = n
      /\ b[1] = path /\ b[2] = "?" /\ b[3] = "then="
      /\ \A i \in 4..n : b[i] \notin {"&", "error="}
  BY BuildRedirectShape
<1>3. /\ tail \in URL /\ Len(tail) = 3
      /\ tail[1] = "&" /\ tail[2] = "error=" /\ tail[3] = error
  BY ServerParts
<1>4. url = b \o tail
  BY DEF WithError, BuildRedirectURL
<1> HIDE DEF b, tail, url, n
<1>5. /\ url \in URL /\ Len(url) = n + 3
      /\ \A i \in 1..n : url[i] = b[i]
      /\ \A i \in (n + 1)..(n + 3) : url[i] = tail[i - n]
  <2>1. /\ url \in URL /\ Len(url) = Len(b) + Len(tail)
        /\ \A i \in 1..Len(b) : url[i] = b[i]
        /\ \A i \in (Len(b) + 1)..(Len(b) + Len(tail)) : url[i] = tail[i - Len(b)]
    BY <1>2, <1>3, <1>4, ConcatIs
  <2> QED BY <1>1, <1>2, <1>3, <2>1
<1>6. url[n + 1] = "&" /\ url[n + 2] = "error=" /\ url[n + 3] = error
  <2>1. (n + 1) - n = 1 /\ (n + 2) - n = 2 /\ (n + 3) - n = 3
    BY <1>1
  <2> QED BY <1>1, <1>3, <1>5, <2>1
<1>7. QueryThen(url) = then
  BY <1>1, <1>5, <1>6, ThenIs DEF b, n
<1>8. QueryError(url) = Unescape(SubSeq(url, n + 3, n + 3))
  <2>1. \A i \in 1..(n + 1) : i = 1 \/ i = 2 \/ i = 3 \/ i \in 4..n \/ i = n + 1
    BY <1>1
  <2>2. \A i \in 1..((n + 3) - 2) : url[i] # "error="
    BY <1>1, <1>2, <1>5, <1>6, <2>1, PathApart
  <2>3. /\ n + 3 \in 2..(Len(url) + 1) /\ n + 3 \in ((n + 3) - 1)..Len(url)
        /\ url[(n + 3) - 1] = "error="
    BY <1>1, <1>5, <1>6
  <2>4. \A i \in (n + 3)..(n + 3) : url[i] # "&"
    BY <1>1, <1>6
  <2> QED BY <1>1, <1>5, <2>2, <2>3, <2>4, ValueIs DEF QueryError
<1>9. SubSeq(url, n + 3, n + 3) = <<error>>
  <2> DEFINE sub == SubSeq(url, n + 3, n + 3)
  <2>1. \A i \in (n + 3)..(n + 3) : url[i] \in Part
    BY <1>1, <1>5
  <2>2. sub \in URL /\ Len(sub) = 1 /\ sub[1] = error
    BY <1>1, <1>6, <2>1, SubSeqProperties
  <2>3. <<error>> \in URL /\ Len(<<error>>) = 1 /\ <<error>>[1] = error
    BY ServerParts
  <2>4. \A i \in 1..Len(sub) : sub[i] = <<error>>[i]
    BY <2>2, <2>3
  <2> HIDE DEF sub
  <2>5. sub = <<error>>
    BY <2>2, <2>3, <2>4, SeqEqual
  <2> QED BY <2>5 DEF sub
<1>10. Unescape(<<error>>) = <<error>>
  BY ServerParts, UnescapeWord
<1>11. Len(url) >= 3 /\ url[1] = path
  BY <1>1, <1>2, <1>5
<1>12. QueryError(url) = <<error>>
  BY <1>8, <1>9, <1>10
<1> QED BY <1>5, <1>7, <1>11, <1>12 DEF url

-----------------------------------------------------------------------------
(***************************************************************************)
(* The URLs a tab may be sent to.                                          *)
(***************************************************************************)
LEMMA FormURLIs ==
  ASSUME NEW then, Plain(then), NEW u \in FormURLs(then)
  PROVE  /\ u \in URL /\ Len(u) >= 3 /\ u[1] \in Path
         /\ QueryThen(u) = then
         /\ QueryError(u) \in URL /\ QueryError(u) # <<"weak">>
<1>1. CASE \E path \in Path : u = BuildRedirectURL(path, then)
  <2>1. <<>> \in URL /\ <<>> # <<"weak">>
    OBVIOUS
  <2> QED BY <1>1, <2>1, BuildRedirectIs
<1>2. CASE \E path \in Path, error \in {"refused", "notFirst", "expired"} :
             u = WithError(path, error, then)
  <2>1. PICK path \in Path, error \in {"refused", "notFirst", "expired"} :
          u = WithError(path, error, then)
    BY <1>2
  <2>2. <<error>> \in URL /\ <<error>> # <<"weak">>
    BY ServerParts
  <2>3. error \in {"refused", "notFirst", "expired", "weak"}
    OBVIOUS
  <2>4. /\ u \in URL /\ Len(u) >= 3 /\ u[1] = path
        /\ QueryThen(u) = then /\ QueryError(u) = <<error>>
    BY <2>1, <2>3, WithErrorIs, Zenon
  <2> QED BY <2>2, <2>4
<1> QED BY <1>1, <1>2 DEF FormURLs, Path

\* What a client wrote is plain and leads to authorize.
LEMMA StartIs ==
  ASSUME start \in Openings, NEW t \in Tab
  PROVE  /\ Plain(start[t]) /\ start[t] \in URL
         /\ Len(start[t]) >= 1 /\ start[t][1] = Authorize
<1>1. start[t] \in Seq(Word) /\ start[t] # <<>> /\ start[t][1] = Authorize
  BY OpeningsAssumption
<1>2. \A i \in 1..Len(start[t]) : start[t][i] \in Word
  BY <1>1
<1>3. start[t] \in URL
  BY <1>1, SeqMonotonic DEF Part
<1>4. Plain(start[t])
  BY <1>2, <1>3, WordAssumption DEF Plain
<1> QED BY <1>1, <1>3, <1>4

\* The other URLs, all of one part, are none of these.
LEMMA BareURLs ==
  /\ \A u \in {Home, Callback, <<LoginPath>>, <<ConfirmPath>>} : u \in URL /\ Len(u) = 1
  /\ Home[1] = "/" /\ Callback[1] = "callback"
  /\ <<LoginPath>>[1] = LoginPath /\ <<ConfirmPath>>[1] = ConfirmPath
  /\ Home # Callback /\ Home # <<ConfirmPath>> /\ Home # <<LoginPath>>
  /\ <<LoginPath>> # <<ConfirmPath>>
BY ServerParts DEF Home, Callback, LoginPath, ConfirmPath

LEMMA PathsDiffer ==
  /\ Authorize # LoginPath /\ Authorize # ConfirmPath /\ LoginPath # ConfirmPath
  /\ \A path \in {Authorize, LoginPath, ConfirmPath} : path \notin {"/", "callback"}
BY DEF Authorize, LoginPath, ConfirmPath

LEMMA OnePartNoForm ==
  ASSUME NEW then, Plain(then), NEW u \in FormURLs(then)
  PROVE  u \notin {Home, Callback, <<LoginPath>>, <<ConfirmPath>>}
<1>1. Len(u) >= 3
  BY FormURLIs
<1>2. \A v \in {Home, Callback, <<LoginPath>>, <<ConfirmPath>>} : Len(v) = 1
  BY BareURLs
<1> SUFFICES ASSUME NEW v \in {Home, Callback, <<LoginPath>>, <<ConfirmPath>>}
             PROVE  u # v
  OBVIOUS
<1>3. Len(v) = 1
  BY <1>2
<1> HIDE DEF FormURLs
<1>4. ~ (1 >= 3)
  OBVIOUS
<1> QED BY <1>1, <1>3, <1>4, Zenon

\* The URL of the confirmation form alone has no first request to go back to.
LEMMA BareConfirm ==
  QueryThen(<<ConfirmPath>>) = <<>> /\ ~ IsValidThenURL(<<>>)
<1>1. \A i \in 1..Len(<<ConfirmPath>>) : <<ConfirmPath>>[i] # "then="
  BY DEF ConfirmPath
<1>2. QueryThen(<<ConfirmPath>>) = <<>>
  BY <1>1, BareURLs, ValueMissing DEF QueryThen
<1>3. ~ IsPrefix(<<Authorize, "?">>, <<>>)
  BY DEF IsPrefix
<1> QED BY <1>2, <1>3 DEF IsValidThenURL

\* Every password that the rule of the page lets through passes the rule of the
\* server: the page counts characters, but lets no character of several bytes
\* through.
LEMMA PageRuleSuffices ==
  ASSUME NEW p \in Password, PageRule(p)
  PROVE  CheckPasswordComplexity(p)
<1>1. p.chars \in Nat /\ p.has = {"letter", "digit", "special"}
  BY PasswordAssumption DEF PageRule
<1>2. Bytes(p) = p.chars
  BY <1>1 DEF Bytes
<1> QED BY <1>1, <1>2 DEF PageRule, CheckPasswordComplexity

-----------------------------------------------------------------------------
(***************************************************************************)
(* The invariant, tab by tab.                                              *)
(***************************************************************************)
PageFits(t, p) ==
  /\ p.token \in 0..issued
  /\ p.at \in {"login", "confirm"} =>
       IsValidThenURL(p.then) /\ p.then = start[t]
  /\ p.at = "home" => Explained(t)
  /\ p.error # <<"weak">>
  /\ ~ ended /\ p.at \in {"login", "confirm"} => p.token = csrf /\ csrf # 0
  /\ ~ ended /\ p.at = "confirm" => session # "none"

RequestFits(t, q) ==
  /\ q.method = "GET" =>
       q.url \in {start[t], Home, Callback, <<ConfirmPath>>} \cup FormURLs(start[t])
  /\ q.method = "POST" =>
       q.url \in {<<LoginPath>>, <<ConfirmPath>>} /\ q.then = start[t]
  /\ q.method = "DELETE" => q.url \in {<<ConfirmPath>>, Home} /\ q.by = "cancel"
  /\ q.method = "POST" /\ q.url = <<ConfirmPath>> =>
       q.password \in Password /\ PageRule(q.password)
  /\ ~ ended => IF q.method = "GET" THEN q.url # <<ConfirmPath>>
                ELSE q.url # Home => q.token = csrf /\ csrf # 0
  /\ ~ ended /\ q.url[1] = ConfirmPath => session # "none"
  /\ q.url = Home => Explained(t)

Globals ==
  /\ start \in Openings
  /\ session \in {"none", "first", "full"} /\ firstLogin \in BOOLEAN
  /\ issued \in 0..(MaxTrouble + 1) /\ csrf \in 0..issued
  /\ trouble \in 0..MaxTrouble /\ ended \in BOOLEAN
  /\ TokensCounted

\* A GET of authorize is the first request itself.
LEMMA AuthorizeIsStart ==
  ASSUME start \in Openings, NEW t \in Tab, NEW q, RequestFits(t, q),
         q.method = "GET", q.url[1] = Authorize
  PROVE  q.url = start[t]
<1>1. Plain(start[t])
  BY StartIs
<1>2. \A u \in FormURLs(start[t]) : u[1] # Authorize
  BY <1>1, FormURLIs, PathsDiffer DEF Path
<1> QED BY <1>2, BareURLs, PathsDiffer DEF RequestFits

TabFits(t) == PageFits(t, page[t]) /\ (req[t] # Nil => RequestFits(t, req[t]))

TabTypes == page \in [Tab -> Page] /\ req \in [Tab -> Request \cup {Nil}]

Fits == Globals /\ TabTypes /\ \A t \in Tab : TabFits(t)

LEMMA ByTab == IInv <=> Fits
<1>1. ASSUME IInv
      PROVE  Fits
  <2>1. Globals /\ TabTypes
    BY <1>1 DEF IInv, TypeOK, Globals, TabTypes
  <2>2. \A t \in Tab : PageFits(t, page[t])
    BY <1>1 DEF IInv, TypeOK, OwnStart, HomeExplained, NeverTooWeak, UpToDate,
       PageFits
  <2>3. \A t \in Tab : req[t] # Nil => RequestFits(t, req[t])
    BY <1>1 DEF IInv, OnItsWay, RuleObeyed, UpToDate, HomeKnown, RequestFits
  <2> QED BY <2>1, <2>2, <2>3 DEF TabFits, Fits
<1>2. ASSUME Fits
      PROVE  IInv
  <2>1. TypeOK
    BY <1>2 DEF Fits, Globals, TabTypes, TypeOK, TabFits, PageFits
  <2>2. OnItsWay /\ RuleObeyed /\ HomeKnown
    BY <1>2 DEF Fits, OnItsWay, RuleObeyed, HomeKnown, TabFits, RequestFits
  <2>3. UpToDate
    BY <1>2 DEF Fits, UpToDate, TabFits, PageFits, RequestFits
  <2>4. OwnStart
    BY <1>2, AuthorizeIsStart DEF Fits, OwnStart, TabFits, PageFits, Globals
  <2>5. HomeExplained /\ NeverTooWeak
    BY <1>2 DEF Fits, HomeExplained, NeverTooWeak, TabFits, PageFits
  <2> QED BY <1>2, <2>1, <2>2, <2>3, <2>4, <2>5 DEF Fits, IInv, Globals
<1> QED BY <1>1, <1>2

-----------------------------------------------------------------------------
(***************************************************************************)
(* What a step of one tab leaves to the others.                            *)
(***************************************************************************)

\* The part of a step that all tabs see: a session goes and the CSRF cookie
\* changes only when a session ends.
Surroundings ==
  /\ start' = start
  /\ session' \in {"none", "first", "full"} /\ firstLogin' \in BOOLEAN
  /\ trouble' \in 0..MaxTrouble /\ ended' \in BOOLEAN
  /\ issued' \in 0..(MaxTrouble + 1) /\ csrf' \in 0..issued'
  /\ TokensCounted'
  /\ issued <= issued' /\ (ended => ended')
  /\ ~ ended' => /\ session # "none" => session' # "none"
                 /\ csrf # 0 => csrf' = csrf

LEMMA GlobalsKept ==
  ASSUME Fits, Surroundings
  PROVE  Globals'
BY DEF Fits, Globals, Surroundings

\* What fits a tab goes on to fit it.
LEMMA PageKept ==
  ASSUME Fits, Surroundings, NEW t \in Tab, NEW p \in Page, PageFits(t, p)
  PROVE  PageFits(t, p)'
<1>1. issued \in Nat /\ issued' \in Nat /\ p.token \in 0..issued'
  BY DEF Fits, Globals, Surroundings, PageFits
<1>2. Explained(t) => Explained(t)'
  BY DEF Surroundings, Explained
<1> QED BY <1>1, <1>2 DEF Surroundings, PageFits

LEMMA RequestKept ==
  ASSUME Fits, Surroundings, NEW t \in Tab, NEW q \in Request, RequestFits(t, q)
  PROVE  RequestFits(t, q)'
<1>1. Explained(t) => Explained(t)'
  BY DEF Surroundings, Explained
<1> QED BY <1>1 DEF Surroundings, RequestFits

LEMMA TabStep ==
  ASSUME Fits, Surroundings, NEW t \in Tab,
         NEW p \in Page, page' = [page EXCEPT ![t] = p], PageFits(t, p)',
         NEW q \in Request \cup {Nil}, req' = [req EXCEPT ![t] = q],
         q # Nil => RequestFits(t, q)'
  PROVE  Fits'
<1>1. TabTypes'
  BY DEF Fits, TabTypes
<1>2. ASSUME NEW u \in Tab
      PROVE  PageFits(u, page[u])'
  <2>1. CASE u = t
    <3>1. page'[u] = p
      BY <2>1 DEF Fits, TabTypes
    <3> QED BY <2>1, <3>1 DEF PageFits
  <2>2. CASE u # t
    <3>1. page'[u] = page[u] /\ page[u] \in Page /\ PageFits(u, page[u])
      BY <2>2 DEF Fits, TabTypes, TabFits
    <3>2. PICK r \in Page : r = page[u]
      BY <3>1
    <3>3. PageFits(u, r)'
      BY <3>1, <3>2, PageKept
    <3> QED BY <3>1, <3>2, <3>3 DEF PageFits
  <2> QED BY <2>1, <2>2
<1>3. ASSUME NEW u \in Tab, req'[u] # Nil
      PROVE  RequestFits(u, req[u])'
  <2>1. CASE u = t
    <3>1. req'[u] = q
      BY <2>1 DEF Fits, TabTypes
    <3> QED BY <1>3, <2>1, <3>1 DEF RequestFits
  <2>2. CASE u # t
    <3>1. req'[u] = req[u] /\ req[u] \in Request /\ RequestFits(u, req[u])
      BY <1>3, <2>2 DEF Fits, TabTypes, TabFits
    <3>2. PICK r \in Request : r = req[u]
      BY <3>1
    <3>3. RequestFits(u, r)'
      BY <3>1, <3>2, RequestKept
    <3> QED BY <3>1, <3>2, <3>3 DEF RequestFits
  <2> QED BY <2>1, <2>2
<1>4. \A u \in Tab : TabFits(u)'
  BY <1>2, <1>3 DEF TabFits
<1> QED BY <1>1, <1>4, GlobalsKept DEF Fits

\* A step that leaves the page of its tab alone.
LEMMA RequestStep ==
  ASSUME Fits, Surroundings, NEW t \in Tab, UNCHANGED page,
         NEW q \in Request \cup {Nil}, req' = [req EXCEPT ![t] = q],
         q # Nil => RequestFits(t, q)'
  PROVE  Fits'
<1>1. PICK p \in Page : p = page[t]
  BY DEF Fits, TabTypes
<1>2. PageFits(t, p)'
  BY <1>1, PageKept DEF Fits, TabFits
<1>3. page' = [page EXCEPT ![t] = p]
  BY <1>1 DEF Fits, TabTypes
<1> QED BY <1>2, <1>3, TabStep

\* A step of nobody's tab.
LEMMA AsideStep ==
  ASSUME Fits, Surroundings, UNCHANGED <<page, req>>
  PROVE  Fits'
<1>1. CASE Tab = {}
  BY <1>1, GlobalsKept DEF Fits, TabTypes
<1>2. CASE Tab # {}
  <2>1. PICK t \in Tab : TRUE
    BY <1>2
  <2>2. PICK q \in Request \cup {Nil} : q = req[t]
    BY DEF Fits, TabTypes
  <2>3. q # Nil => RequestFits(t, q)'
    BY <2>2, RequestKept DEF Fits, TabFits
  <2>4. req' = [req EXCEPT ![t] = q]
    BY <2>2 DEF Fits, TabTypes
  <2> QED BY <2>3, <2>4, RequestStep
<1> QED BY <1>1, <1>2

-----------------------------------------------------------------------------
(***************************************************************************)
(* The answers of the server.                                              *)
(***************************************************************************)

\* What is known of a tab that waits for an answer.
LEMMA Waiting ==
  ASSUME Fits, NEW t \in Tab, req[t] # Nil
  PROVE  /\ Globals /\ start \in Openings
         /\ req[t] \in Request /\ RequestFits(t, req[t])
         /\ req[t].url \in URL /\ req[t].method \in {"GET", "POST", "DELETE"}
         /\ Plain(start[t]) /\ start[t] \in URL /\ start[t][1] = Authorize
BY StartIs DEF Fits, Globals, TabTypes, TabFits, Request

\* The request that a redirect leads to.
Following(url, by, method) == [Get(url, by) EXCEPT !.method = method]

LEMMA FollowingIs ==
  ASSUME NEW url \in URL, NEW by \in {"navigate", "submit", "cancel"},
         NEW method \in {"GET", "POST", "DELETE"}, NEW q
  PROVE  /\ q = Get(url, by) =>
              q \in Request /\ q.method = "GET" /\ q.url = url /\ q.by = by
         /\ q = Following(url, by, method) =>
              q \in Request /\ q.method = method /\ q.url = url /\ q.by = by
<1>1. <<>> \in URL /\ 0 \in Nat /\ Nil \in Password \cup {Nil}
  OBVIOUS
<1>2. ASSUME NEW m \in {"GET", "POST", "DELETE"},
             q = [method |-> m, url |-> url, by |-> by, token |-> 0,
                  then |-> <<>>, password |-> Nil]
      PROVE  q \in Request /\ q.method = m /\ q.url = url /\ q.by = by
  BY <1>1, <1>2 DEF Request
<1> QED BY <1>2 DEF Get, Following

\* A GET for one of the URLs of its way fits a tab.
LEMMA GetFits ==
  ASSUME Fits, Surroundings, NEW t \in Tab,
         NEW q, q.method = "GET",
         q.url \in {start[t], Home, Callback} \cup FormURLs(start[t]),
         q.url = Home => Explained(t)',
         ~ ended' /\ q.url[1] = ConfirmPath => session' # "none"
  PROVE  RequestFits(t, q)'
<1>1. Plain(start[t]) /\ start[t][1] = Authorize
  BY StartIs DEF Fits, Globals
<1>2. q.url # <<ConfirmPath>>
  BY <1>1, OnePartNoForm, BareURLs, PathsDiffer
<1>3. start' = start
  BY DEF Surroundings
<1> QED BY <1>2, <1>3 DEF RequestFits

LEMMA RedirectStep ==
  ASSUME Fits, Surroundings, NEW t \in Tab, req[t] # Nil,
         NEW url \in URL, Redirect(t, url),
         url \in {start[t], Home, Callback} \cup FormURLs(start[t]),
         req[t].method = "DELETE" => url = Home,
         url = Home => Explained(t)',
         ~ ended' /\ url[1] = ConfirmPath => session' # "none"
  PROVE  Fits'
<1>1. PICK r \in Request : r = req[t]
  BY Waiting
<1> DEFINE method == IF r.method = "DELETE" THEN "DELETE" ELSE "GET"
           q == [Get(url, r.by) EXCEPT !.method = method]
<1>2. UNCHANGED page /\ req' = [req EXCEPT ![t] = q]
  BY <1>1 DEF Redirect, Fits, TabTypes
<1>3. r.by \in {"navigate", "submit", "cancel"} /\ method \in {"GET", "POST", "DELETE"}
  BY DEF Request
<1> HIDE DEF method
<1>4. q = Following(url, r.by, method)
  BY DEF Following
<1> HIDE DEF q
<1>5. q \in Request /\ q.method = method /\ q.url = url /\ q.by = r.by
  BY <1>3, <1>4, FollowingIs
<1>6. RequestFits(t, q)'
  <2>1. CASE r.method = "DELETE"
    <3>1. q.method = "DELETE" /\ q.url = Home /\ Explained(t)' /\ q.by = "cancel"
      BY <1>1, <1>5, <2>1, Waiting DEF method, RequestFits
    <3>2. Home[1] # ConfirmPath
      BY BareURLs, PathsDiffer
    <3> QED BY <3>1, <3>2 DEF RequestFits
  <2>2. CASE r.method # "DELETE"
    <3>1. q.method = "GET"
      BY <1>5, <2>2 DEF method
    <3> QED BY <1>5, <3>1, GetFits
  <2> QED BY <2>1, <2>2
<1> QED BY <1>2, <1>5, <1>6, RequestStep

LEMMA ShowStep ==
  ASSUME Fits, Surroundings, NEW t \in Tab, req[t] # Nil,
         NEW shown \in Page, Show(t, shown), PageFits(t, shown)',
         req[t].method = "GET" \/ req[t].url = Home
  PROVE  Fits'
<1>1. PICK r \in Request : r = req[t]
  BY Waiting
<1>2. RequestFits(t, r) /\ RequestFits(t, r)'
  BY <1>1, Waiting, RequestKept
<1>3. CASE r.by = "navigate"
  <2>1. page' = [page EXCEPT ![t] = shown] /\ req' = [req EXCEPT ![t] = Nil]
    BY <1>1, <1>3 DEF Show
  <2> QED BY <2>1, TabStep
<1>4. CASE r.by # "navigate"
  <2> DEFINE q == Get(r.url, "navigate")
  <2>1. UNCHANGED page /\ req' = [req EXCEPT ![t] = q]
    BY <1>1, <1>4 DEF Show, Fits, TabTypes
  <2>2. q = Get(r.url, "navigate") /\ r.url \in URL
    BY DEF Request
  <2> HIDE DEF q
  <2>3. q \in Request /\ q.method = "GET" /\ q.url = r.url
    BY <2>2, FollowingIs
  <2>4. RequestFits(t, q)'
    <3>1. CASE r.method = "GET"
      BY <1>2, <2>3, <3>1 DEF RequestFits
    <3>2. CASE r.url = Home
      <4>1. Home # <<ConfirmPath>> /\ Home[1] # ConfirmPath
        BY BareURLs, PathsDiffer
      <4> QED BY <1>2, <2>3, <3>2, <4>1 DEF RequestFits
    <3> QED BY <1>1, <3>1, <3>2
  <2> QED BY <2>1, <2>3, <2>4, RequestStep
<1> QED BY <1>3, <1>4

\* A page that is no form.
LEMMA BarePage ==
  ASSUME Fits, Surroundings, NEW t \in Tab, NEW at \in {"home", "client", "blank"},
         at = "home" => Explained(t)'
  PROVE  Bare(at) \in Page /\ PageFits(t, Bare(at))'
<1>1. <<>> \in URL /\ <<>> # <<"weak">>
  OBVIOUS
<1>2. Bare(at) = [at |-> at, then |-> <<>>, token |-> 0, error |-> <<>>]
  BY DEF Bare, Closed
<1>3. 0 \in 0..issued'
  BY DEF Surroundings
<1>4. Bare(at) \in Page
  BY <1>1, <1>2 DEF Page
<1> QED BY <1>1, <1>2, <1>3, <1>4 DEF PageFits

-----------------------------------------------------------------------------
(***************************************************************************)
(* One lemma for each handler.                                             *)
(***************************************************************************)

\* Nothing of the browser and the server changes.
LEMMA Quiet ==
  ASSUME Fits,
         UNCHANGED <<session, csrf, issued, firstLogin, start, trouble, ended>>
  PROVE  Surroundings /\ Globals' /\ \A t \in Tab : Explained(t) <=> Explained(t)'
BY DEF Fits, Globals, Surroundings, TokensCounted, Explained

LEMMA AuthorizeStep ==
  ASSUME Fits, NEW t \in Tab, OAuthAuthorizeHandler(t)
  PROVE  Fits'
<1>1. /\ req[t] # Nil /\ req[t].method = "GET" /\ req[t].url[1] = Authorize
      /\ Surroundings /\ (Explained(t) <=> Explained(t)') /\ session' = session
  BY Quiet DEF OAuthAuthorizeHandler, Asks, Fine
<1>2. req[t].url = start[t]
  BY <1>1, Waiting, AuthorizeIsStart
<1>3. Plain(start[t]) /\ start[t] \in URL /\ start[t][1] = Authorize
  BY <1>1, Waiting
<1>4. CASE start[t] \in BadUri /\ Redirect(t, Home)
  BY <1>1, <1>4, RedirectStep, BareURLs, PathsDiffer DEF Explained
<1>5. CASE Show(t, Bare("blank"))
  BY <1>1, <1>5, ShowStep, BarePage
<1>6. CASE Redirect(t, BuildRedirectURL(LoginPath, start[t]))
  <2> DEFINE url == BuildRedirectURL(LoginPath, start[t])
  <2>1. url \in FormURLs(start[t])
    BY DEF FormURLs
  <2>2. url \in URL /\ url[1] = LoginPath /\ url # Home
    BY <1>3, <2>1, BuildRedirectIs, OnePartNoForm DEF Path
  <2> HIDE DEF url
  <2> QED BY <1>1, <1>6, <2>1, <2>2, RedirectStep, PathsDiffer DEF url
<1>7. CASE session = "first" /\ Redirect(t, BuildRedirectURL(ConfirmPath, start[t]))
  <2> DEFINE url == BuildRedirectURL(ConfirmPath, start[t])
  <2>1. url \in FormURLs(start[t])
    BY DEF FormURLs
  <2>2. url \in URL /\ url # Home
    BY <1>3, <2>1, BuildRedirectIs, OnePartNoForm DEF Path
  <2> HIDE DEF url
  <2> QED BY <1>1, <1>7, <2>1, <2>2, RedirectStep DEF url
<1>8. CASE Redirect(t, Callback)
  BY <1>1, <1>8, RedirectStep, BareURLs, PathsDiffer
<1>9. session \in {"none", "first", "full"}
  BY DEF Fits, Globals
<1> QED BY <1>2, <1>4, <1>5, <1>6, <1>7, <1>8, <1>9 DEF OAuthAuthorizeHandler,
       ValidateAuthorizeRequest, AuthorizeThroughSession, RedirectToPage,
       RedirectAuthorizationCodeError

\* The GET of a form is on its way, or goes to the confirmation alone, as a
\* cancellation that was refused does.
LEMMA FormRequest ==
  ASSUME Fits, NEW t \in Tab, req[t] # Nil, req[t].method = "GET",
         req[t].url[1] \in Path
  PROVE  \/ /\ QueryThen(req[t].url) = start[t]
            /\ QueryError(req[t].url) \in URL
            /\ QueryError(req[t].url) # <<"weak">>
         \/ req[t].url = <<ConfirmPath>> /\ ended
<1>1. /\ Plain(start[t]) /\ start[t][1] = Authorize
      /\ RequestFits(t, req[t])
  BY Waiting
<1>2. req[t].url \in FormURLs(start[t]) \/ req[t].url = <<ConfirmPath>>
  BY <1>1, BareURLs, PathsDiffer DEF RequestFits, Path
<1>3. CASE req[t].url \in FormURLs(start[t])
  BY <1>1, <1>3, FormURLIs
<1>4. CASE req[t].url = <<ConfirmPath>>
  BY <1>1, <1>4 DEF RequestFits
<1> QED BY <1>2, <1>3, <1>4

\* The middleware changes no token that a page has, and counts the new ones.
LEMMA Protected ==
  ASSUME Fits, Protect, Fine, UNCHANGED <<session, firstLogin, start>>
  PROVE  /\ Surroundings /\ Globals' /\ csrf' # 0
         /\ \A t \in Tab : Explained(t) <=> Explained(t)'
<1>1. /\ MaxTrouble \in Nat /\ trouble \in 0..MaxTrouble
      /\ issued \in 0..(MaxTrouble + 1) /\ csrf \in 0..issued
      /\ issued <= trouble + 1 /\ (csrf = 0 => issued <= trouble)
  BY TroubleAssumption DEF Fits, Globals, TokensCounted
<1>2. /\ issued' \in 0..(MaxTrouble + 1) /\ csrf' \in 0..issued' /\ csrf' # 0
      /\ issued <= issued' /\ issued' <= trouble + 1
      /\ csrf # 0 => csrf' = csrf
  <2>1. CASE csrf # 0 /\ UNCHANGED <<csrf, issued>>
    BY <1>1, <2>1
  <2>2. CASE csrf = 0 /\ csrf' = issued + 1 /\ issued' = issued + 1
    BY <1>1, <2>2
  <2> QED BY <2>1, <2>2 DEF Protect
<1>3. trouble' = trouble /\ ended' = ended
  BY DEF Fine
<1>4. TokensCounted'
  BY <1>2, <1>3 DEF TokensCounted
<1>5. Surroundings
  BY <1>2, <1>3, <1>4 DEF Surroundings, Fits, Globals
<1>6. \A t \in Tab : Explained(t) <=> Explained(t)'
  BY <1>3 DEF Explained
<1> QED BY <1>2, <1>5, <1>6, GlobalsKept

\* A form that goes back to the first request of its tab.
LEMMA FormStep ==
  ASSUME Fits, Surroundings, csrf' # 0, NEW t \in Tab, req[t] # Nil,
         req[t].method = "GET", NEW at \in {"login", "confirm"},
         IsValidThenURL(start[t]), QueryError(req[t].url) \in URL,
         QueryError(req[t].url) # <<"weak">>,
         at = "confirm" => session' # "none",
         Form(t, at, start[t])
  PROVE  Fits'
<1>1. PICK error \in URL : error = QueryError(req[t].url)
  OBVIOUS
<1>2. PICK token \in Nat : token = csrf'
  BY DEF Surroundings
<1>3. PICK then \in URL : then = start[t]
  BY Waiting
<1> DEFINE shown == [at |-> at, then |-> then, token |-> token, error |-> error]
<1>4. Show(t, shown)
  BY <1>1, <1>2, <1>3 DEF Form
<1>5. shown \in Page
  BY DEF Page
<1>6. PageFits(t, shown)'
  BY <1>1, <1>2, <1>3 DEF PageFits, Surroundings
<1> HIDE DEF shown
<1> QED BY <1>4, <1>5, <1>6, ShowStep

\* A redirect to the start page that has its reason.
LEMMA HomeStep ==
  ASSUME Fits, Surroundings, NEW t \in Tab, req[t] # Nil,
         Redirect(t, Home), Explained(t)'
  PROVE  Fits'
BY RedirectStep, BareURLs, PathsDiffer

LEMMA LoginFormStep ==
  ASSUME Fits, NEW t \in Tab, HandleLoginForm(t)
  PROVE  Fits'
<1>1. /\ req[t] # Nil /\ req[t].method = "GET" /\ req[t].url[1] = LoginPath
      /\ Surroundings /\ csrf' # 0 /\ (Explained(t) <=> Explained(t)')
  BY Protected DEF HandleLoginForm, Asks
<1>2. /\ QueryThen(req[t].url) = start[t]
      /\ QueryError(req[t].url) \in URL /\ QueryError(req[t].url) # <<"weak">>
  BY <1>1, FormRequest, BareURLs, PathsDiffer DEF Path
<1>3. CASE IsValidThenURL(start[t]) /\ Form(t, "login", start[t])
  BY <1>1, <1>2, <1>3, FormStep
<1>4. CASE ~ IsValidThenURL(start[t]) /\ Redirect(t, Home)
  BY <1>1, <1>4, HomeStep DEF Explained
<1> QED BY <1>2, <1>3, <1>4 DEF HandleLoginForm

LEMMA ConfirmFormStep ==
  ASSUME Fits, NEW t \in Tab, HandlePasswordConfirmForm(t)
  PROVE  Fits'
<1>1. /\ req[t] # Nil /\ req[t].method = "GET" /\ req[t].url[1] = ConfirmPath
      /\ Surroundings /\ csrf' # 0 /\ (Explained(t) <=> Explained(t)')
      /\ session' = session
  BY Protected DEF HandlePasswordConfirmForm, Asks
<1>2. CASE ended /\ req[t].url = <<ConfirmPath>>
  <2>1. ~ IsValidThenURL(QueryThen(req[t].url))
    BY <1>2, BareConfirm
  <2>2. Redirect(t, Home) /\ Explained(t)'
    BY <1>1, <1>2, <2>1 DEF HandlePasswordConfirmForm, Explained
  <2> QED BY <1>1, <2>2, HomeStep
<1>3. CASE /\ QueryThen(req[t].url) = start[t]
           /\ QueryError(req[t].url) \in URL /\ QueryError(req[t].url) # <<"weak">>
  <2>1. CASE /\ IsValidThenURL(start[t]) /\ session # "none"
             /\ Form(t, "confirm", start[t])
    BY <1>1, <1>3, <2>1, FormStep
  <2>2. CASE Redirect(t, Home) /\ ~ (IsValidThenURL(start[t]) /\ session # "none")
    <3>1. session = "none" => ended
      BY <1>1, Waiting DEF RequestFits
    <3>2. Explained(t)
      BY <2>2, <3>1 DEF Explained
    <3> QED BY <1>1, <2>2, <3>2, HomeStep
  <2> QED BY <1>3, <2>1, <2>2 DEF HandlePasswordConfirmForm
<1> QED BY <1>1, <1>2, <1>3, FormRequest DEF Path

\* A POST carries the first request of its tab, and the way back to it is open.
LEMMA Posting ==
  ASSUME Fits, NEW t \in Tab, req[t] # Nil, req[t].method = "POST"
  PROVE  /\ req[t].then = start[t] /\ req[t].url[1] \in Path
         /\ \A path \in Path : req[t].url[1] = path => req[t].url = <<path>>
BY Waiting, BareURLs, PathsDiffer DEF RequestFits, Path

LEMMA BackStep ==
  ASSUME Fits, Surroundings, NEW t \in Tab, req[t] # Nil,
         req[t].method = "POST", Redirect(t, req[t].then)
  PROVE  Fits'
<1>1. start[t] \in URL /\ start[t] # Home /\ start[t][1] # ConfirmPath
  BY Waiting, BareURLs, PathsDiffer
<1>2. Redirect(t, start[t])
  BY Posting
<1> QED BY <1>1, <1>2, RedirectStep

\* A refusal sends the tab to its form again.
LEMMA RefuseStep ==
  ASSUME Fits, Surroundings, NEW t \in Tab, req[t] # Nil,
         req[t].method = "POST", NEW path \in Path,
         NEW error \in {"refused", "notFirst", "expired"},
         Redirect(t, WithError(path, error, req[t].then)),
         ~ ended' /\ path = ConfirmPath => session' # "none"
  PROVE  Fits'
<1> DEFINE url == WithError(path, error, start[t])
<1>1. Redirect(t, url)
  BY Posting
<1>2. url \in FormURLs(start[t])
  BY DEF FormURLs, Path
<1>3. error \in {"refused", "notFirst", "expired", "weak"} /\ Plain(start[t])
  BY Waiting
<1>4. url \in URL /\ url[1] = path
  BY <1>3, WithErrorIs
<1>5. url # Home
  BY <1>2, <1>3, OnePartNoForm
<1> HIDE DEF url
<1> QED BY <1>1, <1>2, <1>4, <1>5, RedirectStep

\* Whoever has asked for the confirmation has a session that has not ended.
LEMMA Confirming ==
  ASSUME Fits, NEW t \in Tab, req[t] # Nil, req[t].url[1] = ConfirmPath,
         session = "none"
  PROVE  ended
BY Waiting DEF RequestFits

LEMMA CsrfErrorStep ==
  ASSUME Fits, NEW t \in Tab, CsrfError(t)
  PROVE  Fits'
<1>1. /\ req[t] # Nil /\ req[t].url[1] \in Path /\ req[t].token # csrf
      /\ req[t].method \in {"POST", "DELETE"}
      /\ Surroundings /\ session' = session /\ ended' = ended
  BY Protected DEF CsrfError, Outdated, Asks, Path, Fine
<1>2. CASE req[t].method = "DELETE" /\ BadRequest(t)
  <2>1. PICK r \in Request : r = req[t]
    BY <1>1, Waiting
  <2>2. r.url = <<ConfirmPath>> /\ r.by = "cancel" /\ ended
    BY <1>1, <1>2, <2>1, Waiting, BareURLs, PathsDiffer DEF RequestFits, Path
  <2> DEFINE q == Get(r.url, "navigate")
  <2>3. UNCHANGED page /\ req' = [req EXCEPT ![t] = q]
    BY <1>2, <2>1, <2>2 DEF BadRequest, Fits, TabTypes
  <2>4. q = Get(r.url, "navigate") /\ r.url \in URL
    BY DEF Request
  <2> HIDE DEF q
  <2>5. q \in Request /\ q.method = "GET" /\ q.url = <<ConfirmPath>>
    <3>1. q \in Request /\ q.method = "GET" /\ q.url = r.url
      BY <2>4, FollowingIs
    <3> QED BY <2>2, <3>1
  <2>6. RequestFits(t, q)'
    BY <1>1, <2>2, <2>5, BareURLs DEF RequestFits
  <2> QED BY <1>1, <2>3, <2>5, <2>6, RequestStep
<1>3. CASE /\ req[t].method = "POST"
           /\ Redirect(t, WithError(req[t].url[1], "expired", req[t].then))
  <2>1. PICK path \in Path : path = req[t].url[1]
    BY <1>1
  <2>2. ~ ended' /\ path = ConfirmPath => session' # "none"
    BY <1>1, <2>1, Confirming
  <2>3. Redirect(t, WithError(path, "expired", req[t].then))
    BY <1>3, <2>1
  <2> QED BY <1>1, <1>3, <2>2, <2>3, RefuseStep
<1> QED BY <1>2, <1>3 DEF CsrfError

\* A session that lasts, or comes, and perhaps another trouble.
LEMMA Browsing ==
  ASSUME Fits, UNCHANGED <<csrf, issued, ended, start>>,
         session' \in {"none", "first", "full"}, firstLogin' \in BOOLEAN,
         session # "none" => session' # "none",
         Hurt \/ UNCHANGED trouble
  PROVE  Surroundings /\ Globals' /\ \A t \in Tab : Explained(t) <=> Explained(t)'
<1>1. /\ MaxTrouble \in Nat /\ trouble \in 0..MaxTrouble
      /\ issued \in 0..(MaxTrouble + 1) /\ csrf \in 0..issued
      /\ issued <= trouble + 1 /\ (csrf = 0 => issued <= trouble)
  BY TroubleAssumption DEF Fits, Globals, TokensCounted
<1>2. trouble' \in 0..MaxTrouble /\ trouble <= trouble'
  BY <1>1 DEF Hurt
<1>3. TokensCounted'
  <2>1. issued' = issued /\ csrf' = csrf
    OBVIOUS
  <2>2. CASE trouble' = trouble
    BY <1>1, <2>1, <2>2 DEF TokensCounted
  <2>3. CASE trouble' = trouble + 1
    BY <1>1, <2>1, <2>3 DEF TokensCounted
  <2> QED BY <2>2, <2>3 DEF Hurt
<1>4. Surroundings
  BY <1>1, <1>2, <1>3 DEF Surroundings, Fits, Globals
<1> QED BY <1>4, GlobalsKept DEF Explained

LEMMA LoginStep ==
  ASSUME Fits, NEW t \in Tab, ProcessLogin(t)
  PROVE  Fits'
<1>1. /\ req[t] # Nil /\ req[t].method = "POST" /\ req[t].url[1] = LoginPath
      /\ UNCHANGED <<csrf, issued, firstLogin, ended, start>>
  BY DEF ProcessLogin, Asks, Trusted
<1>2. session \in {"none", "first", "full"} /\ firstLogin \in BOOLEAN
  BY DEF Fits, Globals
<1>3. CASE /\ Hurt /\ UNCHANGED session
           /\ Redirect(t, WithError(LoginPath, "refused", req[t].then))
  BY <1>1, <1>2, <1>3, Browsing, RefuseStep, PathsDiffer DEF Path
<1>4. CASE /\ Redirect(t, req[t].then) /\ UNCHANGED trouble
           /\ session' = IF session # "none" THEN session
                         ELSE IF firstLogin THEN "first" ELSE "full"
  <2>1. Surroundings
    BY <1>1, <1>2, <1>4, Browsing
  <2> QED BY <1>1, <1>4, <2>1, BackStep
<1> QED BY <1>3, <1>4 DEF ProcessLogin

\* No password that the page has sent is refused as too weak.
LEMMA ConfirmStep ==
  ASSUME Fits, NEW t \in Tab, ProcessPasswordConfirm(t)
  PROVE  Fits'
<1>1. /\ req[t] # Nil /\ req[t].method = "POST" /\ req[t].url[1] = ConfirmPath
      /\ UNCHANGED <<csrf, issued, start>>
  BY DEF ProcessPasswordConfirm, Asks, Trusted
<1>2. session \in {"none", "first", "full"} /\ firstLogin \in BOOLEAN
  BY DEF Fits, Globals
<1>3. CheckPasswordComplexity(req[t].password)
  <2>1. req[t].url = <<ConfirmPath>>
    BY <1>1, Posting DEF Path
  <2>2. req[t].password \in Password /\ PageRule(req[t].password)
    BY <1>1, <2>1, Waiting DEF RequestFits
  <2> QED BY <2>2, PageRuleSuffices
<1>4. CASE session = "none" /\ Redirect(t, Home) /\ Fine
           /\ UNCHANGED <<session, firstLogin>>
  <2>1. Surroundings
    BY <1>1, <1>2, <1>4, Browsing DEF Fine
  <2>2. Explained(t)'
    BY <1>1, <1>4, Confirming DEF Explained, Fine
  <2> QED BY <1>1, <1>4, <2>1, <2>2, HomeStep
<1>5. ASSUME NEW error \in {"refused", "notFirst"}, session # "none",
             Redirect(t, WithError(ConfirmPath, error, req[t].then)),
             UNCHANGED <<session, firstLogin, ended>>, Hurt \/ UNCHANGED trouble
      PROVE  Fits'
  <2>1. Surroundings
    BY <1>1, <1>2, <1>5, Browsing
  <2> QED BY <1>1, <1>5, <2>1, RefuseStep DEF Path
<1>6. CASE session # "none" /\ session' = "full" /\ firstLogin' = FALSE
           /\ Redirect(t, req[t].then) /\ Fine
  <2>1. Surroundings
    BY <1>1, <1>2, <1>6, Browsing DEF Fine
  <2> QED BY <1>1, <1>6, <2>1, BackStep
<1> QED BY <1>3, <1>4, <1>5, <1>6 DEF ProcessPasswordConfirm, Fine

\* The session goes, and perhaps the CSRF cookie with it.
LEMMA Ending ==
  ASSUME Fits, UNCHANGED <<issued, firstLogin, start>>,
         session' = "none", ended' = TRUE,
         \/ csrf' = csrf /\ UNCHANGED trouble
         \/ csrf' \in {csrf, 0} /\ Hurt
  PROVE  Surroundings /\ \A t \in Tab : Explained(t)'
<1>1. /\ MaxTrouble \in Nat /\ trouble \in 0..MaxTrouble
      /\ issued \in 0..(MaxTrouble + 1) /\ csrf \in 0..issued
      /\ issued <= trouble + 1 /\ (csrf = 0 => issued <= trouble)
      /\ issued' = issued /\ start' = start /\ firstLogin' = firstLogin
  BY TroubleAssumption DEF Fits, Globals, TokensCounted
<1>2. trouble' \in 0..MaxTrouble /\ csrf' \in 0..issued'
  BY <1>1 DEF Hurt
<1>3. TokensCounted'
  <2>1. CASE csrf' = csrf /\ trouble' = trouble
    BY <1>1, <2>1 DEF TokensCounted
  <2>2. CASE csrf' \in {csrf, 0} /\ trouble' = trouble + 1
    BY <1>1, <2>2 DEF TokensCounted
  <2> QED BY <2>1, <2>2 DEF Hurt
<1>4. Surroundings
  BY <1>1, <1>2, <1>3 DEF Surroundings, Fits, Globals
<1> QED BY <1>4 DEF Explained

LEMMA RevertStep ==
  ASSUME Fits, NEW t \in Tab, RevertPasswordConfirm(t)
  PROVE  Fits'
<1>1. /\ req[t] # Nil /\ Redirect(t, Home)
      /\ session' = "none" /\ ended' = TRUE
      /\ UNCHANGED <<csrf, issued, firstLogin, trouble, start>>
  BY DEF RevertPasswordConfirm, Asks, Trusted
<1>2. Surroundings /\ Explained(t)'
  BY <1>1, Ending
<1> QED BY <1>1, <1>2, HomeStep

LEMMA ElsewhereStep ==
  ASSUME Fits, NEW t \in Tab, Elsewhere(t)
  PROVE  Fits'
<1>1. req[t] # Nil /\ Surroundings /\ (Explained(t) <=> Explained(t)')
  BY Quiet DEF Elsewhere, Fine
<1>2. RequestFits(t, req[t]) /\ req[t].method \in {"GET", "POST", "DELETE"}
  BY <1>1, Waiting
<1>3. CASE req[t].url = Home /\ Show(t, Bare("home"))
  BY <1>1, <1>2, <1>3, BarePage, ShowStep DEF RequestFits
<1>4. CASE req[t].url = Callback /\ Show(t, Bare("client"))
  <2>1. Callback \notin {<<LoginPath>>, <<ConfirmPath>>, Home}
    BY BareURLs, PathsDiffer
  <2>2. req[t].method = "GET"
    BY <1>2, <1>4, <2>1 DEF RequestFits
  <2> QED BY <1>1, <1>4, <2>2, BarePage, ShowStep
<1> QED BY <1>3, <1>4 DEF Elsewhere

-----------------------------------------------------------------------------
(***************************************************************************)
(* One lemma for each deed of the user and of others.                      *)
(***************************************************************************)
LEMMA OpenStep ==
  ASSUME Fits, NEW t \in Tab, Open(t)
  PROVE  Fits'
<1>1. start[t] \in URL /\ start[t] # Home /\ start[t][1] # ConfirmPath
  BY StartIs, BareURLs, PathsDiffer DEF Fits, Globals
<1>2. PICK url \in URL : url = start[t]
  BY <1>1
<1> DEFINE q == Get(url, "navigate")
<1>3. Surroundings /\ UNCHANGED page /\ req' = [req EXCEPT ![t] = q]
  BY <1>2, Quiet DEF Open, Fine, Cookies
<1>4. q = Get(url, "navigate")
  OBVIOUS
<1> HIDE DEF q
<1>5. q \in Request /\ q.method = "GET" /\ q.url = url
  BY <1>4, FollowingIs
<1>6. q.url = start[t] /\ q.url # Home /\ q.url[1] # ConfirmPath
  BY <1>1, <1>2, <1>5
<1>7. RequestFits(t, q)'
  BY <1>3, <1>5, <1>6, GetFits
<1> QED BY <1>3, <1>5, <1>7, RequestStep

\* A form sends what its page has: the first request and the token.
LEMMA SubmitStep ==
  ASSUME Fits, NEW t \in Tab, Submit(t)
  PROVE  Fits'
<1>1. Surroundings /\ UNCHANGED <<page, session, csrf, ended, start>>
  BY Quiet DEF Submit, Fine, Cookies
<1>2. PICK p \in Page : p = page[t]
  BY DEF Fits, TabTypes
<1>3. /\ p.then \in URL /\ p.token \in Nat
      /\ p.at \in {"login", "confirm"} => p.then = start[t]
      /\ ~ ended /\ p.at \in {"login", "confirm"} => p.token = csrf /\ csrf # 0
      /\ ~ ended /\ p.at = "confirm" => session # "none"
  BY <1>2 DEF Fits, TabFits, PageFits, Page
<1>4. ASSUME NEW path \in Path, NEW word \in Password \cup {Nil},
             BaseURL(p) = <<path>>, Send(t, "POST", "submit", word),
             p.at \in {"login", "confirm"},
             path = ConfirmPath =>
               p.at = "confirm" /\ word \in Password /\ PageRule(word)
      PROVE  Fits'
  <2> DEFINE q == [method |-> "POST", url |-> <<path>>, by |-> "submit",
                   token |-> p.token, then |-> p.then, password |-> word]
  <2>1. req' = [req EXCEPT ![t] = q]
    BY <1>2, <1>4 DEF Send
  <2>2. <<path>> \in URL /\ <<path>> # Home /\ <<path>>[1] = path
    BY BareURLs DEF Path
  <2>3. q \in Request
    BY <1>3, <2>2 DEF Request
  <2>4. /\ q.method = "POST" /\ q.url = <<path>> /\ q.token = p.token
        /\ q.then = p.then /\ q.password = word
    OBVIOUS
  <2> HIDE DEF q
  <2>5. <<path>> \in {<<LoginPath>>, <<ConfirmPath>>}
    BY DEF Path
  <2>6. <<path>> = <<ConfirmPath>> => path = ConfirmPath
    BY <2>2, BareURLs
  <2>7. RequestFits(t, q)'
    BY <1>1, <1>3, <1>4, <2>2, <2>4, <2>5, <2>6 DEF RequestFits
  <2> QED BY <1>1, <2>1, <2>3, <2>7, RequestStep
<1>5. CASE page[t].at = "login" /\ Send(t, "POST", "submit", Nil)
  <2>1. BaseURL(p) = <<LoginPath>>
    BY <1>2, <1>5 DEF BaseURL
  <2> QED BY <1>2, <1>4, <1>5, <2>1, PathsDiffer DEF Path
<1>6. CASE /\ page[t].at = "confirm"
           /\ \E w \in Password : PageRule(w) /\ Send(t, "POST", "submit", w)
  <2>1. BaseURL(p) = <<ConfirmPath>>
    BY <1>2, <1>6 DEF BaseURL
  <2>2. PICK w \in Password : PageRule(w) /\ Send(t, "POST", "submit", w)
    BY <1>6
  <2> QED BY <1>2, <1>4, <1>6, <2>1, <2>2 DEF Path
<1> QED BY <1>5, <1>6 DEF Submit

LEMMA CancelStep ==
  ASSUME Fits, NEW t \in Tab, Cancel(t)
  PROVE  Fits'
<1>1. Surroundings /\ UNCHANGED <<page, session, csrf, ended, start>>
  BY Quiet DEF Cancel, Fine, Cookies
<1>2. PICK p \in Page : p = page[t]
  BY DEF Fits, TabTypes
<1>3. /\ p.at = "confirm" /\ p.then \in URL /\ p.token \in Nat
      /\ ~ ended => p.token = csrf /\ csrf # 0 /\ session # "none"
  BY <1>2 DEF Fits, TabFits, PageFits, Page, Cancel
<1> DEFINE q == [method |-> "DELETE", url |-> <<ConfirmPath>>, by |-> "cancel",
                 token |-> p.token, then |-> p.then, password |-> Nil]
<1>4. req' = [req EXCEPT ![t] = q]
  BY <1>2, <1>3 DEF Cancel, Send, BaseURL
<1>5. <<ConfirmPath>> \in URL /\ <<ConfirmPath>> # Home
  BY BareURLs
<1>6. q \in Request
  BY <1>3, <1>5 DEF Request
<1>7. /\ q.method = "DELETE" /\ q.url = <<ConfirmPath>> /\ q.by = "cancel"
      /\ q.token = p.token
  OBVIOUS
<1> HIDE DEF q
<1>8. RequestFits(t, q)'
  BY <1>1, <1>3, <1>5, <1>7 DEF RequestFits
<1> QED BY <1>1, <1>4, <1>6, <1>8, RequestStep

LEMMA LoseStep ==
  ASSUME Fits, NEW t \in Tab, Lose(t)
  PROVE  Fits'
<1>1. /\ UNCHANGED <<session, csrf, issued, firstLogin, start, page, ended>> /\ Hurt
      /\ req' = [req EXCEPT ![t] = Nil]
  BY DEF Lose, Cookies
<1>2. session \in {"none", "first", "full"} /\ firstLogin \in BOOLEAN
  BY DEF Fits, Globals
<1>3. Surroundings
  BY <1>1, <1>2, Browsing
<1> QED BY <1>1, <1>3, RequestStep

LEMMA EndSessionStep ==
  ASSUME Fits, EndSession
  PROVE  Fits'
<1>1. Surroundings
  BY Ending DEF EndSession
<1> QED BY <1>1, AsideStep DEF EndSession

LEMMA ResetStep ==
  ASSUME Fits, ResetElsewhere
  PROVE  Fits'
<1>1. session \in {"none", "first", "full"}
  BY DEF Fits, Globals
<1>2. Surroundings
  BY <1>1, Browsing DEF ResetElsewhere, Fine
<1> QED BY <1>2, AsideStep DEF ResetElsewhere

LEMMA StutterStep ==
  ASSUME Fits, UNCHANGED vars
  PROVE  Fits'
BY Quiet, AsideStep DEF vars

-----------------------------------------------------------------------------
(***************************************************************************)
(* The theorems.                                                           *)
(***************************************************************************)
LEMMA InitFits == Init => Fits
<1> SUFFICES ASSUME Init PROVE Fits
  OBVIOUS
<1>1. Globals
  <2>1. /\ issued \in 0..(MaxTrouble + 1) /\ csrf \in 0..issued
        /\ trouble \in 0..MaxTrouble
    BY TroubleAssumption DEF Init
  <2>2. TokensCounted
    BY DEF Init, TokensCounted
  <2> QED BY <2>1, <2>2 DEF Init, Globals
<1>2. Closed \in Page /\ \A t \in Tab : PageFits(t, Closed)
  <2>1. <<>> \in URL /\ <<>> # <<"weak">> /\ 0 \in 0..issued
    BY DEF Init
  <2> QED BY <2>1 DEF Closed, Page, PageFits
<1> QED BY <1>1, <1>2 DEF Init, Fits, TabTypes, TabFits

LEMMA NextFits == Fits /\ [Next]_vars => Fits'
<1> SUFFICES ASSUME Fits, [Next]_vars PROVE Fits'
  OBVIOUS
<1>1. ASSUME NEW t \in Tab, Exchange(t) PROVE Fits'
  BY <1>1, AuthorizeStep, LoginFormStep, ConfirmFormStep, CsrfErrorStep,
     LoginStep, ConfirmStep, RevertStep, ElsewhereStep DEF Exchange
<1>2. ASSUME NEW t \in Tab, Open(t) \/ Submit(t) \/ Cancel(t) \/ Lose(t)
      PROVE  Fits'
  BY <1>2, OpenStep, SubmitStep, CancelStep, LoseStep
<1> QED BY <1>1, <1>2, EndSessionStep, ResetStep, StutterStep DEF Next

\* Every tab is always on the way of its own first request, with pages and
\* tokens that the server still takes as long as no session ends.
THEOREM FlowInvariant == Spec => []IInv
<1>1. Spec => []Fits
  BY InitFits, NextFits, PTL DEF Spec
<1> QED BY <1>1, ByTab, PTL

\* The types, and that every form shown has a then parameter that the server
\* takes back.
THEOREM FlowTypes == Spec => []TypeOK
<1>1. IInv => TypeOK
  BY DEF IInv
<1> QED BY <1>1, FlowInvariant, PTL

\* Whatever is escaped, parsed, refused and sent again: a tab comes back to
\* authorize with the whole request its client began with, and with no other
\* tab's (login.go:149, 371, 586; oauthserver.go:100-107).
THEOREM RequestsAreKept == Spec => []OwnStart
<1>1. IInv => OwnStart
  BY DEF IInv
<1> QED BY <1>1, FlowInvariant, PTL

\* Without an end of the session only a first request that the server refuses
\* leads to the start page (login.go:150, 161, 372).
THEOREM HomeHasReason == Spec => []HomeExplained
<1>1. IInv => HomeExplained
  BY DEF IInv
<1> QED BY <1>1, FlowInvariant, PTL

\* The rule of the script is at least as strict as the rule of the server, for
\* every password: no page shows the refusal of a weak one
\* (templates.go:461-475; authenticator.go:78-105).
THEOREM NoWeakPassword == Spec => []NeverTooWeak
<1>1. IInv => NeverTooWeak
  BY DEF IInv
<1> QED BY <1>1, FlowInvariant, PTL

\* The handler, or the middleware, that a request is for.
Addressed(t) ==
  \/ \E path \in {Authorize, LoginPath, ConfirmPath} : Asks(t, "GET", path)
  \/ Outdated(t)
  \/ /\ \/ Asks(t, "POST", LoginPath)
        \/ \E method \in {"POST", "DELETE"} : Asks(t, method, ConfirmPath)
     /\ req[t].token = csrf
  \/ req[t].url \in {Home, Callback}

\* No request goes where nobody answers it, by a method that its handler does
\* not know (login.go:109-137).
THEOREM NoRequestAstray == Spec => [](\A t \in Tab : req[t] # Nil => Addressed(t))
<1>1. ASSUME Fits, NEW t \in Tab, req[t] # Nil
      PROVE  Addressed(t)
  <2>1. RequestFits(t, req[t]) /\ Plain(start[t]) /\ start[t][1] = Authorize
        /\ req[t].method \in {"GET", "POST", "DELETE"}
    BY <1>1, Waiting
  <2>2. CASE req[t].method = "GET"
    <3>1. CASE req[t].url \in FormURLs(start[t])
      BY <1>1, <2>1, <2>2, <3>1, FormURLIs DEF Addressed, Asks, Path
    <3>2. CASE req[t].url \in {start[t], Home, Callback, <<ConfirmPath>>}
      BY <1>1, <2>1, <2>2, <3>2, BareURLs DEF Addressed, Asks
    <3> QED BY <2>1, <2>2, <3>1, <3>2 DEF RequestFits
  <2>3. CASE req[t].method = "POST"
    <3>1. req[t].url[1] \in Path
      BY <1>1, <2>3, Posting
    <3> QED BY <1>1, <2>3, <3>1 DEF Addressed, Asks, Outdated, Path
  <2>4. CASE req[t].method = "DELETE"
    <3>1. req[t].url = Home \/ req[t].url[1] = ConfirmPath
      BY <2>1, <2>4, BareURLs DEF RequestFits
    <3> QED BY <1>1, <2>4, <3>1 DEF Addressed, Asks, Outdated
  <2> QED BY <2>1, <2>2, <2>3, <2>4
<1>2. Spec => []Fits
  BY InitFits, NextFits, PTL DEF Spec
<1>3. Fits => \A t \in Tab : req[t] # Nil => Addressed(t)
  BY <1>1
<1> QED BY <1>2, <1>3, PTL
=============================================================================
