-------------------------- MODULE RelayClientProofs --------------------------
(***************************************************************************)
(* Theorems about RelayClient, for every number of pages and of lines.     *)
(***************************************************************************)
EXTENDS RelayClient, TLAPS

(* The inductive invariant: lines, pages and seats agree on who is whose *)

StateTypeOK ==
  /\ page \in [Tab -> Page]
  /\ line \in [Line -> LineRecord]
  /\ seat \in [Role -> Line \cup {NoLine}]
  /\ moves \in 0 .. MaxMoves /\ closed \in 0 .. MaxClosed

\* A socket that breaks says so before it closes.
ClosesAfterError(box) ==
  \A i \in DOMAIN box : box[i].kind = "close" =>
    \E j \in DOMAIN box : j < i /\ box[j].kind = "error"

\* A line that keeps a seat is open or hung up, never waiting to reconnect: a
\* seat held by a connection that broke is given up with the error, which
\* comes before the close.
LineGood(l) ==
  /\ line[l].state = "unused" => line[l] = Unused
  /\ line[l].state # "unused" => line[l].tab \in Tab
  /\ line[l].state = "gone" => Seated(l) /\ line[l].released
  /\ Seated(l) => line[l].state \in {"open", "gone"}
  /\ Seated(l) /\ ~line[l].released => ClosesAfterError(line[l].inbox)
  /\ ~line[l].released => page[line[l].tab].current = l

PageGood(t) ==
  page[t].current # NoLine =>
    /\ line[page[t].current].tab = t
    /\ ~line[page[t].current].released
    /\ page[t].kind = "relay"
    /\ page[t].switching = 0 => line[page[t].current].role = page[t].role

SeatsGood == \A role \in Role : seat[role] # NoLine => line[seat[role]].role = role

ClientInv ==
  /\ StateTypeOK /\ SeatsGood
  /\ \A l \in Line : LineGood(l)
  /\ \A t \in Tab : PageGood(t)

-----------------------------------------------------------------------------
(* What a step may do to a line, a page and the seats *)

LEMMA LineFields ==
  ASSUME NEW x \in LineRecord
  PROVE  /\ x.tab \in Tab \cup {NoTab} /\ x.role \in Role
         /\ x.own \in BOOLEAN /\ x.released \in BOOLEAN
         /\ x.state \in {"unused", "connecting", "open", "waiting", "gone"}
         /\ x.inbox \in Seq(Events)
  BY DEF LineRecord

LEMMA UnusedLine == Unused \in LineRecord
<1>1. <<>> \in Seq(Events)
  OBVIOUS
<1> QED
  BY <1>1 DEF Unused, LineRecord, Role

LEMMA InUse ==
  ASSUME ClientInv, NEW l \in Line, ~line[l].released
  PROVE  /\ line[l].tab \in Tab /\ page[line[l].tab].current = l
         /\ line[l].state \in {"connecting", "open", "waiting"}
  BY LineFields DEF ClientInv, LineGood, Unused, StateTypeOK

LEMMA CurrentLine ==
  ASSUME ClientInv, NEW t \in Tab, page[t].current # NoLine
  PROVE  /\ page[t].current \in Line
         /\ line[page[t].current].tab = t
         /\ ~line[page[t].current].released
         /\ line[page[t].current].state \in {"connecting", "open", "waiting"}
<1>1. page[t].current \in Line
  BY DEF ClientInv, StateTypeOK, Page
<1> QED
  BY <1>1, InUse DEF ClientInv, PageGood

\* A line that stays with its page and in its seat, however its inbox changes
\* and whether or not it is flagged as released; without a seat it may be at
\* any stage of connecting.
LineStays(l) ==
  /\ line'[l].tab = line[l].tab /\ line'[l].role = line[l].role
  /\ \/ line'[l].state = line[l].state
     \/ /\ {line[l].state, line'[l].state}
              \subseteq {"connecting", "open", "waiting"}
        /\ ~Seated(l)
  /\ line[l].state = "unused" => line'[l] = line[l]
  /\ line[l].released => line'[l].released
  /\ Seated(l)' <=> Seated(l)
  /\ Seated(l) /\ ~line'[l].released => ClosesAfterError(line'[l].inbox)
  /\ ~line'[l].released => page'[line[l].tab].current = l

LEMMA StaysGood ==
  ASSUME ClientInv, NEW l \in Line, LineStays(l)
  PROVE  LineGood(l)'
  BY DEF ClientInv, LineGood, LineStays

LEMMA UntouchedStays ==
  ASSUME ClientInv, NEW l \in Line, line'[l] = line[l], Seated(l)' <=> Seated(l),
         ~line[l].released => page'[line[l].tab].current = l
  PROVE  LineStays(l)
  BY DEF ClientInv, LineGood, LineStays

\* The socket of a line is closed at this end.
LEMMA EndedGood ==
  ASSUME ClientInv, NEW l \in Line, line[l].state # "unused",
         seat' = seat, line'[l] = Ended(l)
  PROVE  /\ LineGood(l)' /\ Ended(l) \in LineRecord /\ Ended(l).released
         /\ Seated(l) => Ended(l).role = line[l].role
<1>1. line[l] \in LineRecord /\ line[l].tab \in Tab
  BY DEF ClientInv, StateTypeOK, LineGood
<1>2. CASE Seated(l)
  <2> DEFINE x == [line[l] EXCEPT !.state = "gone", !.released = TRUE,
                                  !.inbox = <<>>]
  <2>1. Ended(l) = x
    BY <1>2 DEF Ended
  <2>2. <<>> \in Seq(Events)
    OBVIOUS
  <2>3. /\ x \in LineRecord /\ x.state = "gone" /\ x.released = TRUE
        /\ x.tab = line[l].tab /\ x.role = line[l].role
    BY <1>1, <2>2 DEF LineRecord
  <2> HIDE DEF x
  <2>4. Seated(l)'
    BY <1>2, <2>1, <2>3 DEF Seated
  <2> QED
    BY <1>1, <2>1, <2>3, <2>4 DEF LineGood
<1>3. CASE ~Seated(l)
  <2>1. Ended(l) = Unused
    BY <1>3 DEF Ended
  <2>2. ~Seated(l)'
    BY <1>3, <2>1, ClientAssumption
    DEF Seated, Unused, ClientInv, SeatsGood, Role
  <2> QED
    BY <1>3, <2>1, <2>2, UnusedLine DEF LineGood, Unused
<1> QED
  BY <1>2, <1>3

LEMMA ReleasedGood ==
  ASSUME ClientInv, NEW l \in Line, line[l].state # "unused",
         seat' = seat, line'[l] = Released(l)
  PROVE  /\ LineGood(l)' /\ Released(l) \in LineRecord /\ Released(l).released
         /\ Seated(l) => Released(l).role = line[l].role
<1>1. line[l] \in LineRecord
  BY DEF ClientInv, StateTypeOK
<1>2. CASE line[l].own /\ Hearing(l)
  <2>1. Released(l) = Ended(l)
    BY <1>2 DEF Released
  <2> QED
    BY <2>1, EndedGood
<1>3. CASE ~(line[l].own /\ Hearing(l))
  <2> DEFINE x == [line[l] EXCEPT !.released = TRUE]
  <2>1. Released(l) = x
    BY <1>3 DEF Released, FlaggedReleased
  <2>2. /\ x \in LineRecord /\ x.state = line[l].state /\ x.released = TRUE
        /\ x.tab = line[l].tab /\ x.role = line[l].role
    BY <1>1 DEF LineRecord
  <2> HIDE DEF x
  <2>3. Seated(l)' <=> Seated(l)
    BY <2>1, <2>2 DEF Seated
  <2>4. LineStays(l)
    BY <2>1, <2>2, <2>3 DEF LineStays
  <2> QED
    BY <2>1, <2>2, <2>4, StaysGood
<1> QED
  BY <1>2, <1>3

LEMMA SeatsStayGood ==
  ASSUME ClientInv, seat' = seat,
         \A l \in Line : Seated(l) => line'[l].role = line[l].role
  PROVE  SeatsGood'
<1> SUFFICES ASSUME NEW role \in Role, seat[role] # NoLine
             PROVE  line'[seat[role]].role = role
  BY DEF SeatsGood
<1>1. seat[role] \in Line /\ line[seat[role]].role = role
  BY DEF ClientInv, StateTypeOK, SeatsGood
<1> QED
  BY <1>1 DEF Seated

\* A page keeps its line as long as that line keeps its page.
LEMMA PageStaysGood ==
  ASSUME ClientInv, NEW t \in Tab,
         page'[t].current # NoLine => page'[t].current = page[t].current,
         page'[t].kind = page[t].kind,
         page'[t].switching = 0 => page[t].switching = 0
                                   /\ page'[t].role = page[t].role,
         \A l \in Line : l = page'[t].current =>
           /\ line'[l].tab = line[l].tab /\ line'[l].role = line[l].role
           /\ ~line'[l].released
  PROVE  PageGood(t)'
<1> SUFFICES ASSUME page'[t].current # NoLine PROVE PageGood(t)'
  BY DEF PageGood
<1>1. page[t].current = page'[t].current /\ page[t].current \in Line
  BY CurrentLine
<1>2. PageGood(t)
  BY DEF ClientInv
<1> QED
  BY <1>1, <1>2 DEF PageGood

-----------------------------------------------------------------------------
LEMMA InitClientInv == Init => ClientInv
<1> SUFFICES ASSUME Init PROVE ClientInv
  OBVIOUS
<1>1. FirstPage \in Page
  BY ClientAssumption DEF FirstPage, Page, Role
<1>2. StateTypeOK
  BY <1>1, UnusedLine, ClientAssumption DEF Init, StateTypeOK
<1>3. ASSUME NEW l \in Line PROVE LineGood(l)
  BY ClientAssumption DEF Init, LineGood, Unused, Seated, Role
<1>4. (\A t \in Tab : PageGood(t)) /\ SeatsGood
  BY DEF Init, PageGood, FirstPage, SeatsGood
<1> QED
  BY <1>2, <1>3, <1>4 DEF ClientInv

-----------------------------------------------------------------------------
(* Taking up a transport and dropping it *)

\* The part of the invariant that a change of lines, pages and seats keeps.
AllGood ==
  /\ page \in [Tab -> Page]
  /\ line \in [Line -> LineRecord]
  /\ seat \in [Role -> Line \cup {NoLine}]
  /\ SeatsGood
  /\ \A l \in Line : LineGood(l)
  /\ \A t \in Tab : PageGood(t)

LEMMA Assembled ==
  ASSUME ClientInv, AllGood', moves' \in 0 .. MaxMoves, closed' \in 0 .. MaxClosed
  PROVE  ClientInv'
  BY DEF ClientInv, AllGood, StateTypeOK

\* The new line is a free one: it has no seat, whatever its role.
LEMMA AttachRelayGood ==
  ASSUME ClientInv, NEW t \in Tab, NEW p \in Page, AttachRelay(t, p),
         seat' = seat
  PROVE  AllGood'
<1>1. PICK l \in Line : l = (CHOOSE k \in Free : TRUE) /\ l \in Free
  BY DEF AttachRelay, Free
<1>2. PICK old \in Line \cup {NoLine} : old = page[t].current
  BY DEF ClientInv, StateTypeOK, Page
<1> DEFINE dropped == IF old = NoLine THEN line
                                      ELSE [line EXCEPT ![old] = Released(old)]
           q == [p EXCEPT !.present = FALSE, !.kind = "relay", !.current = l]
<1>3. /\ line' = [dropped EXCEPT ![l] = FirstLine(t, p.role)]
      /\ page' = [page EXCEPT ![t] = q]
      /\ line \in [Line -> LineRecord] /\ page \in [Tab -> Page]
  BY <1>1, <1>2 DEF AttachRelay, ClientInv, StateTypeOK
<1>4. /\ line[l].state = "unused" /\ line[l] = Unused
      /\ old # NoLine => old # l /\ line[old].state # "unused"
  BY <1>1, <1>2, CurrentLine DEF Free, ClientInv, LineGood
<1>5. q \in Page /\ q.current = l /\ q.kind = "relay" /\ q.role = p.role
  BY DEF Page
<1> HIDE DEF q
<1>6. /\ line'[l] = FirstLine(t, p.role)
      /\ old # NoLine => line'[old] = Released(old)
      /\ \A k \in Line : k # l /\ k # old => line'[k] = line[k]
      /\ DOMAIN line' = Line
  BY <1>1, <1>2, <1>3, <1>4
<1>7. /\ page'[t] = q /\ page' \in [Tab -> Page]
      /\ \A u \in Tab : u # t => page'[u] = page[u]
  BY <1>3, <1>5
<1>8. /\ FirstLine(t, p.role) \in LineRecord
      /\ FirstLine(t, p.role).state = "connecting"
      /\ FirstLine(t, p.role).tab = t /\ FirstLine(t, p.role).role = p.role
      /\ ~FirstLine(t, p.role).released
  <2>1. p.role \in Role /\ <<>> \in Seq(Events)
    BY DEF Page
  <2> QED
    BY <2>1 DEF FirstLine, LineRecord
<1>9. ~Seated(l) /\ ~Seated(l)'
  <2>1. ~Seated(l)
    BY <1>4 DEF ClientInv, LineGood
  <2>2. ~Seated(l)'
    <3>1. SUFFICES ASSUME seat[p.role] = l PROVE FALSE
      BY <1>6, <1>8 DEF Seated
    <3>2. line[l].role = p.role
      BY <1>1, <3>1, ClientAssumption DEF ClientInv, SeatsGood, Page
    <3> QED
      BY <2>1, <3>1, <3>2 DEF Seated
  <2> QED
    BY <2>1, <2>2
<1>10. LineGood(l)'
  BY <1>5, <1>6, <1>7, <1>8, <1>9 DEF LineGood
<1>11. old # NoLine => /\ LineGood(old)' /\ line'[old] \in LineRecord
                       /\ line'[old].released
                       /\ Seated(old) => line'[old].role = line[old].role
  BY <1>4, <1>6, ReleasedGood
<1>12. ASSUME NEW k \in Line, k # l, k # old
       PROVE  LineGood(k)' /\ line'[k] = line[k]
  <2>1. line'[k] = line[k]
    BY <1>6, <1>12
  <2>2. ~line[k].released => page'[line[k].tab].current = k
    BY <1>2, <1>7, <1>12, InUse
  <2>3. Seated(k)' <=> Seated(k)
    BY <2>1 DEF Seated
  <2> QED
    BY <2>1, <2>2, <2>3, UntouchedStays, StaysGood
<1>13. line' \in [Line -> LineRecord]
  <2>1. \A k \in Line : line'[k] \in LineRecord
    BY <1>3, <1>6, <1>8, <1>11, ClientAssumption
  <2>2. line' = [k \in Line |-> line'[k]]
    BY <1>3
  <2> QED
    BY <2>1, <2>2
<1>14. \A k \in Line : LineGood(k)'
  BY <1>10, <1>11, <1>12, ClientAssumption
<1>15. SeatsGood'
  <2>1. \A k \in Line : Seated(k) => line'[k].role = line[k].role
    BY <1>9, <1>11, <1>12, ClientAssumption
  <2> QED
    BY <2>1, SeatsStayGood
<1>16. ASSUME NEW u \in Tab PROVE PageGood(u)'
  <2>1. CASE u = t
    BY <1>5, <1>6, <1>7, <1>8, <2>1 DEF PageGood
  <2>2. CASE u # t
    <3>1. \A k \in Line : k = page[u].current =>
             /\ k # l /\ k # old /\ ~line[k].released
      BY <1>2, <1>4, <2>2, CurrentLine, ClientAssumption DEF Unused
    <3>2. \A k \in Line : k = page'[u].current =>
            /\ line'[k].tab = line[k].tab /\ line'[k].role = line[k].role
            /\ ~line'[k].released
      BY <1>7, <1>12, <2>2, <3>1
    <3> QED
      BY <1>7, <2>2, <3>2, PageStaysGood
  <2> QED
    BY <2>1, <2>2
<1> QED
  BY <1>7, <1>13, <1>14, <1>15, <1>16 DEF AllGood, ClientInv, StateTypeOK

\* A page that has no line any more, and the lines as they are left.
LEMMA PageDropsLine ==
  ASSUME ClientInv, NEW t \in Tab, NEW q \in Page, q.current = NoLine,
         page' = [page EXCEPT ![t] = q], seat' = seat,
         line' \in [Line -> LineRecord],
         \A l \in Line :
           \/ line'[l] = line[l] /\ l # page[t].current
           \/ /\ LineGood(l)' /\ line'[l].released
              /\ line[l].tab = t
              /\ Seated(l) => line'[l].role = line[l].role
  PROVE  AllGood'
<1>1. page \in [Tab -> Page]
  BY DEF ClientInv, StateTypeOK
<1>2. /\ page'[t] = q /\ page' \in [Tab -> Page]
      /\ \A u \in Tab : u # t => page'[u] = page[u]
  BY <1>1
<1>3. ASSUME NEW l \in Line PROVE LineGood(l)'
  <2>1. CASE line'[l] = line[l] /\ l # page[t].current
    <3>1. ~line[l].released => page'[line[l].tab].current = l
      BY <1>2, <2>1, InUse
    <3>2. line'[l] = line[l] /\ (Seated(l)' <=> Seated(l))
      BY <2>1 DEF Seated
    <3> QED
      BY <3>1, <3>2, UntouchedStays, StaysGood
  <2> QED
    BY <2>1
<1>4. SeatsGood'
  <2>1. \A l \in Line : Seated(l) => line'[l].role = line[l].role
    OBVIOUS
  <2> QED
    BY <2>1, SeatsStayGood
<1>5. ASSUME NEW u \in Tab PROVE PageGood(u)'
  <2>1. CASE u = t
    BY <1>2, <2>1 DEF PageGood
  <2>2. CASE u # t
    <3>1. \A k \in Line : k = page[u].current => line[k].tab = u /\ ~line[k].released
      BY CurrentLine, ClientAssumption
    <3>2. \A k \in Line : k = page'[u].current => line'[k] = line[k] /\ ~line[k].released
      BY <1>2, <2>2, <3>1
    <3> QED
      BY <1>2, <2>2, <3>2, PageStaysGood
  <2> QED
    BY <2>1, <2>2
<1> QED
  BY <1>2, <1>3, <1>4, <1>5 DEF AllGood, ClientInv, StateTypeOK

-----------------------------------------------------------------------------
(* Inboxes *)

LEMMA PopKeeps ==
  ASSUME NEW box \in Seq(Events), box # <<>>, Head(box).kind # "error",
         ClosesAfterError(box)
  PROVE  ClosesAfterError(Tail(box))
<1>1. /\ Head(box) = box[1] /\ DOMAIN box \subseteq Nat
      /\ \A i \in DOMAIN box : i >= 1
      /\ \A i \in DOMAIN Tail(box) : i + 1 \in DOMAIN box /\ Tail(box)[i] = box[i + 1]
      /\ \A i \in DOMAIN box : i # 1 => i - 1 \in DOMAIN Tail(box)
                                        /\ Tail(box)[i - 1] = box[i]
      /\ DOMAIN Tail(box) \subseteq Nat
  OBVIOUS
<1> SUFFICES ASSUME NEW i \in DOMAIN Tail(box), Tail(box)[i].kind = "close"
             PROVE  \E j \in DOMAIN Tail(box) : j < i /\ Tail(box)[j].kind = "error"
  BY DEF ClosesAfterError
<1>2. PICK j \in DOMAIN box : j < i + 1 /\ box[j].kind = "error"
  BY <1>1 DEF ClosesAfterError
<1>3. j # 1
  BY <1>1, <1>2
<1>4. /\ j - 1 \in DOMAIN Tail(box) /\ Tail(box)[j - 1] = box[j]
      /\ j - 1 < i
  BY <1>1, <1>2, <1>3
<1> QED
  BY <1>2, <1>4

LEMMA PushKeeps ==
  ASSUME NEW box \in Seq(Events), NEW e \in Events, e.kind # "close",
         ClosesAfterError(box)
  PROVE  ClosesAfterError(Append(box, e))
<1>1. /\ DOMAIN Append(box, e) = DOMAIN box \cup {Len(box) + 1}
      /\ Append(box, e)[Len(box) + 1] = e
      /\ \A i \in DOMAIN box : Append(box, e)[i] = box[i]
  OBVIOUS
<1> QED
  BY <1>1 DEF ClosesAfterError

LEMMA BreakCloses ==
  ASSUME NEW box \in Seq(Events), \A i \in DOMAIN box : box[i].kind # "close"
  PROVE  ClosesAfterError(box \o <<Event("error"), Event("close")>>)
<1> DEFINE more == box \o <<Event("error"), Event("close")>>
<1>1. /\ DOMAIN more = DOMAIN box \cup {Len(box) + 1, Len(box) + 2}
      /\ more[Len(box) + 1] = Event("error")
      /\ \A i \in DOMAIN box : more[i] = box[i]
      /\ Len(box) \in Nat
  OBVIOUS
<1>2. Event("error").kind = "error"
  BY DEF Event
<1> HIDE DEF more
<1>3. ASSUME NEW i \in DOMAIN more, more[i].kind = "close"
      PROVE  \E j \in DOMAIN more : j < i /\ more[j].kind = "error"
  <2>1. i = Len(box) + 2
    BY <1>1, <1>2, <1>3
  <2> QED
    BY <1>1, <1>2, <2>1
<1> QED
  BY <1>3 DEF ClosesAfterError, more

LEMMA EventTypes ==
  /\ \A kind \in {"registered", "joined", "left", "taken", "error", "close"} :
       Event(kind) \in Events /\ Event(kind).kind = kind
  /\ \A p \in BOOLEAN : Registered(p) \in Events /\ Registered(p).kind = "registered"
  BY DEF Event, Registered, Events

-----------------------------------------------------------------------------
(* Steps by which no seat changes hands and no page its line *)

\* No page changes its line; one may have begun another change of role.
PagesStay ==
  /\ page' \in [Tab -> Page]
  /\ \A t \in Tab : /\ page'[t].current = page[t].current
                    /\ page'[t].kind = page[t].kind
                    /\ page'[t].switching = 0 =>
                         page[t].switching = 0 /\ page'[t].role = page[t].role

LEMMA LinesMove ==
  ASSUME ClientInv, seat' = seat, line' \in [Line -> LineRecord],
         PagesStay,
         \A l \in Line : LineStays(l) /\ line'[l].released = line[l].released
  PROVE  AllGood'
<1>1. \A l \in Line : LineGood(l)'
  BY StaysGood
<1>2. SeatsGood'
  BY SeatsStayGood DEF LineStays
<1>3. ASSUME NEW t \in Tab PROVE PageGood(t)'
  <2>1. \A l \in Line : l = page'[t].current =>
          /\ line'[l].tab = line[l].tab /\ line'[l].role = line[l].role
          /\ ~line'[l].released
    BY CurrentLine, ClientAssumption DEF LineStays, PagesStay
  <2> QED
    BY <2>1, PageStaysGood DEF PagesStay
<1> QED
  BY <1>1, <1>2, <1>3 DEF AllGood, ClientInv, StateTypeOK, PagesStay

\* The common case: one line changes, and stays.
LEMMA OneLineMoves ==
  ASSUME ClientInv, seat' = seat, NEW l \in Line, NEW x \in LineRecord,
         line' = [line EXCEPT ![l] = x],
         x.tab = line[l].tab, x.role = line[l].role,
         x.released = line[l].released,
         \/ x.state = line[l].state /\ x.state # "unused"
         \/ /\ {line[l].state, x.state} \subseteq {"connecting", "open", "waiting"}
            /\ ~Seated(l),
         Seated(l) /\ ~line[l].released => ClosesAfterError(x.inbox),
         PagesStay
  PROVE  AllGood'
<1>1. line \in [Line -> LineRecord]
  BY DEF ClientInv, StateTypeOK
<1>2. /\ line' \in [Line -> LineRecord] /\ line'[l] = x
      /\ \A k \in Line : k # l => line'[k] = line[k]
  BY <1>1
<1>3. ASSUME NEW k \in Line
      PROVE  LineStays(k) /\ line'[k].released = line[k].released
  <2>1. ~line[k].released => page'[line[k].tab].current = k
    BY InUse DEF PagesStay
  <2>2. CASE k # l
    <3>1. line'[k] = line[k] /\ (Seated(k)' <=> Seated(k))
      BY <1>2, <2>2 DEF Seated
    <3> QED
      BY <2>1, <3>1, UntouchedStays
  <2>3. CASE k = l
    <3>1. Seated(l)' <=> Seated(l)
      BY <1>2 DEF Seated
    <3>2. line[l].state # "unused"
      OBVIOUS
    <3> QED
      BY <1>2, <2>1, <2>3, <3>1, <3>2 DEF LineStays
  <2> QED
    BY <2>2, <2>3
<1> QED
  BY <1>2, <1>3, LinesMove

LEMMA HeardStays ==
  ASSUME ClientInv, NEW l \in Line, Hearing(l), line[l].inbox # <<>>,
         Head(line[l].inbox).kind # "error" \/ line[l].released,
         line' = Heard(l), seat' = seat,
         PagesStay
  PROVE  AllGood'
<1> DEFINE x == [line[l] EXCEPT !.inbox = Tail(@)]
<1>1. /\ line[l] \in LineRecord /\ line[l].inbox \in Seq(Events)
      /\ Tail(line[l].inbox) \in Seq(Events)
  BY LineFields DEF ClientInv, StateTypeOK
<1>2. /\ x \in LineRecord /\ x.tab = line[l].tab /\ x.role = line[l].role
      /\ x.released = line[l].released /\ x.state = line[l].state
      /\ x.inbox = Tail(line[l].inbox)
  BY <1>1 DEF LineRecord
<1>3. line' = [line EXCEPT ![l] = x]
  BY DEF Heard
<1> HIDE DEF x
<1>4. Seated(l) /\ ~line[l].released => ClosesAfterError(x.inbox)
  BY <1>1, <1>2, PopKeeps DEF ClientInv, LineGood
<1>5. x.state = line[l].state /\ x.state # "unused"
  BY <1>2 DEF Hearing
<1> QED
  BY <1>2, <1>3, <1>4, <1>5, OneLineMoves

LEMMA HeadEvent ==
  ASSUME ClientInv, NEW l \in Line, NEW kind, Hears(l, kind)
  PROVE  /\ Hearing(l) /\ line[l].inbox # <<>> /\ Head(line[l].inbox).kind = kind
         /\ Head(line[l].inbox).present \in BOOLEAN
         /\ line[l].tab \in Tab /\ page[line[l].tab] \in Page
<1>1. line[l].inbox \in Seq(Events)
  BY LineFields DEF ClientInv, StateTypeOK
<1>2. Head(line[l].inbox) \in Events
  BY <1>1 DEF Hears
<1>3. line[l].tab \in Tab
  BY DEF Hears, Hearing, ClientInv, LineGood
<1> QED
  BY <1>2, <1>3 DEF Hears, Events, ClientInv, StateTypeOK

LEMMA OnRegisteredGood ==
  ASSUME ClientInv, NEW l \in Line, OnRegistered(l)
  PROVE  AllGood'
<1> DEFINE t == line[l].tab
           q == [page[t] EXCEPT !.initiator = (line[l].role = "node0"),
                                !.present = @ \/ Head(line[l].inbox).present]
<1>1. /\ Hearing(l) /\ line[l].inbox # <<>>
      /\ Head(line[l].inbox).kind = "registered"
      /\ Head(line[l].inbox).present \in BOOLEAN
      /\ t \in Tab /\ page[t] \in Page
  BY HeadEvent DEF OnRegistered
<1>2. /\ q \in Page /\ q.current = page[t].current /\ q.kind = page[t].kind
      /\ q.switching = page[t].switching /\ q.role = page[t].role
  BY <1>1 DEF Page
<1>3. page' = [page EXCEPT ![t] = q] /\ page \in [Tab -> Page]
  BY DEF OnRegistered, ClientInv, StateTypeOK
<1> HIDE DEF t, q
<1>4. PagesStay
  BY <1>1, <1>2, <1>3 DEF PagesStay
<1> QED
  BY <1>1, <1>4, HeardStays DEF OnRegistered

LEMMA OnPeerGood ==
  ASSUME ClientInv, NEW l \in Line, OnPeer(l)
  PROVE  AllGood'
<1> DEFINE t == line[l].tab
           q == [page[t] EXCEPT !.present = Hears(l, "joined")]
<1>1. PICK kind \in {"joined", "left"} : Hears(l, kind)
  BY DEF OnPeer
<1>2. /\ Hearing(l) /\ line[l].inbox # <<>>
      /\ Head(line[l].inbox).kind # "error"
      /\ t \in Tab /\ page[t] \in Page
  BY <1>1, HeadEvent
<1>3. /\ q \in Page /\ q.current = page[t].current /\ q.kind = page[t].kind
      /\ q.switching = page[t].switching /\ q.role = page[t].role
  <2>1. Hears(l, "joined") \in BOOLEAN
    BY DEF Hears
  <2> QED
    BY <1>2, <2>1 DEF Page
<1>4. page' = [page EXCEPT ![t] = q] /\ page \in [Tab -> Page]
  BY DEF OnPeer, ClientInv, StateTypeOK
<1> HIDE DEF t, q
<1>5. PagesStay
  BY <1>2, <1>3, <1>4 DEF PagesStay
<1> QED
  BY <1>2, <1>5, HeardStays DEF OnPeer

LEMMA SwitchedPage ==
  ASSUME NEW p \in Page, p.switching < MaxSwitching
  PROVE  /\ Switched(p) \in Page
         /\ Switched(p).current = p.current /\ Switched(p).kind = p.kind
         /\ Switched(p).switching # 0
<1>1. p.switching + 1 \in 0 .. MaxSwitching /\ p.switching + 1 # 0
  BY ClientAssumption DEF Page
<1>2. p.role \in Role /\ Other(p.role) \in Role
  BY DEF Page, Other, Role
<1> QED
  BY <1>1, <1>2 DEF Switched, Page

LEMMA OnRoleTakenGood ==
  ASSUME ClientInv, NEW l \in Line, OnRoleTaken(l)
  PROVE  AllGood'
<1> DEFINE t == line[l].tab
<1>1. /\ Hearing(l) /\ line[l].inbox # <<>>
      /\ Head(line[l].inbox).kind # "error"
      /\ t \in Tab /\ page[t] \in Page
  BY HeadEvent DEF OnRoleTaken
<1>2. page' = [page EXCEPT ![t] = Switched(page[t])] /\ page \in [Tab -> Page]
  BY DEF OnRoleTaken, ClientInv, StateTypeOK
<1>3. /\ Switched(page[t]) \in Page /\ Switched(page[t]).current = page[t].current
      /\ Switched(page[t]).kind = page[t].kind
      /\ Switched(page[t]).switching # 0
  BY <1>1, SwitchedPage DEF OnRoleTaken
<1> HIDE DEF t
<1>4. PagesStay
  BY <1>1, <1>2, <1>3 DEF PagesStay
<1> QED
  BY <1>1, <1>4, HeardStays DEF OnRoleTaken

LEMMA PickRoleGood ==
  ASSUME ClientInv, NEW t \in Tab, PickRole(t)
  PROVE  AllGood'
<1>1. page' = [page EXCEPT ![t] = Switched(page[t])] /\ page \in [Tab -> Page]
  BY DEF PickRole, ClientInv, StateTypeOK
<1>2. /\ Switched(page[t]) \in Page /\ Switched(page[t]).current = page[t].current
      /\ Switched(page[t]).kind = page[t].kind
      /\ Switched(page[t]).switching # 0
  BY <1>1, SwitchedPage DEF PickRole, Moves
<1>3. PagesStay
  BY <1>1, <1>2 DEF PagesStay
<1>4. UNCHANGED <<line, seat>>
  BY DEF PickRole
<1>5. ASSUME NEW l \in Line
      PROVE  LineStays(l) /\ line'[l].released = line[l].released
  <2>1. ~line[l].released => page'[line[l].tab].current = l
    BY <1>3, InUse DEF PagesStay
  <2>2. line'[l] = line[l] /\ (Seated(l)' <=> Seated(l))
    BY <1>4 DEF Seated
  <2> QED
    BY <2>1, <2>2, UntouchedStays
<1> QED
  BY <1>3, <1>4, <1>5, LinesMove DEF ClientInv, StateTypeOK

-----------------------------------------------------------------------------
(* Sockets that fail and lines that end *)

LEMMA SamePages ==
  ASSUME ClientInv, page' = page
  PROVE  PagesStay
  BY DEF PagesStay, ClientInv, StateTypeOK

LEMMA RefuseGood ==
  ASSUME ClientInv, NEW l \in Line, Refuse(l) \/ Unreachable(l)
  PROVE  AllGood'
<1>1. line[l] \in LineRecord /\ line[l].state = "connecting" /\ seat' = seat
  BY DEF Refuse, Unreachable, Closes, ClientInv, StateTypeOK
<1>2. ~Seated(l)
  BY <1>1 DEF ClientInv, LineGood
<1>3. PICK x \in LineRecord :
        /\ line' = [line EXCEPT ![l] = x]
        /\ x.tab = line[l].tab /\ x.role = line[l].role
        /\ x.released = line[l].released
        /\ x.state \in {"connecting", "open"}
  <2>1. /\ <<Event("taken"), Event("close")>> \in Seq(Events)
        /\ <<Event("error"), Event("close")>> \in Seq(Events)
    BY EventTypes
  <2>2. CASE Refuse(l)
    <3> DEFINE x == [line[l] EXCEPT !.state = "open",
                                    !.inbox = <<Event("taken"), Event("close")>>]
    <3>1. line' = [line EXCEPT ![l] = x]
      BY <2>2 DEF Refuse
    <3>2. /\ x \in LineRecord /\ x.tab = line[l].tab /\ x.role = line[l].role
          /\ x.released = line[l].released /\ x.state = "open"
      BY <1>1, <2>1 DEF LineRecord
    <3> QED
      BY <3>1, <3>2
  <2>3. CASE Unreachable(l)
    <3> DEFINE x == [line[l] EXCEPT !.inbox = <<Event("error"), Event("close")>>]
    <3>1. line' = [line EXCEPT ![l] = x]
      BY <2>3 DEF Unreachable
    <3>2. /\ x \in LineRecord /\ x.tab = line[l].tab /\ x.role = line[l].role
          /\ x.released = line[l].released /\ x.state = line[l].state
      BY <1>1, <2>1 DEF LineRecord
    <3> QED
      BY <1>1, <3>1, <3>2
  <2> QED
    BY <2>2, <2>3
<1>4. PagesStay
  BY SamePages DEF Refuse, Unreachable
<1> QED
  BY <1>1, <1>2, <1>3, <1>4, OneLineMoves

\* The error is queued before the close, and there was no close before.
LEMMA BreaksGood ==
  ASSUME ClientInv, NEW l \in Line, Breaks(l)
  PROVE  AllGood'
<1> DEFINE more == <<Event("error"), Event("close")>>
           x == [line[l] EXCEPT !.inbox = @ \o more]
<1>1. /\ line[l] \in LineRecord /\ line[l].inbox \in Seq(Events)
      /\ line[l].state = "open" /\ seat' = seat
  BY LineFields DEF Breaks, Closes, ClientInv, StateTypeOK
<1>2. line[l].inbox \o more \in Seq(Events)
  <2>1. more \in Seq(Events)
    BY EventTypes
  <2> HIDE DEF more
  <2> QED
    BY <1>1, <2>1
<1>3. ClosesAfterError(line[l].inbox \o more)
  BY <1>1, BreakCloses DEF Breaks
<1> HIDE DEF more
<1>4. /\ x \in LineRecord /\ x.tab = line[l].tab /\ x.role = line[l].role
      /\ x.released = line[l].released /\ x.state = line[l].state
      /\ x.inbox = line[l].inbox \o more
  BY <1>1, <1>2 DEF LineRecord
<1>5. line' = [line EXCEPT ![l] = x]
  BY DEF Breaks, more
<1>6. PagesStay
  BY SamePages DEF Breaks
<1> HIDE DEF x
<1> QED
  BY <1>1, <1>3, <1>4, <1>5, <1>6, OneLineMoves

\* One line changes as it may, and the others stay.
LEMMA OneChanges ==
  ASSUME ClientInv, page' = page, line' \in [Line -> LineRecord],
         seat' \in [Role -> Line \cup {NoLine}], SeatsGood',
         NEW l \in Line, LineGood(l)',
         ~line[l].released => /\ line'[l].tab = line[l].tab
                              /\ line'[l].role = line[l].role
                              /\ ~line'[l].released,
         \A k \in Line : k # l =>
           LineStays(k) /\ line'[k].released = line[k].released
  PROVE  AllGood'
<1>1. ASSUME NEW k \in Line PROVE LineGood(k)'
  BY StaysGood
<1>2. ASSUME NEW t \in Tab PROVE PageGood(t)'
  <2>1. \A k \in Line : k = page'[t].current =>
          /\ line'[k].tab = line[k].tab /\ line'[k].role = line[k].role
          /\ ~line'[k].released
    BY CurrentLine, ClientAssumption DEF LineStays
  <2> QED
    BY <2>1, PageStaysGood
<1> QED
  BY <1>1, <1>2 DEF AllGood, ClientInv, StateTypeOK

LEMMA LineEnds ==
  ASSUME ClientInv, NEW l \in Line, line[l].state # "unused",
         line[l].released, page' = page, seat' = seat,
         line' = [line EXCEPT ![l] = Ended(l)]
  PROVE  AllGood'
<1>1. line \in [Line -> LineRecord] /\ seat \in [Role -> Line \cup {NoLine}]
  BY DEF ClientInv, StateTypeOK
<1>2. line'[l] = Ended(l) /\ \A k \in Line : k # l => line'[k] = line[k]
  BY <1>1
<1>3. /\ LineGood(l)' /\ Ended(l) \in LineRecord
      /\ Seated(l) => Ended(l).role = line[l].role
  BY <1>2, EndedGood
<1>4. line' \in [Line -> LineRecord]
  BY <1>1, <1>3
<1>5. SeatsGood'
  BY <1>2, <1>3, SeatsStayGood
<1>6. ASSUME NEW k \in Line, k # l
      PROVE  LineStays(k) /\ line'[k].released = line[k].released
  <2>1. line'[k] = line[k] /\ (Seated(k)' <=> Seated(k))
    BY <1>2, <1>6 DEF Seated
  <2> QED
    BY <2>1, InUse, UntouchedStays
<1> QED
  BY <1>1, <1>3, <1>4, <1>5, <1>6, OneChanges

\* Had the line kept a seat and its page, an error would be due before this.
LEMMA OnCloseGood ==
  ASSUME ClientInv, NEW l \in Line, OnClose(l)
  PROVE  AllGood'
<1>1. /\ Hearing(l) /\ line[l].inbox # <<>>
      /\ Head(line[l].inbox).kind = "close"
      /\ page' = page /\ seat' = seat
  BY HeadEvent DEF OnClose
<1>2. line[l] \in LineRecord /\ line[l].inbox \in Seq(Events)
  BY LineFields DEF ClientInv, StateTypeOK
<1>3. CASE line[l].released
  BY <1>1, <1>3, LineEnds DEF OnClose, Hearing
<1>4. CASE ~line[l].released
  <2> DEFINE x == [line[l] EXCEPT !.state = "waiting", !.own = FALSE,
                                  !.inbox = <<>>]
  <2>1. ~Seated(l)
    <3>1. ~ClosesAfterError(line[l].inbox)
      <4>1. /\ 1 \in DOMAIN line[l].inbox
            /\ Head(line[l].inbox) = line[l].inbox[1]
            /\ \A j \in DOMAIN line[l].inbox : ~(j < 1)
        BY <1>1, <1>2
      <4> QED
        BY <1>1, <4>1 DEF ClosesAfterError
    <3> QED
      BY <1>4, <3>1 DEF ClientInv, LineGood
  <2>2. line' = [line EXCEPT ![l] = x]
    BY <1>4 DEF OnClose
  <2>3. <<>> \in Seq(Events)
    OBVIOUS
  <2>4. /\ x \in LineRecord /\ x.tab = line[l].tab /\ x.role = line[l].role
        /\ x.released = line[l].released /\ x.state = "waiting"
    BY <1>2, <2>3 DEF LineRecord
  <2> HIDE DEF x
  <2>5. PagesStay
    BY <1>1, SamePages
  <2> QED
    BY <1>1, <2>1, <2>2, <2>4, <2>5, OneLineMoves DEF Hearing
<1> QED
  BY <1>3, <1>4

LEMMA TimerEndsGood ==
  ASSUME ClientInv, NEW l \in Line, TimerEnds(l)
  PROVE  AllGood'
<1>1. /\ line[l].state = "waiting" /\ page' = page /\ seat' = seat
      /\ line[l] \in LineRecord
  BY DEF TimerEnds, ClientInv, StateTypeOK
<1>2. ~Seated(l)
  BY <1>1 DEF ClientInv, LineGood
<1>3. CASE line[l].released
  <2>1. Ended(l) = Unused
    BY <1>2 DEF Ended
  <2>2. line' = [line EXCEPT ![l] = Ended(l)]
    BY <1>3, <2>1 DEF TimerEnds, Reconnect
  <2> QED
    BY <1>1, <1>3, <2>2, LineEnds
<1>4. CASE ~line[l].released
  <2> DEFINE x == [line[l] EXCEPT !.state = "connecting"]
  <2>1. line' = [line EXCEPT ![l] = x]
    BY <1>4 DEF TimerEnds, Reconnect
  <2>2. /\ x \in LineRecord /\ x.tab = line[l].tab /\ x.role = line[l].role
        /\ x.released = line[l].released /\ x.state = "connecting"
    BY <1>1 DEF LineRecord
  <2> HIDE DEF x
  <2>3. PagesStay
    BY <1>1, SamePages
  <2> QED
    BY <1>1, <1>2, <2>1, <2>2, <2>3, OneLineMoves
<1> QED
  BY <1>3, <1>4

-----------------------------------------------------------------------------
(* The relay seats a line, or takes its seat back *)

\* Whoever is told is the line in that seat, which stays.
LEMMA ToldEffect ==
  ASSUME ClientInv, NEW lines \in [Line -> LineRecord], NEW role \in Role,
         NEW event \in Events, event.kind # "close",
         line' = Told(lines, role, event),
         \A k \in Line : k = seat[role] => lines[k] = line[k]
  PROVE  /\ line' \in [Line -> LineRecord]
         /\ \A k \in Line : k # seat[role] => line'[k] = lines[k]
         /\ \A k \in Line : k = seat[role] =>
              /\ line'[k].tab = line[k].tab /\ line'[k].role = line[k].role
              /\ line'[k].state = line[k].state
              /\ line'[k].released = line[k].released
              /\ line[k].state = "unused" => line'[k] = line[k]
              /\ ClosesAfterError(line[k].inbox)
                   => ClosesAfterError(line'[k].inbox)
<1> DEFINE k == seat[role]
           x == [line[k] EXCEPT !.inbox = Append(@, event)]
<1>1. CASE k \in Line /\ line' = [lines EXCEPT ![k].inbox = Append(@, event)]
           /\ Hearing(k)
  <2>1. PICK l \in Line : l = k
    BY <1>1
  <2>2. /\ line[l] \in LineRecord /\ line[l].inbox \in Seq(Events)
        /\ lines[l] = line[l] /\ line[l].state # "unused"
    BY <1>1, <2>1, LineFields DEF ClientInv, StateTypeOK, Hearing
  <2>3. Append(line[l].inbox, event) \in Seq(Events)
    BY <2>2
  <2>4. /\ x \in LineRecord /\ x.tab = line[l].tab /\ x.role = line[l].role
        /\ x.state = line[l].state /\ x.released = line[l].released
        /\ x.inbox = Append(line[l].inbox, event)
    BY <2>1, <2>2, <2>3 DEF LineRecord
  <2>5. line' = [lines EXCEPT ![l] = x]
    BY <1>1, <2>1, <2>2
  <2>6. ClosesAfterError(line[l].inbox) => ClosesAfterError(x.inbox)
    BY <2>2, <2>4, PushKeeps
  <2> HIDE DEF x
  <2> QED
    BY <2>1, <2>2, <2>4, <2>5, <2>6
<1>2. CASE line' = lines
  BY <1>2
<1>3. k # NoLine => k \in Line
  BY DEF ClientInv, StateTypeOK
<1> QED
  BY <1>1, <1>2, <1>3 DEF Told

\* A line that is told something, or nothing, stays.
LEMMA ToldStays ==
  ASSUME ClientInv, NEW k \in Line, page' = page, Seated(k)' <=> Seated(k),
         line'[k].tab = line[k].tab, line'[k].role = line[k].role,
         line'[k].state = line[k].state, line'[k].released = line[k].released,
         line[k].state = "unused" => line'[k] = line[k],
         ClosesAfterError(line[k].inbox) => ClosesAfterError(line'[k].inbox)
  PROVE  LineStays(k)
<1>1. ~line'[k].released => page'[line[k].tab].current = k
  BY InUse
<1>2. Seated(k) /\ ~line'[k].released => ClosesAfterError(line'[k].inbox)
  BY DEF ClientInv, LineGood
<1> QED
  BY <1>1, <1>2 DEF LineStays

LEMMA SeatTypes ==
  ASSUME ClientInv, NEW l \in Line
  PROVE  /\ line[l] \in LineRecord /\ line[l].role \in Role
         /\ Other(line[l].role) \in Role /\ Other(line[l].role) # line[l].role
         /\ l # NoLine /\ seat \in [Role -> Line \cup {NoLine}]
         /\ line \in [Line -> LineRecord]
  BY LineFields, ClientAssumption DEF ClientInv, StateTypeOK, Other, Role

\* The seats are good after one of them passes to or from l.
LEMMA SeatPasses ==
  ASSUME ClientInv, NEW l \in Line, NEW value \in {l, NoLine},
         seat' = [seat EXCEPT ![line[l].role] = value],
         value = l => line'[l].role = line[l].role,
         \A k \in Line : k # l => line'[k].role = line[k].role,
         seat[line[l].role] \in {l, NoLine}
  PROVE  /\ SeatsGood' /\ seat' \in [Role -> Line \cup {NoLine}]
         /\ \A k \in Line : k # l => (Seated(k)' <=> Seated(k))
<1>1. line[l].role \in Role /\ l # NoLine /\ seat \in [Role -> Line \cup {NoLine}]
  BY SeatTypes
<1>2. \A role \in Role :
        seat'[role] = IF role = line[l].role THEN value ELSE seat[role]
  BY <1>1
<1>3. seat' \in [Role -> Line \cup {NoLine}]
  BY <1>1
<1>4. \A k \in Line : line[k].role \in Role /\ k # NoLine
  BY SeatTypes
<1>5. SeatsGood'
  <2> SUFFICES ASSUME NEW role \in Role, seat'[role] # NoLine
               PROVE  line'[seat'[role]].role = role
    BY DEF SeatsGood
  <2>1. CASE role = line[l].role
    BY <1>2, <2>1
  <2>2. CASE role # line[l].role
    <3>1. seat[role] \in Line /\ line[seat[role]].role = role
      BY <1>1, <1>2, <2>2 DEF ClientInv, SeatsGood
    <3>2. seat[role] # l
      BY <2>2, <3>1
    <3> QED
      BY <1>2, <2>2, <3>1, <3>2
  <2> QED
    BY <2>1, <2>2
<1>6. ASSUME NEW k \in Line, k # l PROVE Seated(k)' <=> Seated(k)
  BY <1>2, <1>4, <1>6 DEF Seated
<1> QED
  BY <1>3, <1>5, <1>6

LEMMA ClaimGood ==
  ASSUME ClientInv, NEW l \in Line, Claim(l)
  PROVE  AllGood'
<1> DEFINE other == Other(line[l].role)
           heard == <<Registered(seat[other] # NoLine)>>
           x == [line[l] EXCEPT !.state = "open", !.inbox = heard]
           opened == [line EXCEPT ![l].state = "open", ![l].inbox = heard]
<1>1. /\ line[l] \in LineRecord /\ line[l].role \in Role /\ other \in Role
      /\ other # line[l].role /\ l # NoLine
      /\ line \in [Line -> LineRecord]
  BY SeatTypes
<1>2. /\ line[l].state = "connecting" /\ seat[line[l].role] = NoLine
      /\ seat' = [seat EXCEPT ![line[l].role] = l]
      /\ line' = Told(opened, other, Event("joined")) /\ page' = page
  BY DEF Claim
<1>3. heard \in Seq(Events) /\ ClosesAfterError(heard)
  <2>1. PICK e \in Events : heard = <<e>> /\ e.kind = "registered"
    BY EventTypes
  <2> QED
    BY <2>1 DEF ClosesAfterError
<1>4. /\ x \in LineRecord /\ x.tab = line[l].tab /\ x.role = line[l].role
      /\ x.released = line[l].released /\ x.state = "open" /\ x.inbox = heard
  BY <1>1, <1>3 DEF LineRecord
<1>5. /\ opened \in [Line -> LineRecord] /\ opened[l] = x
      /\ \A k \in Line : k # l => opened[k] = line[k]
  BY <1>1, <1>4
<1>6. seat[other] # l
  BY <1>1, <1>2 DEF ClientInv, SeatsGood
<1> HIDE DEF x, opened, heard
<1>7. /\ line' \in [Line -> LineRecord]
      /\ \A k \in Line : k # seat[other] => line'[k] = opened[k]
      /\ \A k \in Line : k = seat[other] =>
           /\ line'[k].tab = line[k].tab /\ line'[k].role = line[k].role
           /\ line'[k].state = line[k].state
           /\ line'[k].released = line[k].released
           /\ line[k].state = "unused" => line'[k] = line[k]
           /\ ClosesAfterError(line[k].inbox) => ClosesAfterError(line'[k].inbox)
  <2>1. \A k \in Line : k = seat[other] => opened[k] = line[k]
    BY <1>5, <1>6
  <2>2. Event("joined") \in Events /\ Event("joined").kind # "close"
    BY EventTypes
  <2> HIDE DEF other
  <2> QED
    BY <1>1, <1>2, <1>5, <2>1, <2>2, ToldEffect
<1>8. line'[l] = x
  BY <1>5, <1>6, <1>7
<1>9. \A k \in Line : k # l => line'[k].role = line[k].role
  BY <1>5, <1>7
<1>10. /\ SeatsGood' /\ seat' \in [Role -> Line \cup {NoLine}]
       /\ \A k \in Line : k # l => (Seated(k)' <=> Seated(k))
  BY <1>2, <1>4, <1>8, <1>9, SeatPasses
<1>11. ASSUME NEW k \in Line, k # l
       PROVE  LineStays(k) /\ line'[k].released = line[k].released
  BY <1>2, <1>5, <1>7, <1>10, <1>11, ToldStays
<1>12. LineGood(l)'
  <2>1. line[l].tab \in Tab /\ (~line[l].released => page[line[l].tab].current = l)
    BY <1>2, InUse DEF ClientInv, LineGood
  <2> QED
    BY <1>2, <1>3, <1>4, <1>8, <2>1 DEF LineGood
<1> QED
  BY <1>2, <1>4, <1>7, <1>8, <1>10, <1>11, <1>12, OneChanges

LEMMA RelayClosesGood ==
  ASSUME ClientInv, NEW l \in Line, RelayCloses(l)
  PROVE  AllGood'
<1> DEFINE other == Other(line[l].role)
           x == [line[l] EXCEPT !.inbox = Append(@, Event("close"))]
           ending == [line EXCEPT ![l].inbox = Append(@, Event("close"))]
<1>1. /\ line[l] \in LineRecord /\ line[l].role \in Role /\ other \in Role
      /\ other # line[l].role /\ l # NoLine
      /\ line \in [Line -> LineRecord] /\ line[l].inbox \in Seq(Events)
  BY SeatTypes, LineFields
<1>2. /\ line[l].state = "open" /\ seat[line[l].role] = l
      /\ seat' = [seat EXCEPT ![line[l].role] = NoLine]
      /\ line' = Told(ending, other, Event("left")) /\ page' = page
  BY DEF RelayCloses, Closes, Seated
<1>3. Append(line[l].inbox, Event("close")) \in Seq(Events)
  BY <1>1, EventTypes
<1>4. /\ x \in LineRecord /\ x.tab = line[l].tab /\ x.role = line[l].role
      /\ x.released = line[l].released /\ x.state = "open"
  BY <1>1, <1>2, <1>3 DEF LineRecord
<1>5. /\ ending \in [Line -> LineRecord] /\ ending[l] = x
      /\ \A k \in Line : k # l => ending[k] = line[k]
  BY <1>1, <1>4
<1>6. seat[other] # l
  BY <1>1, <1>2 DEF ClientInv, SeatsGood
<1> HIDE DEF x, ending
<1>7. /\ line' \in [Line -> LineRecord]
      /\ \A k \in Line : k # seat[other] => line'[k] = ending[k]
      /\ \A k \in Line : k = seat[other] =>
           /\ line'[k].tab = line[k].tab /\ line'[k].role = line[k].role
           /\ line'[k].state = line[k].state
           /\ line'[k].released = line[k].released
           /\ line[k].state = "unused" => line'[k] = line[k]
           /\ ClosesAfterError(line[k].inbox) => ClosesAfterError(line'[k].inbox)
  <2>1. \A k \in Line : k = seat[other] => ending[k] = line[k]
    BY <1>5, <1>6
  <2>2. Event("left") \in Events /\ Event("left").kind # "close"
    BY EventTypes
  <2> HIDE DEF other
  <2> QED
    BY <1>1, <1>2, <1>5, <2>1, <2>2, ToldEffect
<1>8. line'[l] = x
  BY <1>5, <1>6, <1>7
<1>9. \A k \in Line : k # l => line'[k].role = line[k].role
  BY <1>5, <1>7
<1>10. /\ SeatsGood' /\ seat' \in [Role -> Line \cup {NoLine}]
       /\ \A k \in Line : k # l => (Seated(k)' <=> Seated(k))
  BY <1>1, <1>2, <1>9, SeatPasses
<1>11. ASSUME NEW k \in Line, k # l
       PROVE  LineStays(k) /\ line'[k].released = line[k].released
  BY <1>2, <1>5, <1>7, <1>10, <1>11, ToldStays
<1>12. LineGood(l)'
  <2>1. line[l].tab \in Tab /\ (~line[l].released => page[line[l].tab].current = l)
    BY <1>2, InUse DEF ClientInv, LineGood
  <2>2. ~Seated(l)'
    BY <1>1, <1>2, <1>4, <1>8 DEF Seated, ClientInv, StateTypeOK
  <2> QED
    BY <1>2, <1>4, <1>8, <2>1, <2>2 DEF LineGood
<1> QED
  BY <1>2, <1>4, <1>7, <1>8, <1>10, <1>11, <1>12, OneChanges

LEMMA NoticesGood ==
  ASSUME ClientInv, NEW l \in Line, Notices(l)
  PROVE  AllGood'
<1> DEFINE other == Other(line[l].role)
           freed == [line EXCEPT ![l] = Unused]
<1>1. /\ line[l] \in LineRecord /\ line[l].role \in Role /\ other \in Role
      /\ other # line[l].role /\ l # NoLine
      /\ line \in [Line -> LineRecord]
  BY SeatTypes
<1>2. /\ line[l].state = "gone" /\ seat[line[l].role] = l /\ line[l].released
      /\ seat' = [seat EXCEPT ![line[l].role] = NoLine]
      /\ line' = Told(freed, other, Event("left")) /\ page' = page
  BY DEF Notices, ClientInv, LineGood, Seated
<1>3. /\ freed \in [Line -> LineRecord] /\ freed[l] = Unused
      /\ \A k \in Line : k # l => freed[k] = line[k]
  BY <1>1, UnusedLine
<1>4. seat[other] # l
  BY <1>1, <1>2 DEF ClientInv, SeatsGood
<1> HIDE DEF freed
<1>5. /\ line' \in [Line -> LineRecord]
      /\ \A k \in Line : k # seat[other] => line'[k] = freed[k]
      /\ \A k \in Line : k = seat[other] =>
           /\ line'[k].tab = line[k].tab /\ line'[k].role = line[k].role
           /\ line'[k].state = line[k].state
           /\ line'[k].released = line[k].released
           /\ line[k].state = "unused" => line'[k] = line[k]
           /\ ClosesAfterError(line[k].inbox) => ClosesAfterError(line'[k].inbox)
  <2>1. \A k \in Line : k = seat[other] => freed[k] = line[k]
    BY <1>3, <1>4
  <2>2. Event("left") \in Events /\ Event("left").kind # "close"
    BY EventTypes
  <2> HIDE DEF other
  <2> QED
    BY <1>1, <1>2, <1>3, <2>1, <2>2, ToldEffect
<1>6. line'[l] = Unused
  BY <1>3, <1>4, <1>5
<1>7. \A k \in Line : k # l => line'[k].role = line[k].role
  BY <1>3, <1>5
<1>8. /\ SeatsGood' /\ seat' \in [Role -> Line \cup {NoLine}]
      /\ \A k \in Line : k # l => (Seated(k)' <=> Seated(k))
  BY <1>1, <1>2, <1>7, SeatPasses
<1>9. ASSUME NEW k \in Line, k # l
      PROVE  LineStays(k) /\ line'[k].released = line[k].released
  BY <1>2, <1>3, <1>5, <1>8, <1>9, ToldStays
<1>10. LineGood(l)'
  <2>1. ~Seated(l)'
    <3>1. \A role \in Role : seat'[role] # l
      BY <1>1, <1>2 DEF ClientInv, StateTypeOK, SeatsGood
    <3> QED
      BY <1>6, <3>1 DEF Seated, Unused, Role
  <2> QED
    BY <1>6, <2>1 DEF LineGood, Unused
<1> QED
  BY <1>2, <1>5, <1>8, <1>9, <1>10, OneChanges

-----------------------------------------------------------------------------
(* Pages that change their transport *)

LEMMA AttachGood ==
  ASSUME ClientInv, NEW t \in Tab, Booted(t) \/ Rejoin(t)
  PROVE  AllGood'
<1>1. page[t] \in Page /\ seat' = seat
  BY DEF Booted, Rejoin, ClientInv, StateTypeOK
<1>2. CASE Booted(t)
  <2>1. [page[t] EXCEPT !.booting = FALSE] \in Page
    BY <1>1 DEF Page
  <2> QED
    BY <1>1, <1>2, <2>1, AttachRelayGood DEF Booted
<1>3. CASE Rejoin(t)
  BY <1>1, <1>3, AttachRelayGood DEF Rejoin
<1> QED
  BY <1>2, <1>3

LEMMA SwitchDoneGood ==
  ASSUME ClientInv, NEW t \in Tab, SwitchDone(t)
  PROVE  AllGood'
<1> DEFINE p == [page[t] EXCEPT !.switching = @ - 1]
           q == [p EXCEPT !.present = FALSE, !.kind = "broadcast",
                          !.current = NoLine]
<1>1. page[t] \in Page /\ seat' = seat /\ page[t].switching > 0
  BY DEF SwitchDone, ClientInv, StateTypeOK
<1>2. p \in Page /\ p.kind = page[t].kind
  <2>1. page[t].switching - 1 \in 0 .. MaxSwitching
    BY <1>1, ClientAssumption DEF Page
  <2> QED
    BY <1>1, <2>1 DEF Page
<1>3. CASE AttachRelay(t, p)
  <2> HIDE DEF p
  <2> QED
    BY <1>1, <1>2, <1>3, AttachRelayGood
<1>4. CASE p.kind = "broadcast" /\ AttachBroadcast(t, p, line)
  <2>1. page' = [page EXCEPT ![t] = q] /\ line' = line
    BY <1>4 DEF AttachBroadcast
  <2>2. q \in Page /\ q.current = NoLine
    <3> HIDE DEF p
    <3> QED
      BY <1>2 DEF Page
  <2>3. page[t].current = NoLine
    BY <1>2, <1>4 DEF ClientInv, PageGood
  <2> HIDE DEF p, q
  <2>4. \A l \in Line : line'[l] = line[l] /\ l # page[t].current
    BY <2>1, <2>3, SeatTypes
  <2>5. line' \in [Line -> LineRecord]
    BY <2>1 DEF ClientInv, StateTypeOK
  <2> QED
    BY <1>1, <2>1, <2>2, <2>4, <2>5, PageDropsLine
<1> QED
  BY <1>3, <1>4 DEF SwitchDone

LEMMA ReleaseGood ==
  ASSUME ClientInv, NEW t \in Tab, Release(t)
  PROVE  AllGood'
<1> DEFINE q == [page[t] EXCEPT !.current = NoLine]
<1>1. PICK l \in Line : l = page[t].current /\ line[l].tab = t
                        /\ line[l].state # "unused"
  BY CurrentLine DEF Release, Moves
<1>2. /\ page' = [page EXCEPT ![t] = q] /\ seat' = seat
      /\ line' = [line EXCEPT ![l] = Released(l)]
      /\ line \in [Line -> LineRecord] /\ page[t] \in Page
  BY <1>1 DEF Release, ClientInv, StateTypeOK
<1>3. q \in Page /\ q.current = NoLine
  BY <1>2 DEF Page
<1> HIDE DEF q
<1>4. line'[l] = Released(l) /\ \A k \in Line : k # l => line'[k] = line[k]
  BY <1>2
<1>5. /\ LineGood(l)' /\ Released(l) \in LineRecord /\ Released(l).released
      /\ Seated(l) => Released(l).role = line[l].role
  BY <1>1, <1>2, <1>4, ReleasedGood
<1>6. line' \in [Line -> LineRecord]
  BY <1>2, <1>5
<1>7. ASSUME NEW k \in Line
      PROVE  \/ line'[k] = line[k] /\ k # page[t].current
             \/ /\ LineGood(k)' /\ line'[k].released
                /\ line[k].tab = t
                /\ Seated(k) => line'[k].role = line[k].role
  BY <1>1, <1>4, <1>5
<1> QED
  BY <1>2, <1>3, <1>6, <1>7, PageDropsLine

\* The error comes from a line the page uses, which it drops, or from one it
\* has dropped before, and then it drops the one it uses instead.
LEMMA OnErrorGood ==
  ASSUME ClientInv, NEW l \in Line, OnError(l)
  PROVE  AllGood'
<1>1. PICK t \in Tab : t = line[l].tab
  BY HeadEvent DEF OnError
<1>2. /\ Hearing(l) /\ line[l].inbox # <<>> /\ line[l].state # "unused"
      /\ page[t] \in Page /\ seat' = seat
      /\ line \in [Line -> LineRecord] /\ line[l].inbox \in Seq(Events)
  BY <1>1, HeadEvent, LineFields DEF OnError, Hearing, ClientInv, StateTypeOK
<1>3. PICK c \in Line \cup {NoLine} : c = page[t].current
  BY <1>2 DEF Page
<1>4. l # c => line[l].released
  BY <1>1, <1>3, InUse
<1> DEFINE x == [line[l] EXCEPT !.inbox = Tail(@)]
           y == [x EXCEPT !.released = TRUE]
<1>5. /\ x \in LineRecord /\ x.tab = line[l].tab /\ x.role = line[l].role
      /\ x.state = line[l].state /\ x.released = line[l].released
      /\ y \in LineRecord /\ y.tab = line[l].tab /\ y.role = line[l].role
      /\ y.state = line[l].state /\ y.released = TRUE
      /\ Heard(l) = [line EXCEPT ![l] = x]
  <2>1. Tail(line[l].inbox) \in Seq(Events)
    BY <1>2
  <2> QED
    BY <1>2, <2>1 DEF LineRecord, Heard
<1>6. CASE page[t].kind = "broadcast" /\ line' = Heard(l) /\ page' = page
  <2>1. line[l].released
    BY <1>3, <1>4, <1>6, SeatTypes DEF ClientInv, PageGood
  <2> QED
    BY <1>2, <1>6, <2>1, HeardStays, SamePages
<1>7. CASE page[t].kind = "relay" /\
           AttachBroadcast(t, page[t],
             IF c = NoLine THEN Heard(l)
             ELSE [Heard(l) EXCEPT ![c] =
                     IF c = l /\ ~line[l].own
                       THEN [Heard(l)[l] EXCEPT !.released = TRUE]
                       ELSE Released(c)])
  <2> DEFINE q == [page[t] EXCEPT !.present = FALSE, !.kind = "broadcast",
                                  !.current = NoLine]
             z == IF c = l /\ ~line[l].own THEN y ELSE Released(c)
  <2>1. page' = [page EXCEPT ![t] = q] /\ q \in Page /\ q.current = NoLine
    BY <1>2, <1>7 DEF AttachBroadcast, Page
  <2>2. Heard(l) \in [Line -> LineRecord] /\ Heard(l)[l] = x
        /\ \A k \in Line : k # l => Heard(l)[k] = line[k]
    BY <1>2, <1>5
  <2>3. line' = IF c = NoLine THEN Heard(l) ELSE [Heard(l) EXCEPT ![c] = z]
    BY <1>7, <2>2 DEF AttachBroadcast
  <2> HIDE DEF q, x, y, z
  <2>4. /\ c # NoLine => line'[c] = z
        /\ l # c => line'[l] = x
        /\ \A k \in Line : k # l /\ k # c => line'[k] = line[k]
    BY <2>2, <2>3
  <2>5. ASSUME NEW w \in LineRecord, line'[l] = w, w.released,
               w.tab = line[l].tab, w.role = line[l].role,
               w.state = line[l].state
        PROVE  LineGood(l)'
    <3>1. Seated(l)' <=> Seated(l)
      BY <1>2, <2>5 DEF Seated
    <3>2. LineStays(l)
      BY <1>2, <2>5, <3>1 DEF LineStays
    <3> QED
      BY <3>2, StaysGood
  <2>6. ASSUME c # NoLine
        PROVE  /\ LineGood(c)' /\ z \in LineRecord /\ z.released
               /\ line[c].tab = t
               /\ Seated(c) => z.role = line[c].role
    <3>1. c \in Line /\ line[c].tab = t /\ line[c].state # "unused"
      BY <1>3, <2>6, CurrentLine
    <3>2. CASE c = l /\ ~line[l].own
      <4>1. z = y
        BY <3>2 DEF z
      <4>2. LineGood(l)'
        BY <1>5, <2>4, <2>5, <2>6, <3>2, <4>1
      <4> QED
        BY <1>5, <3>1, <3>2, <4>1, <4>2
    <3>3. CASE ~(c = l /\ ~line[l].own)
      <4>1. z = Released(c)
        BY <3>3 DEF z
      <4> QED
        BY <1>2, <2>4, <2>6, <3>1, <4>1, ReleasedGood
    <3> QED
      BY <3>2, <3>3
  <2>7. l # c => LineGood(l)' /\ x.released
    BY <1>4, <1>5, <2>4, <2>5
  <2>8. line' \in [Line -> LineRecord]
    BY <2>2, <2>3, <2>6
  <2>9. ASSUME NEW k \in Line
        PROVE  \/ line'[k] = line[k] /\ k # page[t].current
               \/ /\ LineGood(k)' /\ line'[k].released
                  /\ line[k].tab = t
                  /\ Seated(k) => line'[k].role = line[k].role
    <3>1. CASE k = c
      BY <2>4, <2>6, <3>1, SeatTypes
    <3>2. CASE k # c /\ k = l
      BY <1>1, <1>5, <2>4, <2>7, <3>2
    <3>3. CASE k # c /\ k # l
      BY <1>3, <2>4, <3>3
    <3> QED
      BY <3>1, <3>2, <3>3
  <2> QED
    BY <1>2, <2>1, <2>8, <2>9, PageDropsLine
<1> QED
  BY <1>1, <1>3, <1>6, <1>7 DEF OnError

-----------------------------------------------------------------------------
(* Theorems *)

LEMMA CountersStay ==
  ASSUME ClientInv, Next
  PROVE  moves' \in 0 .. MaxMoves /\ closed' \in 0 .. MaxClosed
<1>1. /\ moves \in 0 .. MaxMoves /\ closed \in 0 .. MaxClosed
      /\ moves < MaxMoves => moves + 1 \in 0 .. MaxMoves
      /\ closed < MaxClosed => closed + 1 \in 0 .. MaxClosed
  BY ClientAssumption DEF ClientInv, StateTypeOK
<1>2. ASSUME NEW l \in Line, Callback(l) \/ Network(l)
      PROVE  /\ moves' = moves
             /\ closed' = closed \/ (closed < MaxClosed /\ closed' = closed + 1)
  BY <1>2
  DEF Callback, OnRegistered, OnPeer, OnRoleTaken, OnError, OnClose, TimerEnds,
      Network, Claim, Refuse, Unreachable, RelayCloses, Breaks, Notices, Closes
<1>3. ASSUME NEW t \in Tab, Booted(t) \/ SwitchDone(t) \/ User(t)
      PROVE  /\ closed' = closed
             /\ moves' = moves \/ (moves < MaxMoves /\ moves' = moves + 1)
  BY <1>3 DEF Booted, SwitchDone, User, Rejoin, PickRole, Release, Moves
<1> QED
  BY <1>1, <1>2, <1>3 DEF Next

LEMMA ClientStep == ClientInv /\ [Next]_vars => ClientInv'
<1> SUFFICES ASSUME ClientInv, [Next]_vars PROVE ClientInv'
  OBVIOUS
<1>1. CASE UNCHANGED vars
  BY <1>1
  DEF vars, ClientInv, StateTypeOK, SeatsGood, LineGood, PageGood, Seated
<1>2. ASSUME NEW l \in Line, Callback(l) PROVE AllGood'
  BY <1>2, OnRegisteredGood, OnPeerGood, OnRoleTakenGood, OnErrorGood,
     OnCloseGood, TimerEndsGood
  DEF Callback
<1>3. ASSUME NEW l \in Line, Network(l) PROVE AllGood'
  BY <1>3, ClaimGood, RefuseGood, RelayClosesGood, BreaksGood, NoticesGood
  DEF Network
<1>4. ASSUME NEW t \in Tab, Booted(t) \/ SwitchDone(t) \/ User(t)
      PROVE  AllGood'
  BY <1>4, AttachGood, SwitchDoneGood, PickRoleGood, ReleaseGood DEF User
<1>5. Next => AllGood'
  BY <1>2, <1>3, <1>4 DEF Next
<1> QED
  BY <1>1, <1>5, CountersStay, Assembled

LEMMA ClientInvariant == Spec => []ClientInv
  BY InitClientInv, ClientStep, PTL DEF Spec

\* Every variable keeps its type; a line that is not in use is blank, and one
\* that was hung up keeps its seat until the relay notices.
THEOREM ClientTypeCorrect == Spec => []TypeOK
<1>1. ClientInv => TypeOK
  BY DEF ClientInv, StateTypeOK, LineGood, TypeOK
<1> QED
  BY <1>1, ClientInvariant, PTL

\* However many transports a page has gone through, in whichever state each
\* was dropped, only the one it uses now will reconnect.
THEOREM OthersStayAway == Spec => []OnlyCurrentReconnects
<1>1. ClientInv => OnlyCurrentReconnects
  BY DEF ClientInv, LineGood, OnlyCurrentReconnects
<1> QED
  BY <1>1, ClientInvariant, PTL

\* However many changes of role overlapped, once none is under way the page's
\* transport asks the relay for the role the page has.
THEOREM TransportsHaveRoles == Spec => []TransportHasRole
<1>1. ClientInv => TransportHasRole
  BY DEF ClientInv, PageGood, TransportHasRole
<1> QED
  BY <1>1, ClientInvariant, PTL

\* A seat of the room is never held for a line that waits to reconnect or is
\* free: the relay, once it notices, can always tell whose seat to take back.
THEOREM SeatsHaveLines ==
  Spec => [](\A role \in Role : seat[role] # NoLine =>
               /\ line[seat[role]].role = role
               /\ line[seat[role]].state \in {"open", "gone"})
<1>1. ASSUME ClientInv, NEW role \in Role, seat[role] # NoLine
      PROVE  /\ line[seat[role]].role = role
             /\ line[seat[role]].state \in {"open", "gone"}
  <2>1. seat[role] \in Line /\ line[seat[role]].role = role
    BY <1>1 DEF ClientInv, StateTypeOK, SeatsGood
  <2> QED
    BY <1>1, <2>1 DEF ClientInv, LineGood, Seated
<1>2. ClientInv => \A role \in Role : seat[role] # NoLine =>
                     /\ line[seat[role]].role = role
                     /\ line[seat[role]].state \in {"open", "gone"}
  BY <1>1
<1> QED
  BY <1>2, ClientInvariant, PTL
==============================================================================
