---------------------------- MODULE TokenTitles ----------------------------
(***************************************************************************)
(* What the token engine promises, without transactions: a register of     *)
(* titles.  A title has one holder at a time and a fixed value; it is      *)
(* transferred, exchanged with another in one step (SYS-TOK-007), or ended *)
(* by its redemption, for good.                                            *)
(***************************************************************************)
CONSTANT Party

VARIABLE title   \* partial function: title -> holder, value, whether alive

Init == title = [t \in {} |-> t]

Issue(t, h, v) ==
    /\ t \notin DOMAIN title
    /\ title' = [u \in DOMAIN title \cup {t} |->
                    IF u = t THEN [holder |-> h, value |-> v, alive |-> TRUE]
                             ELSE title[u]]

Transfer(t, h) ==
    /\ title[t].alive
    /\ title' = [title EXCEPT ![t].holder = h]

Exchange(t, u) ==
    /\ t # u /\ title[t].alive /\ title[u].alive
    /\ title' = [title EXCEPT ![t].holder = title[u].holder,
                              ![u].holder = title[t].holder]

Redeem(t, issuer) ==
    /\ title[t].alive
    /\ title' = [title EXCEPT ![t].alive = FALSE, ![t].holder = issuer]

\* Issue, of any one new title.
IssueNew ==
    \E t \in DOMAIN title' \ DOMAIN title :
        Issue(t, title'[t].holder, title'[t].value)

Next ==
    \/ IssueNew
    \/ \E t \in DOMAIN title, h \in Party : Transfer(t, h) \/ Redeem(t, h)
    \/ \E t, u \in DOMAIN title : Exchange(t, u)

Spec == Init /\ [][Next]_title
=============================================================================
