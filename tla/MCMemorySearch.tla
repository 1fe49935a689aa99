------------------------ MODULE MCMemorySearch -------------------------
(***************************************************************************)
(* Values of the constants of MemorySearch for TLC.                        *)
(***************************************************************************)
EXTENDS MemorySearch, TLC

CONSTANTS p1, p2

\* A picture of the session, with a text that describes it, and a text of another
\* session that two users share.
TwoPlaces ==
  (p1 :> [mods |-> {"image"}, users |-> {"u"}, domain |-> {"d"}, run |-> {"r"},
          vectors |-> {"text", "image"}]) @@
  (p2 :> [mods |-> {"text"}, users |-> {"u", "v"}, domain |-> {"d"}, run |-> {"r2"},
          vectors |-> {"text"}])

InSession == [mods |-> {"text", "image"}, users |-> {"u"}, all |-> TRUE, domain |-> "d",
              run |-> "r", order |-> <<"session", "domain">>]
OfUser == [InSession EXCEPT !.run = Unset, !.all = FALSE, !.users = {"v"}, !.mods = {},
                            !.order = <<"user">>]
\* Any of several modalities, and of the user.
OfEither == [OfUser EXCEPT !.mods = {"text", "image"}]
Asks == {InSession, OfUser, OfEither}
Alternatives == {OfEither}

\* What the proofs assume of requests holds of these, and of what the code makes of
\* any request: the scope it asks for, and then the others of one fallback order.
Fallbacks == {<< >>, <<"session", "domain", "user">>}
Asking(order) ==
  LET asks(sc) == [mods : {{}, {"text"}, {"text", "image"}}, users : SUBSET {"u", "v"},
                   all : BOOLEAN, domain : {Unset, "d"}, run : {Unset, "r"},
                   order : {<<sc>> \o SelectSeq(order, LAMBDA other : other # sc)}]
  IN UNION {asks(sc) : sc \in Scopes \ {"open"}}
ASSUME RequestsAssumption ==
  /\ OneOrder
  /\ \A order \in Fallbacks : \A q, r \in Asking(order) : Relies(r, q) => Covers(q, r)
=============================================================================
