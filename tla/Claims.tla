------------------------------- MODULE Claims --------------------------------
(***************************************************************************)
(* The result a stage of a turn answers with (src/src/domain.ts): evidence *)
(* and claims about the items of the question, each with the evidence it   *)
(* cites.  Where text matters, a claim says whether any of it may be shown.*)
(* Evidence and claims are listed by their places; when some are dropped   *)
(* the others keep theirs.                                                 *)
(***************************************************************************)
EXTENDS Integers, Sequences, Functions, Places

Members(s) == {s[i] : i \in DOMAIN s}
Ids(s) == {s[i].id : i \in DOMAIN s}

(* The identity of a claim that brought none; the review numbers those.    *)
Unnamed == <<"claim", 0>>
Claim(id, type, role, answers, evidence) ==
  [id |-> id, type |-> type, role |-> role, answers |-> answers,
   evidence |-> evidence, visible |-> TRUE]
Evidence(id, kind, conf) == [id |-> id, kind |-> kind, conf |-> conf]
Result(status, next, missing, evidence, claims) ==
  [status |-> status, next |-> next, missing |-> missing,
   evidence |-> evidence, claims |-> claims]
Statuses == {"concluded", "need_input", "partial"}

IsClaim(c) ==
  /\ c = [id |-> c.id, type |-> c.type, role |-> c.role, answers |-> c.answers,
          evidence |-> c.evidence, visible |-> c.visible]
  /\ c.visible \in BOOLEAN
IsResult(r) ==
  /\ r = Result(r.status, r.next, r.missing, r.evidence, r.claims)
  /\ r.status \in Statuses
  /\ DOMAIN r.claims \subseteq Nat /\ \A c \in Members(r.claims) : IsClaim(c)

(* CoverageEvidenceEnvelope: what says that evidence is of this turn.      *)
Envelope(ev, kind, run, gen, cur, fit) ==
  [ev |-> ev, kind |-> kind, run |-> run, gen |-> gen, cur |-> cur, fit |-> fit]
=============================================================================
