-------------------------------- MODULE Http --------------------------------
(***************************************************************************)
(* One request through http.Client.Do, with the service behind it.  All of *)
(* it is outside the repository.  An exchange says which request the       *)
(* service carried out in the end, and what came back.                     *)
(***************************************************************************)
CONSTANT Faults
(***************************************************************************)
(* "unsent"    the request cannot be built                                 *)
(* "lost"      no answer: the service may have acted, or not               *)
(* "moved"     a redirect the client follows with GET and without the body *)
(*             (301, 302, 303), as it does for every method                *)
(* "refused"   401 or 403 for a reason that has nothing to do with policies*)
(*             (an expired token, a missing privilege)                     *)
(* "error"     any other status outside 2xx; a gateway may send it although*)
(*             the service acted                                           *)
(* "garbled"   a 2xx whose body is cut, too long, or not what is expected  *)
(***************************************************************************)
ASSUME FaultsAssumption ==
    Faults \subseteq {"unsent", "lost", "moved", "refused", "error", "garbled"}

None == "none"

Exchange(served, reply) == [served |-> served, reply |-> reply]

\* What may become of a request.
Exchanges(method) ==
    {Exchange(method, "answer")} \cup
    {x \in { Exchange(None, "unsent"),
             Exchange(None, "lost"), Exchange(method, "lost"),
             Exchange("GET", "moved"),
             Exchange(None, "refused"),
             Exchange(None, "error"), Exchange(method, "error"),
             Exchange(method, "garbled") } : x.reply \in Faults}
=============================================================================
