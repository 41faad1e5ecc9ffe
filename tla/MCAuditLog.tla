---- MODULE MCAuditLog ----
(* One member that opens twice; the second one is there to be confused with. *)
EXTENDS AuditLog

CONSTANTS s1, p1, p2

MCMember == {<<s1, p1>>}
MCMembers == {<<s1, p1>>, <<s1, p2>>}
MCMaxEvents == [m \in Members |-> IF m[2] = p1 THEN 3 ELSE 1]
============================
