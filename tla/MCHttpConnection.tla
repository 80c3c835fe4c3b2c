-------------------------- MODULE MCHttpConnection --------------------------
(* HttpConnection on a small instance: a buffer of four cells. *)
EXTENDS HttpConnection

Get(head, keep) == [method |-> "GET", head |-> head, body |-> 0,
                    type |-> "whole", keepAlive |-> keep]
Post(type, body) == [method |-> "POST", head |-> 1, body |-> body,
                     type |-> type, keepAlive |-> TRUE]

AllRequests == {Get(1, TRUE), Get(3, FALSE), Post("whole", 2), Post("whole", 4),
                Post("multipart", 4), Post("multipart", 5),
                Post("multipart", 0),
                Post("rejected", 1)}

Resp(source, size) ==
  [source |-> source, size |-> size, length |-> size, upgrades |-> FALSE]

AllResponses ==
  {Resp("string", n) : n \in {0, 5}} \union {Resp("message", 2), Resp("redirect", 0)}
  \union {Resp("file", n) : n \in {0, 4}}
  \union {Resp("deflated", n) : n \in {0, 2}}
  \union {Resp("stored", n) : n \in {4, 6}}
  \union {[Resp("generated", 3) EXCEPT !.length = n] : n \in {2, 3, 4, Unknown}}
  \union {[Resp("string", 0) EXCEPT !.upgrades = TRUE]}
=============================================================================
