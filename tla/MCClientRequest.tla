---------------------------- MODULE MCClientRequest ----------------------------
(* Model-checking instance of ClientRequest: two goroutines on one         *)
(* connection, and replies of every kind the pipeline tells apart.         *)
EXTENDS ClientRequest

Usual == [status |-> "200", encoding |-> "identity", stream |-> "value", tail |-> "end",
          data |-> "fits", errors |-> 0]
Gzipped(r) == [r EXCEPT !.encoding = "gzip"]
NoValue(r, streams) ==
  {[r EXCEPT !.stream = s, !.data = "absent"] : s \in streams}

Envelopes ==
  {[Usual EXCEPT !.data = d, !.errors = n] : d \in {"absent", "null", "fits", "misfits"}, n \in {0, 2}}
GzipStreams == {"malformed", "bad gzip header", "corrupt gzip", "lost"}

MCReplies ==
  Envelopes
  \cup {Gzipped(Usual), [Usual EXCEPT !.tail = "lost"], [Gzipped(Usual) EXCEPT !.tail = "corrupt gzip"]}
  \cup NoValue(Usual, {"malformed", "lost"})
  \cup NoValue(Gzipped(Usual), GzipStreams)
  \cup {[r EXCEPT !.status = "other"] : r \in {Usual} \cup NoValue(Gzipped(Usual), GzipStreams)}
=================================================================================
