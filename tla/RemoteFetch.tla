---------------------------- MODULE RemoteFetch ----------------------------
(***************************************************************************)
(* One read of a peer's session list: the envelope its stdout may hold,    *)
(* the outcome of one ssh command, the own-only retry and the snapshot     *)
(* that comes of it (infra/remote/collector.py and envelope.py), and which *)
(* commands share the host's ssh master (ssh_argv.py, master_recovery.py). *)
(***************************************************************************)
EXTENDS Validation

CompatibilityCodes == {"update_remote", "update_local", "incompatible"}
ErrorCodes == CompatibilityCodes \union
  {"timeout", "ssh_error", "invalid_response", "remote_error", "fetch_error"}

\* What the text on stdout turns out to be, one field per check made on it.
\* "named": a uxon or schema version is given as a string; "relay": the
\* diagnostic identity a peer that forwards another's answer puts in its data.
Envelopes(S) ==
  [object   : BOOLEAN,
   named    : BOOLEAN,
   schema   : {"same", "older", "newer", "odd"},
   list     : BOOLEAN,
   data     : BOOLEAN,
   relay    : {"none", "named", "empty"},
   error    : {"none", "malformed", "unlisted"} \union ErrorCodes,
   records  : {"sound", "not_a_list", "not_objects", "bad_field",
               "bad_identity", "other_owner", "duplicate"},
   scope    : BOOLEAN,
   stats    : {"none", "sound", "bad"},
   sessions : S]

SchemaCode(e) ==
  CASE e.schema = "older" -> "update_remote"
    [] e.schema = "newer" -> "update_local"
    [] OTHER              -> "incompatible"

ReportedCode(e) ==
  CASE e.error \in ErrorCodes   -> e.error
    [] e.error = "malformed"    -> "invalid_response"
    [] OTHER                    -> "remote_error"

\* decode_envelope: the checks in the order they are made.
EnvelopeCode(e) ==
  FirstFailure(<< <<e.object,            "invalid_response">>,
                  <<e.schema = "same",   SchemaCode(e)>>,
                  <<e.list,              "invalid_response">>,
                  <<e.data,              "invalid_response">>,
                  <<e.error = "none",    ReportedCode(e)>>,
                  <<e.records = "sound", "invalid_response">>,
                  <<e.scope,             "invalid_response">>,
                  <<e.stats # "bad",     "invalid_response">> >>, "none")

\* _peer_info: what is known of the peer even when decoding fails.
PeerKnown(e) ==
  /\ e.object
  /\ IF e.schema = "same" /\ e.list /\ e.data /\ e.relay # "none"
     THEN e.relay = "named" ELSE e.named

NoEnvelope == [object |-> FALSE]

(* One ssh command: how it ended, and what it wrote.                        *)
\* "marker": stderr holds the peer's refusal of --all-users.
Ended == {"ok", "exit", "missing", "timeout", "raised"}
RunCode(o) ==
  CASE o.ended = "ok"      -> "none"
    [] o.ended = "timeout" -> "timeout"
    [] o.ended = "raised"  -> "fetch_error"
    [] OTHER               -> "ssh_error"

\* The retry with the peer's own sessions only.
FallsBack(o) == o.ended = "exit" /\ o.marker

\* The snapshot of the last command run.  A decodable error on stdout is
\* more specific than an exit status; sound data never overrides a failure.
\* Only a command that ran to its end left anything to decode.
Snapshot(o, limited) ==
  LET decodes == o.ended = "ok" \/ (o.ended = "exit" /\ o.written)
      told    == IF decodes THEN EnvelopeCode(o.env) ELSE "none"
      code    == IF told # "none" /\ (o.ended = "ok" \/ PeerKnown(o.env))
                 THEN told ELSE RunCode(o)
  IN  [code     |-> code,
       sessions |-> IF code = "none" THEN o.env.sessions ELSE {},
       limited  |-> limited]

IsLive(snapshot) == snapshot.code = "none"

\* build_peer_ssh_argv: only the default template asks for the shared master,
\* and only when multiplexing is on; attach always passes "off".
SharesMaster(custom, multiplex) == ~custom /\ multiplex # "off"

\* recover_wedged_master after a timeout: custom transports are left alone.
RecoversMaster(o, custom, multiplex) == o.ended = "timeout" /\ SharesMaster(custom, multiplex)
=============================================================================
