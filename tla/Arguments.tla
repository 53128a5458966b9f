----------------------------- MODULE Arguments ------------------------------
(***************************************************************************)
(* What becomes of a value on its way from caller to handler, or from      *)
(* handler to caller: ArgTranslator of xuri_rpc/rpc.py, which puts a       *)
(* descriptor in the place of what cannot be copied and a RemoteProxy in   *)
(* the place of a descriptor, and between them the transport, of which the *)
(* WebSocket's text mode is JSON with a code for bytes.                    *)
(*                                                                         *)
(* A value is a tree: its kind, and the values in it.  Keys are left out,  *)
(* but a dict that has the translator's type indicator among its keys is a *)
(* kind of its own, and so is a str that begins with BYTES_PREFIX.  That   *)
(* the id in a descriptor leads to its object is for ProxyRegistry.        *)
(***************************************************************************)
EXTENDS Sequences

Scalar == {"none", "number", "bytes", "prefixed"}
Entity == {"object", "function"}
Dict == {"dict", "marked"}

Node(kind, parts) == [kind |-> kind, parts |-> parts]
Leaf(kind) == Node(kind, <<>>)

Parts(v) == {v.parts[i] : i \in DOMAIN v.parts}

CopiesProxies(v) == v.kind \in Entity

\* neither simple, nor a list, nor a dict: a RemoteProxy is such an object,
\* too, and the peer it came from gets a proxy of the proxy back
NeedsProxy(v) == v.kind \in Entity \cup {"proxy"}

\* ArgTranslator.toArgObj; "asProxy" is the PreArgObj that asProxy returns
RECURSIVE toArgObj(_)
toArgObj(v) ==
  CASE NeedsProxy(v) -> Node("descriptor", <<v>>)
    [] v.kind = "asProxy" -> Node("descriptor", v.parts)
    [] v.kind \in Dict \cup {"list"} ->
         [v EXCEPT !.parts = [i \in DOMAIN @ |-> toArgObj(@[i])]]
    [] OTHER -> v

\* Whether reverseToArgObj raises: a dict that looks like a descriptor has no
\* id, perhaps.
RECURSIVE Raises(_)
Raises(v) ==
  \/ v.kind = "marked"
  \/ v.kind \in {"list", "dict"} /\ \E p \in Parts(v) : Raises(p)

\* ArgTranslator.reverseToArgObj
RECURSIVE reverseToArgObj(_)
reverseToArgObj(v) ==
  CASE v.kind = "descriptor" -> Node("proxy", v.parts)
    [] v.kind \in {"list", "dict"} ->
         [v EXCEPT !.parts = [i \in DOMAIN @ |-> reverseToArgObj(@[i])]]
    [] OTHER -> v

\* JSON with _json_replacer and _json_reviver: bytes are written as a str
\* with a prefix, and such a str is read back as bytes where json.loads calls
\* its object_hook, which is for the values of a dict.
RECURSIVE ThroughText(_, _)
ThroughText(v, holder) ==
  CASE v.kind \in {"bytes", "prefixed"} ->
         Leaf(IF holder \in Dict THEN "bytes" ELSE "prefixed")
    [] v.kind \in Dict \cup {"list"} ->
         [v EXCEPT !.parts = [i \in DOMAIN @ |-> ThroughText(@[i], v.kind)]]
    [] OTHER -> v

\* the transport; `holder` is what the value is in: an argument is in the
\* list message['args'], a result is message['data']
Through(wire, v, holder) ==
  IF wire = "text" THEN ThroughText(v, holder) ELSE v
-----------------------------------------------------------------------------
(* What the documentation says: data-type objects are copied, and of the   *)
(* others the remote end gets a proxy.                                     *)

RECURSIVE Promised(_)
Promised(v) ==
  CASE v.kind \in Scalar -> v
    [] v.kind \in {"list", "dict"} ->
         [v EXCEPT !.parts = [i \in DOMAIN @ |-> Promised(@[i])]]
    [] v.kind \in {"object", "function", "proxy"} -> Node("proxy", <<v>>)
    [] v.kind = "asProxy" -> Node("proxy", v.parts)
    [] OTHER -> v

\* Values that could be taken for something else: a dict with the indicator
\* among its keys, a str with the prefix.
RECURSIVE Ambiguous(_)
Ambiguous(v) ==
  \/ v.kind \in {"marked", "prefixed"}
  \/ v.kind \in {"list", "dict"} /\ \E p \in Parts(v) : Ambiguous(p)

\* bytes as elements of a list
RECURSIVE BytesInList(_, _)
BytesInList(v, holder) ==
  \/ v.kind = "bytes" /\ holder = "list"
  \/ v.kind \in {"list", "dict"} /\ \E p \in Parts(v) : BytesInList(p, v.kind)

\* an argument that is taken for nothing else on its way to the handler
Unmistakable(wire, v) ==
  ~Ambiguous(v) /\ (wire = "text" => ~BytesInList(v, "list"))
=============================================================================
