-------------------------------- MODULE Names --------------------------------
(***************************************************************************)
(* utils.go: the names of mirrored services.  A name is the sequence of    *)
(* its parts between dashes: joining strings with a dash is the            *)
(* concatenation of their parts, and a prefix, a namespace or a name may   *)
(* have several parts of its own.                                          *)
(***************************************************************************)
EXTENDS Naturals, Sequences

Part == STRING
Separator == "73736d"
Global == "gl"

ASSUME PartAssumption == {Separator, Global} \subseteq Part

MirrorName(prefix, namespace, name) == prefix \o namespace \o <<Separator>> \o name

GlobalServiceName(name, namespace) == <<Global>> \o namespace \o <<Separator>> \o name

-----------------------------------------------------------------------------
\* Two prefixes that differ in some part: neither is the beginning of the other.
Apart(p, q) == \E i \in DOMAIN p \cap DOMAIN q : p[i] # q[i]

\* A namespace from which the separator can be told.
Plain(namespace) == \A i \in DOMAIN namespace : namespace[i] # Separator
=============================================================================
