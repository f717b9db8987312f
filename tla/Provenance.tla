----------------------------- MODULE Provenance ----------------------------
(***************************************************************************)
(* From a filter entry of the manifest to a loaded filter: reading the     *)
(* offline OCI layout (crates/control/src/oci.rs) and the gates of         *)
(* Host::load (crates/host/src/lib.rs).                                    *)
(*                                                                         *)
(* A layout is [index, manifests, blobs].  A descriptor is                 *)
(* [media, algo, hex, size]; a blob file is [hash, len, symlink, data]     *)
(* with hash the SHA-256 its bytes really have.  A signature file's data   *)
(* is [key, over], an SBOM's [statement, subjects], an image manifest's    *)
(* its sequence of layers, a component's [links, init, body].              *)
(***************************************************************************)
EXTENDS Integers, Sequences, FiniteSets

CONSTANT MAX_BLOB_BYTES

Absent == [ok |-> FALSE]

\* read_blob: the digest is well-formed, the declared size bounds the read, and
\* the bytes hash to the digest.
read_blob(layout, d) ==
  IF /\ d.algo = "sha256"
     /\ d.hex # "malformed"
     /\ d.size <= MAX_BLOB_BYTES
     /\ d.hex \in DOMAIN layout.blobs
     /\ ~layout.blobs[d.hex].symlink
     /\ layout.blobs[d.hex].len = d.size
     /\ layout.blobs[d.hex].hash = d.hex
  THEN [ok |-> TRUE, file |-> layout.blobs[d.hex]]
  ELSE Absent

\* The first layer of a media type, read.
ReadLayer(layout, layers, media) ==
  LET at == {i \in DOMAIN layers : layers[i].media = media} IN
  IF at = {} THEN Absent
  ELSE read_blob(layout, layers[CHOOSE i \in at : \A j \in at : i <= j])

LayerTypes == {"component", "component_signature", "sbom", "sbom_signature"}

\* read_layout: only the first image manifest counts and its digest is the pin.
read_layout(layout, pinned) ==
  IF \/ layout.index # "ok"                  \* missing, a symlink, too long, not JSON
     \/ layout.manifests = <<>>
     \/ layout.manifests[1].hex # pinned
     \/ ~read_blob(layout, layout.manifests[1]).ok
  THEN Absent
  ELSE LET layers == read_blob(layout, layout.manifests[1]).file.data
           read   == [m \in LayerTypes |-> ReadLayer(layout, layers, m)]
       IN  IF \E m \in LayerTypes : ~read[m].ok THEN Absent
           ELSE [ok |-> TRUE, artifact |-> [m \in LayerTypes |-> read[m].file]]

----------------------------------------------------------------------------
\* TrustPolicy::verifies
verifies(trust, signature, msg) ==
  signature.data.key \in trust /\ signature.data.over = msg.hash

sbom_binds_component(sbom, component) ==
  sbom.data.statement /\ component.hash \in sbom.data.subjects

\* load_inner: every gate before wasmtime touches the bytes, then linking, then
\* the first instance of a trusted filter with its init.
load_inner(trust, id, artifact, opts) ==
  /\ id \notin {"", "delimited"}
  /\ artifact.sbom.len > 0
  /\ verifies(trust, artifact.component_signature, artifact.component)
  /\ verifies(trust, artifact.sbom_signature, artifact.sbom)
  /\ sbom_binds_component(artifact.sbom, artifact.component)
  /\ artifact.component.data.links
  /\ opts.isolation = "trusted" => artifact.component.data.init = "ok"
============================================================================
