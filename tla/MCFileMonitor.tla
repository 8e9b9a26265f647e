--------------------------- MODULE MCFileMonitor ---------------------------
(***************************************************************************)
(* Two roots and two paths: a document, and a unit file, which is under    *)
(* markers of two categories.                                              *)
(***************************************************************************)
EXTENDS FileMonitor

MCCandidates == <<"system_config", "documents">>
MCPaths == {"document", "unit_file"}
MCMarkers == [p \in MCPaths |->
                IF p = "document" THEN {} ELSE {"/etc", "/etc/systemd/system"}]
MCCategories == << <<"system_config", {"/etc"}>>,
                   <<"ssh_keys", {".ssh"}>>,
                   <<"autostart", {".config/autostart", "/etc/systemd/system"}>> >>
=============================================================================
