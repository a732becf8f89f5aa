---------------------------- MODULE Capabilities ----------------------------
(***************************************************************************)
(* What the image processors support: src/src/capabilities.  The           *)
(* capabilities of a processor are read once from the XML files of         *)
(* /vendor/etc/gralloc, in the order in which readdir lists them.  The     *)
(* search for one processor stops at the first file that names it, and is  *)
(* given up at the first file that does not parse; a processor whose       *)
(* search was given up restricts nothing.                                  *)
(*                                                                         *)
(* A directory is a sequence of files [xml, parses, ips], where ips is a   *)
(* sequence of [ip, features] and features one of <<name, permission>>.    *)
(***************************************************************************)
EXTENDS Integers, SequencesExt

CONSTANT Dirs          \* the configuration directories to consider, by name

IPs == {"GPU", "DPU", "DPU_AEU", "VPU", "CAM"}

\* The capabilities of ip: <<its features>>, or << >> when none were found.
find_ip_capabilities(dir, ip) ==
  LET names(i) == \E j \in DOMAIN dir[i].ips : dir[i].ips[j].ip = ip
      stops == {i \in DOMAIN dir : dir[i].xml /\ (~dir[i].parses \/ names(i))}
      first == Min(stops)
      entry == CHOOSE j \in DOMAIN dir[first].ips :
                 /\ dir[first].ips[j].ip = ip
                 /\ \A k \in 1..(j - 1) : dir[first].ips[k].ip # ip
  IN IF stops = {} THEN << >>
     ELSE IF ~dir[first].parses THEN << >>
     ELSE <<dir[first].ips[entry].features>>

\* The first entry of the feature decides.
is_feature_supported(features, feature, permission) ==
  LET entries == {i \in DOMAIN features : features[i][1] = feature}
  IN /\ entries # {}
     /\ features[Min(entries)][2] \in {"RW", permission}

Features ==
  {"FORMAT_R10G10B10A2", "FORMAT_R10G10B10A10", "FORMAT_R16G16B16A16_FLOAT",
   "FORMAT_DEPTH_STENCIL", "YUV_BL_8", "YUV_BL_10", "AFBC_16X16", "AFBC_32X8", "AFBC_64X4",
   "AFBC_BLOCK_SPLIT", "AFBC_TILED_HEADERS", "AFBC_DOUBLE_BODY", "AFBC_WRITE_NON_SPARSE",
   "AFBC_YUV", "AFBC_FORMAT_R16G16B16A16_FLOAT", "AFBC_FORMAT_Y210", "FORMAT_RGB16",
   "AFRC_ROT_LAYOUT", "AFRC_SCAN_LAYOUT", "DISABLED"}

CpuFeatures == {"FORMAT_R10G10B10A2", "FORMAT_R10G10B10A10", "FORMAT_R16G16B16A16_FLOAT",
                "FORMAT_RGB16", "FORMAT_DEPTH_STENCIL"}

\* capability_handles, built once: what each processor can write and read.  A processor
\* without capabilities restricts nothing.
Handles ==
  [d \in DOMAIN Dirs |->
     LET caps == [ip \in IPs |-> find_ip_capabilities(Dirs[d], ip)]
         can(ip, permission) == {f \in Features : caps[ip] # << >> =>
                                   is_feature_supported(caps[ip][1], f, permission)}
     IN [write |-> [ip \in IPs |-> can(ip, "WO")], read |-> [ip \in IPs |-> can(ip, "RO")]]]

\* Without the GPU's capabilities ip_support_feature aborts the process.
ASSUME GpuIsConfigured ==
  \A d \in DOMAIN Dirs : find_ip_capabilities(Dirs[d], "GPU") # << >>

ip_support_feature(dir, producers, consumers, feature) ==
  /\ "CPU" \in producers \cup consumers => feature \in CpuFeatures
  /\ \A ip \in producers \cap IPs : feature \in Handles[dir].write[ip]
  /\ \A ip \in consumers \cap IPs : feature \in Handles[dir].read[ip]

\* ip_t::present of one processor.
present(dir, ip) == ~ip_support_feature(dir, {ip}, {ip}, "DISABLED")

=============================================================================
