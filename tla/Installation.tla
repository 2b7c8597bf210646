---------------------------- MODULE Installation ----------------------------
(***************************************************************************)
(* A checkout whose runtime files, entry surface and ABI versions change,  *)
(* the manifests that record them, the guards that compare them, and       *)
(* build_install_layout, which copies the modules of the driver, runtime   *)
(* and compiler into a tree of their own, file by file.  A build in that   *)
(* tree verifies what lies beside it and knows nothing of the checkout.    *)
(*                                                                         *)
(* Three modules of the driver say what the manifests record: its two ABI  *)
(* versions and the entry surface, the reserved symbols and the adapter    *)
(* shapes.  Hashes are versions.                                           *)
(***************************************************************************)
EXTENDS Naturals, FiniteSets

CONSTANT MaxTouch  \* bound: how often somebody edits runtime or driver

ASSUME TouchAssumption == MaxTouch \in Nat

VARIABLES
  driver,    \* what the modules of the checkout say
  runtime,   \* file of sv0c/runtime -> its contents
  hashed,    \* {} or the header as the manifest writer has read it
  approved,     \* the guards passed on what is there
  installer, \* "idle", "modules", "copying", "launcher"
  pending,   \* the modules it has still to copy
  installed,      \* the tree: what its modules say, its runtime files, whether compiler and launcher are there
  accepted,  \* {} or what the build of the tree that got past the checks was made from
  touches,
  stood,     \* history: headers and sources that stood together
  honest,    \* history: no manifest of one version replaced by another of that version
  origin,    \* history: module of the tree -> the surface of the driver it was copied from, with green guards
  apart      \* history: no runtime file changed while its manifest was written

installVars ==
  <<driver, runtime, hashed, approved, installer, pending, installed, accepted, touches, stood, honest, origin,
    apart>>

(* Modules, and what each of them says.                                    *)
Module == {"entry_reserved", "entry_abi", "runtime_manifest"}

Declares(m) ==
  CASE m = "entry_reserved" -> {"symbols"}
    [] m = "entry_abi" -> {"shapes", "entry"}
    [] m = "runtime_manifest" -> {"abi"}

SurfaceField == {"symbols", "shapes", "entry"}
SurfaceModule == {"entry_reserved", "entry_abi"}
Field == SurfaceField \union {"abi"}

RuntimeFile == {"header", "source", "manifest", "entry-manifest", "abi-version"}

NoTree == [driver |-> [f \in {} |-> 0], runtime |-> [f \in {} |-> 0], compiler |-> FALSE, launcher |-> FALSE]

InstallInit ==
  /\ driver = [f \in Field |-> 0]
  /\ runtime = [f \in RuntimeFile |->
                  CASE f = "manifest" -> [abi |-> 0, header |-> 0, source |-> 0]
                    [] f = "entry-manifest" -> [g \in SurfaceField |-> 0]
                    [] OTHER -> 0]
  /\ hashed = {} /\ approved = FALSE
  /\ installer = "idle" /\ pending = {} /\ installed = NoTree /\ accepted = {}
  /\ touches = 0 /\ stood = {<<0, 0>>} /\ honest = TRUE /\ apart = TRUE
  /\ origin = [m \in SurfaceModule |-> {}]

-----------------------------------------------------------------------------
(* The checkout.                                                           *)

Changed == touches < MaxTouch /\ touches' = touches + 1 /\ approved' = FALSE
Rewritten == approved' = FALSE /\ UNCHANGED touches

TreeStays == UNCHANGED <<installer, pending, installed, accepted, origin>>

EditRuntime ==
  /\ Changed
  /\ \E f \in {"header", "source"} : runtime' = [runtime EXCEPT ![f] = touches + 1]
  /\ stood' = stood \union {<<runtime'["header"], runtime'["source"]>>}
  /\ apart' = (apart /\ hashed = {})
  /\ TreeStays /\ UNCHANGED <<driver, hashed, honest>>

(* Another set of reserved symbols or another adapter shape, with a new    *)
(* version or not, or a new version only.                                  *)
EditDriver ==
  /\ Changed
  /\ \E edited \in {{"abi"}} \union {{f} : f \in SurfaceField} \union {{f, "entry"} : f \in SurfaceField} :
       driver' = [f \in Field |-> IF f \in edited THEN touches + 1 ELSE driver[f]]
  /\ TreeStays /\ UNCHANGED <<runtime, hashed, stood, honest, apart>>

(* native_exe_runtime_manifest.py --write: the header, then the source,    *)
(* then the manifest.  The text with the ABI version is written by hand.   *)
HashHeader ==
  /\ hashed = {} /\ Changed /\ hashed' = {runtime["header"]}
  /\ TreeStays /\ UNCHANGED <<driver, runtime, stood, honest, apart>>

WriteManifest ==
  /\ hashed # {} /\ hashed' = {} /\ Rewritten
  /\ \E text \in {driver["abi"], runtime["abi-version"]}, header \in hashed :
       runtime' = [runtime EXCEPT !["abi-version"] = text,
                     !["manifest"] = [abi |-> driver["abi"], header |-> header, source |-> runtime["source"]]]
  /\ TreeStays /\ UNCHANGED <<driver, stood, honest, apart>>

(* native_exe_entry_abi.py --write-manifest                                *)
Surface == [f \in SurfaceField |-> driver[f]]

(* A surface may change when its version does; a snapshot of another       *)
(* version is no mistake to this check, but it is to EntryFits.            *)
SurfaceFits ==
  runtime["entry-manifest"]["entry"] = driver["entry"] => runtime["entry-manifest"] = Surface

(* Bound: only a rewrite that a version should have gone with counts.      *)
WriteEntryManifest ==
  /\ IF SurfaceFits THEN Rewritten ELSE Changed
  /\ runtime' = [runtime EXCEPT !["entry-manifest"] = Surface]
  /\ honest' = (honest /\ SurfaceFits)
  /\ TreeStays /\ UNCHANGED <<driver, hashed, stood, apart>>

ManifestFits(files, d) ==
  /\ {"header", "source", "manifest"} \subseteq DOMAIN files
  /\ files["manifest"] = [abi |-> d["abi"], header |-> files["header"], source |-> files["source"]]

BundleFits == runtime["abi-version"] = driver["abi"]

EntryFits_present(files, d) == "entry-manifest" \in DOMAIN files

EntryFits(files, d) ==
  "entry-manifest" \in DOMAIN files /\ files["entry-manifest"]["entry"] = d["entry"]

RunInstallGuards ==
  /\ ~approved /\ SurfaceFits /\ ManifestFits(runtime, driver) /\ BundleFits /\ EntryFits(runtime, driver)
  /\ approved' = TRUE
  /\ TreeStays /\ UNCHANGED <<driver, runtime, hashed, touches, stood, honest, apart>>

-----------------------------------------------------------------------------
(* build_install_layout, and the tree.                                     *)

CheckoutStays == UNCHANGED <<driver, runtime, hashed, approved, touches, stood, honest, apart>>

(* What is there, with some of it replaced.                                *)
Overlaid(there, part, source) ==
  [f \in DOMAIN there \union part |-> IF f \in part THEN source[f] ELSE there[f]]

(* Bounds: nobody installs any more once a build has got past the checks,  *)
(* or over a tree that will never be complete, as copytree raises there.   *)
BeginInstall ==
  /\ installer = "idle" /\ accepted = {}
  /\ DOMAIN installed.runtime = {} \/ installed.launcher
  /\ installer' = "modules" /\ pending' = Module
  /\ CheckoutStays /\ UNCHANGED <<installed, accepted, origin>>

CopiedFrom(m, surfaces) == [n \in SurfaceModule |-> IF n = m THEN surfaces ELSE origin[n]]

(* The modules are copied over those that are there, in any order.         *)
CopyModule(m) ==
  /\ m \in pending /\ accepted = {}
  /\ pending' = pending \ {m}
  /\ installed' = [installed EXCEPT !.driver = Overlaid(@, Declares(m), driver)]
  /\ origin' = CopiedFrom(m, IF approved THEN {Surface} ELSE {})
  /\ CheckoutStays /\ UNCHANGED <<installer, accepted>>

(* A copy that breaks off leaves a beginning of the module, which cannot   *)
(* be imported; the installer is at an end.                                *)
TornCopy(m) ==
  /\ m \in pending /\ accepted = {}
  /\ pending' = {} /\ installer' = "idle"
  /\ installed' = [installed EXCEPT !.driver = [f \in DOMAIN @ \ Declares(m) |-> @[f]]]
  /\ origin' = CopiedFrom(m, {})
  /\ CheckoutStays /\ UNCHANGED accepted

(* copytree raises where a runtime is, and leaves it beside the new driver. *)
MakeRuntime ==
  /\ installer = "modules" /\ pending = {}
  /\ installer' = IF DOMAIN installed.runtime = {} THEN "copying" ELSE "idle"
  /\ CheckoutStays /\ UNCHANGED <<pending, installed, accepted, origin>>

InstallerKilled ==
  /\ installer # "idle" /\ installer' = "idle" /\ pending' = {}
  /\ CheckoutStays /\ UNCHANGED <<installed, accepted, origin>>

CopyRuntimeFile(f) ==
  /\ installer = "copying" /\ f \notin DOMAIN installed.runtime
  /\ installed' = [installed EXCEPT !.runtime = Overlaid(@, {f}, runtime)]
  /\ CheckoutStays /\ UNCHANGED <<installer, pending, accepted, origin>>

CopyCompiler ==
  /\ installer = "copying" /\ DOMAIN installed.runtime = RuntimeFile
  /\ installed' = [installed EXCEPT !.compiler = TRUE] /\ installer' = "launcher"
  /\ CheckoutStays /\ UNCHANGED <<pending, accepted, origin>>

WriteLauncher ==
  /\ installer = "launcher" /\ installer' = "idle"
  /\ installed' = [installed EXCEPT !.launcher = TRUE]
  /\ CheckoutStays /\ UNCHANGED <<pending, accepted, origin>>

(* The launcher runs the driver of its tree, and that one takes runtime    *)
(* and compiler from the tree too.                                         *)
InstalledBuild ==
  /\ installed.launcher /\ installed.compiler /\ accepted = {} /\ DOMAIN installed.driver = Field
  /\ ManifestFits(installed.runtime, installed.driver) /\ EntryFits(installed.runtime, installed.driver)
  /\ accepted' = {[driver |-> installed.driver, runtime |-> installed.runtime]}
  /\ CheckoutStays /\ UNCHANGED <<installer, pending, installed, origin>>

InstallNext ==
  \/ EditRuntime \/ EditDriver \/ HashHeader \/ WriteManifest \/ WriteEntryManifest \/ RunInstallGuards
  \/ BeginInstall \/ \E m \in Module : CopyModule(m) \/ TornCopy(m)
  \/ MakeRuntime \/ CopyCompiler \/ WriteLauncher \/ InstallerKilled \/ InstalledBuild
  \/ \E f \in RuntimeFile : CopyRuntimeFile(f)

InstallSpec == InstallInit /\ [][InstallNext]_installVars

-----------------------------------------------------------------------------
(* Properties.                                                             *)

(* However the files of a tree were brought together, from one moment of   *)
(* the checkout, from several, or by a second installation that stopped    *)
(* between or within two modules: a build that gets past the checks has a  *)
(* header and a source that stood together in the checkout, unless         *)
(* somebody edited one while the manifest was written.  And what a module  *)
(* says of the entry surface is what the runtime in the tree records, when *)
(* the module was copied with green guards from a driver of the version    *)
(* the build reports, and no snapshot was replaced without a new version.  *)
(* A module of another version gets through these checks.                  *)
AcceptedTreeFits ==
  \A a \in accepted :
    /\ apart => <<a.runtime["header"], a.runtime["source"]>> \in stood
    /\ honest => \A m \in SurfaceModule : \A d \in origin[m] :
         d["entry"] = a.driver["entry"] =>
           \A f \in Declares(m) : a.driver[f] = a.runtime["entry-manifest"][f]
=============================================================================
