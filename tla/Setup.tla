-------------------------------- MODULE Setup --------------------------------
(* What a user runs besides the service: the setup of the mice (SetupSession),  *)
(* the update of the program (Updater), and the automatic discovery of a mouse  *)
(* (Discovery). They share nothing but the user.                                *)
EXTENDS SetupSession

-----------------------------------------------------------------------------
(* One update                                                                 *)

CONSTANTS Current, Latest, Other, Corrupt

VARIABLES kind, step, release, installed, inode, seen, file, placed, active, running,
          code, told, foreign

updateVars == <<kind, step, release, installed, inode, seen, file, placed, active, running,
                code, told, foreign>>

\* Versions are compared; what is no version at all is only told apart.
ASSUME VersionsAreNumbers == Current \in Nat /\ Latest \in Nat /\ Other \in Nat

U == INSTANCE Updater

\* Updater: what an update reports is true of the files and of the service, and it puts
\* nothing in place but what was verified, over nothing but what it looked at.
ReportedUpdateIsReal == U!ReportedUpdateIsReal

-----------------------------------------------------------------------------
(* Discoveries                                                                *)

CONSTANTS Nodes, HidppVendor, Bootloader, Capabilities, MaxCommands, Replies, Updatable

VARIABLES path, layout, examined, learned, profiles, discovered, plan, opened, status, proofs,
          runs

discoveryVars == <<path, layout, examined, learned, profiles, discovered, plan, opened, status,
                   proofs, runs>>

\* The kernel has finitely many device nodes. Those of a unit are of one product, one of them
\* takes its events, and no two units have one Bluetooth address.
ASSUME NodesAreFinite == IsFiniteSet(Nodes)
ASSUME NodesAreOfUnits ==
  \A m, n \in Nodes :
    /\ m.unit = n.unit => m.product = n.product
    /\ m.unit = n.unit /\ m.type = "evdev" /\ n.type = "evdev" => m = n
    /\ ~m.usb /\ ~n.usb /\ m.uniq = n.uniq /\ m.uniq # None => m.unit = n.unit

V == INSTANCE Discovery WITH Vendor <- HidppVendor, mouse <- examined, result <- discovered,
                             exit <- status, commands <- runs

-----------------------------------------------------------------------------
(* Tests of how long a setting lasts                                          *)

CONSTANTS TestMice, TestUsers, TestExperiments, MaxTests

VARIABLES tested, user, setting, reported, committed, observed, persistence, kept, assessment

ladderVars == <<tested, user, setting, reported, committed, observed, persistence, kept,
                assessment>>

\* A level after which the setting is forgotten, beyond the last for one that is not; and
\* what is not known is no value.
ASSUME LevelsAreNumbers == \A m \in TestMice : m.forgets \in Nat
ASSUME UsersHaveNumbers == \A u \in TestUsers : u.cost \in Nat
ASSUME NoneIsNoReading ==
  None \notin {"old", "new"} /\ None \notin BOOLEAN /\ None \notin Nat

Ladder == INSTANCE Persistence WITH mouse <- tested, value <- setting, effects <- observed,
                                    Mice <- TestMice, Users <- TestUsers,
                                    Experiments <- TestExperiments

-----------------------------------------------------------------------------
(* Which family a mouse speaks                                                *)

CONSTANTS Repertoire, SpeakingMice, Margin, MaxObservations

VARIABLES mouse, evidence, supplied, verdict, proof

recognitionVars == <<mouse, evidence, supplied, verdict, proof>>

\* There are finitely many families, in the order of their names; what is asked of one and
\* what counts for it are numbers, none negative (SemanticDiscriminator, RecognitionRecipe);
\* the margin is never given and so 3; and no mouse is told by an identity it does not have.
ASSUME FamiliesAreNumbered == DOMAIN Repertoire \subseteq Nat /\ IsFiniteSet(DOMAIN Repertoire)
ASSUME ScoresAreNumbers ==
  /\ Margin \in Nat \ {0}
  /\ \A f \in DOMAIN Repertoire :
       /\ Repertoire[f].minimum \in Nat
       /\ IsFiniteSet(DOMAIN Repertoire[f].signatures)
       /\ \A i \in DOMAIN Repertoire[f].signatures : Repertoire[f].signatures[i].weight \in Nat
ASSUME RecipesAreFinite ==
  \A f \in DOMAIN Repertoire :
    /\ Repertoire[f].recipe.kind # None => Repertoire[f].recipe.categories \in Nat
    /\ Repertoire[f].recipe.kind = "exchange" =>
         /\ IsFiniteSet(Repertoire[f].recipe.checks)
         /\ \A c \in Repertoire[f].recipe.checks : c.weight \in Nat
ASSUME NoneIsNoIdentity ==
  \A f \in DOMAIN Repertoire :
    None \notin Repertoire[f].vendors /\ None \notin Repertoire[f].products

Who == INSTANCE Recognition WITH Mice <- SpeakingMice

-----------------------------------------------------------------------------
(* Captures of the vendors                                                    *)

CONSTANTS Captures, FileOf, MaxImports, MaxReviews, MaxDamaged

VARIABLES preview, stored, damaged, shown, closed, reviews

captureVars == <<preview, stored, damaged, shown, closed, reviews>>

\* What has no family is not of a modern one; the records of a file have their places in it.
ASSUME NoneIsNoFamily == None # "modern"
ASSUME RecordsHavePlaces == \A c \in Captures : DOMAIN FileOf[c].source.records \subseteq Nat

Vendor == INSTANCE VendorCapture

-----------------------------------------------------------------------------
(* What is found out                                                          *)

\* Discovery: what a discovery or a stored profile calls writable was proven once, on a device
\* of the same model or, for a stored profile, on the very unit, by an interface that it has
\* now unless it was learned and comes from a profile; and never on another unit that can be
\* told from it.
WritableWasProven == V!WritableWasProven

\* Discovery: a mouse in its bootloader is not opened to look for what it is.
BootloaderIsLeftAlone == V!BootloaderIsLeftAlone

\* Persistence: an effect is confirmed where there is one; that a setting lasts beyond the
\* session is said where it did; a test is proposed after every milder one, to a user who
\* accepts it; and after a fresh reading of the highest level so far the user is asked to
\* restore what is changed, and only that.
LadderIsSound == Ladder!LadderIsSound

\* Recognition: a family is recognized on its own evidence, which nothing contradicts, ahead
\* of every other by the margin, and never because of who made the mouse.
RecognizedLeads == Who!RecognizedLeads

\* VendorCapture: the imports that are accepted agree, a warning stays with what it is about,
\* and an answer is that of its request.
EvidenceIsSound == Vendor!EvidenceIsSound

=============================================================================
