----------------------------- MODULE MCGitHooks -----------------------------
(***************************************************************************)
(* Instances of GitHooks for TLC: pushes of up to two refs and commits of  *)
(* up to two files, three guards of which two run at a time.               *)
(***************************************************************************)
EXTENDS GitHooks

Compared(changes)  == [deletion |-> FALSE, base |-> "found", changes |-> changes]
Uncompared(changes) == [deletion |-> FALSE, base |-> "none", changes |-> changes]
Deletion           == [deletion |-> TRUE, base |-> "none", changes |-> {}]

SomeRefs == {Compared({}), Compared({"doc"}), Compared({"guard_only"}),
             Compared({"strings", "doc"}),
             Compared({"mathlib"}), Compared({"doc", "other"}),
             Uncompared({"doc"}), Deletion}

FirstRefs == {Uncompared({"doc"}), Compared({"strings", "doc"}),
              Deletion}

SomePushes == {<< >>} \union {<<r>> : r \in SomeRefs}
              \union {<<r, s>> : r \in FirstRefs, s \in SomeRefs}

File(class, diff, accepted) == [path |-> class, diff |-> diff, accepted |-> accepted]

SomeCommits == {{File("other", "M", TRUE), File("doc", "D", TRUE)},
                {File("doc", "A", TRUE), File("mathlib", "M", TRUE)},
                {File("doc", "A", TRUE), File("other", "D", TRUE)},
                {File("other", "R", FALSE)},
                {File("doc", "M", TRUE), File("other", "C", FALSE)}}

In(which, repo, skip, full, classifier) ==
  [hook |-> which, repo |-> repo, skipHooks |-> skip, forceFull |-> full,
   classifier |-> classifier]

SomeSettings == {In("pre-push", "parent", FALSE, FALSE, "works"),
                 In("pre-push", "sv0c", FALSE, FALSE, "works"),
                 In("pre-push", "parent", FALSE, FALSE, "fails"),
                 In("pre-push", "sv0c", FALSE, FALSE, "absent"),
                 In("pre-push", "parent", FALSE, TRUE, "works"),
                 In("pre-push", "parent", TRUE, FALSE, "works"),
                 In("pre-push", "unknown", FALSE, FALSE, "works"),
                 In("pre-commit", "parent", FALSE, FALSE, "works"),
                 In("pre-commit", "parent", FALSE, FALSE, "fails"),
                 In("pre-commit", "sv0c", FALSE, FALSE, "works"),
                 In("pre-commit", "unknown", FALSE, FALSE, "works")}

SomeNatures == {<<"flaky", "flaky", "sound">>, <<"flaky", "broken", "flaky">>,
                <<"sound", "flaky", "broken">>}

SomeFailures == {{}, {"units", "sv0c"}, {"loop"}, {"orphans", "alloc"}}
=============================================================================
