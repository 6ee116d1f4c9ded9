\* A tab and others save drafts and a correction while answers come late, notes are
\* generated, the conversation is deleted and another account signs in.
SPECIFICATION TextEditorsSpec
CONSTANTS
  Channels = {"correction", "email", "text"}
  Correction = "correction"
  Editors <- MCEditors
  ChannelOf <- MCChannelOf
  Mine <- MCMine
  Texts = {first, second}
  Jobs = {"job1", "job2"}
  MyJob = "job1"
  MaxVersion = 2
SYMMETRY Symmetry
CONSTRAINTS
  OneFeature
  OnePreview
INVARIANTS PreviewIsOfText CleanIsSaved OthersSeeNothing
PROPERTY SavesAreOptimistic
