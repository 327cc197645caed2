----------------------------- MODULE MCTaskSetup -----------------------------
EXTENDS TaskSetup

SomeSettings ==
  {{}, {"iree.drop_build_dir"}, {"iree.install_dir", "iree.drop_build_dir"}, {"cmake.use_system"}}
=============================================================================
