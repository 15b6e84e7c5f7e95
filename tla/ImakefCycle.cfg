SPECIFICATION Spec
CONSTANT Projects <- AllProjects
CONSTANT MaxFiles = 28
INVARIANT TreeCompletes
