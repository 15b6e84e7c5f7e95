SPECIFICATION Spec
CONSTANT Projects <- AllProjects
CONSTANT MaxFiles = 28
INVARIANT MakefileRight
INVARIANT CyclesFound
PROPERTY Terminates
